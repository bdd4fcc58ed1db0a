--------------------------- MODULE FlowView_proofs ---------------------------
(***************************************************************************)
(* The flow view for any accounts, files and flow, however much the user   *)
(* does and in whatever order answers come: its row of columns keeps an    *)
(* empty column at each end, a column or a file shows an account once, and *)
(* what is hidden is still being removed.                                  *)
(*                                                                         *)
(* The three hold only together with the types: a branch fills the column  *)
(* next to its card, which is one of the row because the card's own column *)
(* is not empty; the accounts of a column are finitely many because it     *)
(* shows each once, and so clearing it asks for the removal of every card. *)
(***************************************************************************)
EXTENDS FlowView, SequenceTheorems, FiniteSetTheorems, WellFoundedInduction, TLAPS

-----------------------------------------------------------------------------
(* Numbers, sequences and finite sets                                      *)

\* A set of natural numbers has a least element.
LEMMA LeastOf ==
  ASSUME NEW T \in SUBSET Nat, T # {}
  PROVE  \E n \in T : \A m \in T : n <= m
<1>1. PICK n \in T : \A m \in T : <<m, n>> \notin OpToRel(<, Nat)
  BY WFMin, NatLessThanWellFounded, Zenon
<1>2. \A m \in T : m \in Nat /\ n \in Nat /\ ~(m < n)
  BY <1>1 DEF OpToRel
<1> QED
  BY <1>2

\* A bounded set of natural numbers has a greatest element.
LEMMA GreatestOf ==
  ASSUME NEW T \in SUBSET Nat, T # {}, NEW b \in Nat, \A t \in T : t <= b
  PROVE  \E n \in T : \A m \in T : m <= n
<1> DEFINE U == {b - t : t \in T}
<1>1. U \in SUBSET Nat /\ U # {}
  <2>1. \A t \in T : b - t \in Nat
    OBVIOUS
  <2> QED
    BY <2>1
<1>2. PICK u \in U : \A v \in U : u <= v
  BY <1>1, LeastOf
<1>3. PICK n \in T : u = b - n
  OBVIOUS
<1>4. \A m \in T : b - n <= b - m
  BY <1>2, <1>3
<1>5. \A m \in T : m <= n
  BY <1>4
<1> QED
  BY <1>5

\* f is the function that Restricted computes, up to n.
IsUpTo(f, row, S, n) ==
  f = [i \in 0..n |-> IF i = 0 THEN <<>>
                      ELSE IF row[i] \in S THEN Append(f[i - 1], row[i]) ELSE f[i - 1]]

\* There is such a function for every n.
LEMMA UpToExists ==
  ASSUME NEW row, NEW S, NEW n \in Nat
  PROVE  \E f : IsUpTo(f, row, S, n)
<1> DEFINE T == {m \in Nat : ~ \E f : IsUpTo(f, row, S, m)}
<1>1. SUFFICES ASSUME T # {}
               PROVE  FALSE
  OBVIOUS
<1>2. PICK m \in T : \A k \in T : m <= k
  BY <1>1, LeastOf
<1>3. CASE m = 0
  <2> DEFINE f == [i \in 0..0 |-> <<>>]
  <2>1. IsUpTo(f, row, S, 0)
    BY DEF IsUpTo
  <2> QED
    BY <1>3, <2>1
<1>4. CASE m # 0
  <2>1. m - 1 \in Nat /\ m - 1 \notin T
    BY <1>2, <1>4
  <2>2. PICK g : IsUpTo(g, row, S, m - 1)
    BY <2>1
  <2> DEFINE f == [i \in 0..m |->
                     IF i = m THEN IF row[m] \in S THEN Append(g[m - 1], row[m]) ELSE g[m - 1]
                     ELSE g[i]]
  <2>3. \A i \in 0..m : f[i] = IF i = 0 THEN <<>>
                               ELSE IF row[i] \in S THEN Append(f[i - 1], row[i]) ELSE f[i - 1]
    <3> SUFFICES ASSUME NEW i \in 0..m
                 PROVE  f[i] = IF i = 0 THEN <<>>
                               ELSE IF row[i] \in S THEN Append(f[i - 1], row[i]) ELSE f[i - 1]
      OBVIOUS
    <3>1. CASE i = m
      BY <3>1, <1>4
    <3>2. CASE i # m
      <4>1. i \in 0..(m - 1) /\ (i # 0 => i - 1 \in 0..m /\ i - 1 # m)
        BY <3>2, <2>1
      <4>2. g[i] = IF i = 0 THEN <<>>
                   ELSE IF row[i] \in S THEN Append(g[i - 1], row[i]) ELSE g[i - 1]
        BY <4>1, <2>2 DEF IsUpTo
      <4>3. f[i] = g[i] /\ (i # 0 => f[i - 1] = g[i - 1])
        BY <4>1, <3>2
      <4> HIDE DEF f
      <4> QED
        BY <4>2, <4>3
    <3> QED
      BY <3>1, <3>2
  <2>4. IsUpTo(f, row, S, m)
    BY <2>3 DEF IsUpTo
  <2> QED
    BY <2>4
<1> QED
  BY <1>3, <1>4

\* What the columns of the row up to n become.
Part(row, S, n, s) ==
  /\ s \in Seq(Range(row))
  /\ \A k \in 1..Len(s) : s[k] \in S /\ \E i \in 1..n : s[k] = row[i]
  /\ \A i \in 1..n : row[i] \in S => \E k \in 1..Len(s) : s[k] = row[i]
  /\ IsInjective(row) => \A k, l \in 1..Len(s) : s[k] = s[l] => k = l
  /\ n >= 1 /\ row[1] \in S => Len(s) >= 1 /\ s[1] = row[1]
  /\ n >= 1 /\ row[n] \in S => Len(s) >= 1 /\ s[Len(s)] = row[n]
  /\ n >= 2 /\ row[1] \in S /\ row[n] \in S => Len(s) >= 2

\* One more column of the row.
LEMMA PartGrows ==
  ASSUME NEW R, NEW row \in Seq(R), NEW S, NEW n \in Nat, n + 1 <= Len(row),
         NEW s, Part(row, S, n, s)
  PROVE  Part(row, S, n + 1, IF row[n + 1] \in S THEN Append(s, row[n + 1]) ELSE s)
<1>1. /\ DOMAIN row = 1..Len(row) /\ Len(row) \in Nat
      /\ row[n + 1] \in Range(row) /\ n + 1 \in 1..Len(row)
  BY LenProperties DEF Range
<1>2. CASE row[n + 1] \notin S
  BY <1>1, <1>2 DEF Part
<1>3. CASE row[n + 1] \in S
  <2> DEFINE t == Append(s, row[n + 1])
  <2>1. s \in Seq(Range(row)) /\ Len(s) \in Nat
    BY LenProperties DEF Part
  <2>2. /\ t \in Seq(Range(row)) /\ Len(t) = Len(s) + 1
        /\ \A i \in 1..Len(s) : t[i] = s[i]
        /\ t[Len(s) + 1] = row[n + 1]
    BY <1>1, <2>1, AppendProperties
  <2> HIDE DEF t
  <2>3. ASSUME NEW k \in 1..Len(t)
        PROVE  t[k] \in S /\ \E i \in 1..(n + 1) : t[k] = row[i]
    <3>1. CASE k = Len(s) + 1
      BY <3>1, <1>3, <2>2
    <3>2. CASE k # Len(s) + 1
      <4>1. k \in 1..Len(s) /\ t[k] = s[k]
        BY <3>2, <2>1, <2>2
      <4>2. PICK i \in 1..n : s[k] = row[i]
        BY <4>1 DEF Part
      <4>3. s[k] \in S
        BY <4>1 DEF Part
      <4> QED
        BY <4>1, <4>2, <4>3
    <3> QED
      BY <3>1, <3>2
  <2>4. \A i \in 1..(n + 1) : row[i] \in S => \E k \in 1..Len(t) : t[k] = row[i]
    <3> SUFFICES ASSUME NEW i \in 1..(n + 1), row[i] \in S
                 PROVE  \E k \in 1..Len(t) : t[k] = row[i]
      OBVIOUS
    <3>1. CASE i = n + 1
      BY <3>1, <2>1, <2>2
    <3>2. CASE i # n + 1
      <4>1. PICK k \in 1..Len(s) : s[k] = row[i]
        BY <3>2 DEF Part
      <4> QED
        BY <4>1, <2>1, <2>2
    <3> QED
      BY <3>1, <3>2
  <2>5. ASSUME IsInjective(row), NEW k \in 1..Len(t), NEW l \in 1..Len(t), t[k] = t[l]
        PROVE  k = l
    <3>1. ASSUME NEW j \in 1..Len(s)
          PROVE  s[j] # row[n + 1]
      <4>1. PICK i \in 1..n : s[j] = row[i]
        BY DEF Part
      <4> QED
        BY <4>1, <1>1, <2>5 DEF IsInjective
    <3>2. \A j \in 1..Len(t) : j \in 1..Len(s) \/ j = Len(s) + 1
      BY <2>1, <2>2
    <3>3. k \in 1..Len(s) /\ l \in 1..Len(s) => k = l
      BY <2>2, <2>5 DEF Part
    <3> QED
      BY <2>2, <2>5, <3>1, <3>2, <3>3
  <2>6. (n + 1 >= 1 /\ row[1] \in S) => (Len(t) >= 1 /\ t[1] = row[1])
    <3>1. CASE n = 0
      <4>1. Len(s) = 0
        BY <3>1, <2>1 DEF Part
      <4> QED
        BY <4>1, <3>1, <2>2
    <3>2. CASE n # 0
      BY <3>2, <2>1, <2>2 DEF Part
    <3> QED
      BY <3>1, <3>2
  <2>7. (n + 1 >= 2 /\ row[1] \in S) => Len(t) >= 2
    BY <2>1, <2>2 DEF Part
  <2>8. Part(row, S, n + 1, t)
    BY <1>1, <2>1, <2>2, <2>3, <2>4, <2>5, <2>6, <2>7 DEF Part
  <2> QED
    BY <1>3, <2>8 DEF t
<1> QED
  BY <1>2, <1>3

\* A row without the columns outside S.
LEMMA RestrictedPart ==
  ASSUME NEW R, NEW row \in Seq(R), NEW S
  PROVE  Part(row, S, Len(row), Restricted(row, S))
<1>1. Len(row) \in Nat
  BY LenProperties
<1>2. PICK f : IsUpTo(f, row, S, Len(row)) /\ Restricted(row, S) = f[Len(row)]
  <2>1. \E f : IsUpTo(f, row, S, Len(row))
    BY <1>1, UpToExists
  <2> QED
    BY <2>1 DEF Restricted, IsUpTo
<1> DEFINE T == {m \in 0..Len(row) : ~Part(row, S, m, f[m])}
<1>3. SUFFICES ASSUME T # {}
               PROVE  FALSE
  <2>1. Len(row) \in 0..Len(row)
    BY <1>1
  <2> QED
    BY <1>2, <2>1
<1>4. PICK m \in T : \A k \in T : m <= k
  <2>1. T \in SUBSET Nat
    BY <1>1
  <2> HIDE DEF T
  <2> QED
    BY <1>3, <2>1, LeastOf
<1>5. CASE m = 0
  <2>1. f[0] = <<>>
    BY <1>1, <1>2 DEF IsUpTo
  <2>2. Part(row, S, 0, <<>>)
    BY EmptySeq DEF Part
  <2> QED
    BY <1>5, <2>1, <2>2
<1>6. CASE m # 0
  <2>1. m - 1 \in Nat /\ m - 1 \in 0..Len(row) /\ Part(row, S, m - 1, f[m - 1])
    BY <1>1, <1>4, <1>6
  <2>2. f[m] = IF row[m] \in S THEN Append(f[m - 1], row[m]) ELSE f[m - 1]
    BY <1>1, <1>2, <1>6 DEF IsUpTo
  <2>3. m - 1 + 1 = m /\ m <= Len(row)
    BY <1>1
  <2>4. Part(row, S, m - 1 + 1, IF row[m - 1 + 1] \in S THEN Append(f[m - 1], row[m - 1 + 1])
                                ELSE f[m - 1])
    BY <2>1, <2>3, PartGrows
  <2> QED
    BY <2>2, <2>3, <2>4
<1> QED
  BY <1>5, <1>6

\* The elements of a sequence.
IsSeq(s) == s \in Seq(Range(s))

\* A sequence over S is one over its own elements.
LEMMA SeqIs ==
  ASSUME NEW S, NEW s \in Seq(S)
  PROVE  IsSeq(s) /\ Range(s) \subseteq S
  BY SeqOfRange, RangeOfSeq DEF IsSeq

\* Two sequences, one after the other.
LEMMA ConcatIs ==
  ASSUME NEW s, NEW t, IsSeq(s), IsSeq(t)
  PROVE  /\ IsSeq(s \o t)
         /\ Range(s \o t) = Range(s) \cup Range(t)
         /\ s # <<>> => s \o t # <<>> /\ Head(s \o t) = Head(s)
<1> DEFINE U == Range(s) \cup Range(t)
<1>1. s \in Seq(U) /\ t \in Seq(U)
  <2>1. Range(s) \subseteq U /\ Range(t) \subseteq U
    OBVIOUS
  <2> HIDE DEF U
  <2> QED
    BY <2>1, SeqMonotonic DEF IsSeq
<1>2. IsSeq(s \o t) /\ Range(s \o t) = Range(s) \cup Range(t)
  <2> HIDE DEF U
  <2>1. s \o t \in Seq(U) /\ Range(s \o t) = Range(s) \cup Range(t)
    BY <1>1, ConcatProperties, RangeConcatenation
  <2> QED
    BY <2>1, SeqIs
<1>3. s # <<>> => s \o t # <<>> /\ Head(s \o t) = Head(s)
  <2> HIDE DEF U
  <2> SUFFICES ASSUME s # <<>>
               PROVE  s \o t # <<>> /\ Head(s \o t) = Head(s)
    OBVIOUS
  <2>1. Len(s) \in Nat \ {0} /\ Len(t) \in Nat
    BY <1>1, EmptySeq, LenProperties
  <2>2. /\ s \o t \in Seq(U)
        /\ Len(s \o t) = Len(s) + Len(t)
        /\ (s \o t)[1] = s[1]
    BY <1>1, <2>1, ConcatProperties
  <2>3. Len(s \o t) # 0
    BY <2>1, <2>2
  <2> QED
    BY <1>1, <2>2, <2>3, EmptySeq
<1> QED
  BY <1>2, <1>3

\* The first element of a sequence and the others.
LEMMA TailIs ==
  ASSUME NEW s, IsSeq(s), s # <<>>
  PROVE  /\ IsSeq(Tail(s))
         /\ Head(s) \in Range(s)
         /\ Range(s) = {Head(s)} \cup Range(Tail(s))
<1> DEFINE U == Range(s)
<1>1. s \in Seq(U)
  BY DEF IsSeq
<1> HIDE DEF U
<1>2. /\ Head(s) \in U /\ Tail(s) \in Seq(U) /\ Len(Tail(s)) = Len(s) - 1
      /\ \A i \in 1..Len(Tail(s)) : Tail(s)[i] = s[i + 1]
  BY <1>1, HeadTailProperties
<1>3. Len(s) \in Nat \ {0} /\ DOMAIN s = 1..Len(s) /\ DOMAIN Tail(s) = 1..(Len(s) - 1)
  BY <1>1, <1>2, EmptySeq, LenProperties
<1>4. Head(s) = s[1]
  BY <1>1
<1>5. ASSUME NEW i \in DOMAIN s
      PROVE  s[i] = Head(s) \/ \E j \in DOMAIN Tail(s) : s[i] = Tail(s)[j]
  <2>1. CASE i = 1
    BY <2>1, <1>4
  <2>2. CASE i # 1
    <3>1. i - 1 \in DOMAIN Tail(s) /\ Tail(s)[i - 1] = s[i]
      BY <2>2, <1>2, <1>3
    <3> QED
      BY <3>1
  <2> QED
    BY <2>1, <2>2
<1>6. Range(s) \subseteq {Head(s)} \cup Range(Tail(s))
  BY <1>5 DEF Range
<1>7. Range(Tail(s)) \subseteq U
  BY <1>2, SeqIs
<1> QED
  BY <1>2, <1>6, <1>7, SeqIs DEF U

\* Requests are finitely many.
LEMMA FiniteRange ==
  ASSUME NEW s, IsSeq(s)
  PROVE  IsFiniteSet(Range(s))
<1>1. Len(s) \in Nat /\ s \in [1..Len(s) -> Range(s)] /\ DOMAIN s = 1..Len(s)
  BY LenProperties DEF IsSeq
<1>2. s \in Surjection(1..Len(s), Range(s))
  BY <1>1 DEF Surjection, Range
<1> QED
  BY <1>1, <1>2, FS_NatSurjection DEF ExistsSurjection

\* SetToSeq lists a finite set.
LEMMA Listed ==
  ASSUME NEW S, IsFiniteSet(S)
  PROVE  IsSeq(SetToSeq(S)) /\ Range(SetToSeq(S)) = S /\ IsInjective(SetToSeq(S))
<1> DEFINE n == Cardinality(S)
<1>1. n \in Nat /\ ExistsBijection(1..n, S)
  BY FS_CardinalityType
<1>2. \E f \in [1..n -> S] : IsInjective(f)
  BY <1>1 DEF ExistsBijection, Bijection, Injection
<1> DEFINE q == SetToSeq(S)
<1>3. q \in [1..n -> S] /\ IsInjective(q)
  BY <1>2 DEF SetToSeq
<1>4. Cardinality(1..n) = n
  BY <1>1, FS_Interval
<1> HIDE DEF q
<1>5. q \in Surjection(1..n, S)
  BY <1>3, <1>4, FS_Injection DEF Injection
<1>6. Range(q) = S
  BY <1>3, <1>5 DEF Surjection, Range
<1>7. q \in Seq(S)
  BY <1>1, <1>3
<1> QED
  BY <1>3, <1>6, <1>7, SeqIs DEF q

\* There is a number that is not taken.
LEMMA FreshIs ==
  ASSUME NEW T, IsFiniteSet(T)
  PROVE  Fresh(T) \in Nat /\ Fresh(T) \notin T
<1> DEFINE n == Cardinality(T)
<1>1. n \in Nat
  BY FS_CardinalityType
<1>2. \E i \in 1..(n + 1) : i \notin T
  <2> SUFFICES ASSUME 1..(n + 1) \subseteq T
               PROVE  FALSE
    OBVIOUS
  <2>1. Cardinality(1..(n + 1)) = n + 1
    BY <1>1, FS_Interval
  <2>2. Cardinality(1..(n + 1)) <= n
    BY FS_Subset
  <2> QED
    BY <1>1, <2>1, <2>2
<1>3. Fresh(T) \in 1..(n + 1) /\ Fresh(T) \notin T
  BY <1>2 DEF Fresh
<1> QED
  BY <1>1, <1>3

-----------------------------------------------------------------------------
(* Pruning the row                                                         *)

\* Column c holds a card or a file.
Occupied(c, cards, places) == In(c, cards) # {} \/ \E f \in Files : places[f] = c

\* Two rows without a common column, one after the other.
LEMMA ConcatInjective ==
  ASSUME NEW R, NEW s \in Seq(R), NEW t \in Seq(R), IsInjective(s), IsInjective(t),
         \A i \in 1..Len(s), k \in 1..Len(t) : s[i] # t[k]
  PROVE  /\ s \o t \in Seq(R) /\ IsInjective(s \o t)
         /\ Len(s \o t) = Len(s) + Len(t) /\ Len(s) \in Nat /\ Len(t) \in Nat
         /\ \A i \in 1..Len(s) : (s \o t)[i] = s[i]
         /\ \A k \in 1..Len(t) : (s \o t)[Len(s) + k] = t[k]
         /\ \A j \in 1..Len(s \o t) : j \in 1..Len(s) \/ j - Len(s) \in 1..Len(t)
<1>1. Len(s) \in Nat /\ Len(t) \in Nat /\ DOMAIN s = 1..Len(s) /\ DOMAIN t = 1..Len(t)
  BY LenProperties
<1> DEFINE u == s \o t
<1>2. /\ u \in Seq(R) /\ Len(u) = Len(s) + Len(t)
      /\ \A i \in 1..(Len(s) + Len(t)) :
           u[i] = IF i <= Len(s) THEN s[i] ELSE t[i - Len(s)]
  BY ConcatProperties
<1>3. DOMAIN u = 1..(Len(s) + Len(t))
  BY <1>2, LenProperties
<1> HIDE DEF u
<1>4. ASSUME NEW i \in 1..(Len(s) + Len(t)), NEW k \in 1..(Len(s) + Len(t)), u[i] = u[k]
      PROVE  i = k
  <2>1. CASE i <= Len(s) /\ k <= Len(s)
    <3>1. s[i] = s[k] /\ i \in DOMAIN s /\ k \in DOMAIN s
      BY <1>1, <1>2, <1>4, <2>1
    <3> QED
      BY <3>1 DEF IsInjective
  <2>2. CASE i > Len(s) /\ k > Len(s)
    <3>1. t[i - Len(s)] = t[k - Len(s)] /\ i - Len(s) \in DOMAIN t /\ k - Len(s) \in DOMAIN t
      BY <1>1, <1>2, <1>4, <2>2
    <3>2. i - Len(s) = k - Len(s)
      BY <3>1 DEF IsInjective
    <3> QED
      BY <1>1, <3>2
  <2>3. CASE i <= Len(s) /\ k > Len(s)
    <3>1. s[i] = t[k - Len(s)] /\ i \in 1..Len(s) /\ k - Len(s) \in 1..Len(t)
      BY <1>1, <1>2, <1>4, <2>3
    <3> QED
      BY <3>1
  <2>4. CASE i > Len(s) /\ k <= Len(s)
    <3>1. t[i - Len(s)] = s[k] /\ k \in 1..Len(s) /\ i - Len(s) \in 1..Len(t)
      BY <1>1, <1>2, <1>4, <2>4
    <3> QED
      BY <3>1
  <2> QED
    BY <1>1, <2>1, <2>2, <2>3, <2>4
<1>5. IsInjective(u)
  BY <1>3, <1>4 DEF IsInjective
<1>6. \A i \in 1..Len(s) : u[i] = s[i]
  BY <1>1, <1>2
<1>7. \A k \in 1..Len(t) : u[Len(s) + k] = t[k]
  BY <1>1, <1>2
<1>8. \A j \in 1..Len(u) : j \in 1..Len(s) \/ j - Len(s) \in 1..Len(t)
  BY <1>1, <1>2
<1> QED
  BY <1>1, <1>2, <1>5, <1>6, <1>7, <1>8 DEF u

\* None or one new column, and a row between new ones.
AtMost(s, m) == s = <<>> \/ s = <<m>>
Around(left, kept, third, right) == left \o kept \o third \o right

\* None or one new column is a row without repetition.
LEMMA NewColumn ==
  ASSUME NEW m \in Nat, NEW s, AtMost(s, m)
  PROVE  /\ s \in Seq(Nat) /\ IsInjective(s)
         /\ s = <<>> => Len(s) = 0
         /\ s = <<m>> => Len(s) = 1
         /\ \A i \in 1..Len(s) : i = 1 /\ s[i] = m
<1>1. CASE s = <<>>
  <2>1. s \in Seq(Nat) /\ Len(s) = 0 /\ s # <<m>>
    BY <1>1, EmptySeq
  <2>2. DOMAIN s = {}
    BY <1>1
  <2> QED
    BY <1>1, <2>1, <2>2 DEF IsInjective
<1>2. CASE s = <<m>>
  <2>1. s \in Seq(Nat) /\ Len(s) = 1 /\ s[1] = m /\ DOMAIN s = 1..1 /\ s # <<>>
    BY <1>2
  <2> QED
    BY <2>1 DEF IsInjective
<1> QED
  BY <1>1, <1>2 DEF AtMost

\* The columns kept, with new ones around them.
NewAround(n, kept, third, left, right) ==
  /\ kept \in Seq(Nat) /\ IsInjective(kept) /\ Len(kept) >= 2
  /\ \A k \in 1..Len(kept) : kept[k] \in 1..n
  /\ AtMost(third, n + 1) /\ (Len(kept) < 3 => third # <<>>)
  /\ AtMost(left, n + Len(third) + 1)
  /\ AtMost(right, n + Len(third) + Len(left) + 1)

\* What such a row is like.
IsAround(p, n, kept, left, right) ==
  /\ p \in Seq(1..(n + 3)) /\ IsInjective(p) /\ Len(p) >= 3
  /\ \A k \in 1..Len(kept) : \E j \in DOMAIN p : p[j] = kept[k]
  /\ (p[1] = kept[1] /\ left = <<>>) \/ p[1] > n
  /\ (p[Len(p)] = kept[Len(kept)] /\ right = <<>>) \/ p[Len(p)] > n

\* The new columns have numbers of their own.
LEMMA RowAround ==
  ASSUME NEW n \in Nat, NEW kept, NEW third, NEW left, NEW right,
         NewAround(n, kept, third, left, right)
  PROVE  IsAround(Around(left, kept, third, right), n, kept, left, right)
<1> DEFINE a == left \o kept
           b == a \o third
           p == Around(left, kept, third, right)
<1>10. p = b \o right
  BY DEF Around
<1> HIDE DEF p
<1>1. /\ kept \in Seq(Nat) /\ IsInjective(kept) /\ Len(kept) \in Nat /\ Len(kept) >= 2
      /\ \A k \in 1..Len(kept) : kept[k] \in 1..n
  BY LenProperties DEF NewAround
<1>2. /\ third \in Seq(Nat) /\ IsInjective(third) /\ Len(third) \in 0..1
      /\ \A i \in 1..Len(third) : i = 1 /\ third[i] = n + 1
      /\ Len(kept) < 3 => Len(third) = 1
      /\ third = <<>> <=> Len(third) = 0
  BY NewColumn DEF AtMost, NewAround
<1>3. /\ left \in Seq(Nat) /\ IsInjective(left) /\ Len(left) \in 0..1
      /\ \A i \in 1..Len(left) : i = 1 /\ left[i] = n + Len(third) + 1
      /\ left = <<>> <=> Len(left) = 0
  <2>1. n + Len(third) + 1 \in Nat
    BY <1>2
  <2> QED
    BY <2>1, NewColumn DEF AtMost, NewAround
<1>4. /\ right \in Seq(Nat) /\ IsInjective(right) /\ Len(right) \in 0..1
      /\ \A i \in 1..Len(right) : i = 1 /\ right[i] = n + Len(third) + Len(left) + 1
      /\ right = <<>> <=> Len(right) = 0
  <2>1. n + Len(third) + Len(left) + 1 \in Nat
    BY <1>2, <1>3
  <2> QED
    BY <2>1, NewColumn DEF AtMost, NewAround
<1>5. /\ a \in Seq(Nat) /\ IsInjective(a)
      /\ Len(a) = Len(left) + Len(kept)
      /\ \A i \in 1..Len(left) : a[i] = left[i]
      /\ \A k \in 1..Len(kept) : a[Len(left) + k] = kept[k]
      /\ \A j \in 1..Len(a) : j \in 1..Len(left) \/ j - Len(left) \in 1..Len(kept)
  <2>1. \A i \in 1..Len(left), k \in 1..Len(kept) : left[i] # kept[k]
    BY <1>1, <1>2, <1>3
  <2>2. kept \in Seq(Nat) /\ IsInjective(kept) /\ left \in Seq(Nat) /\ IsInjective(left)
    BY <1>1, <1>3
  <2> QED
    BY <2>1, <2>2, ConcatInjective
<1> HIDE DEF a
<1>17. Len(a) \in Nat /\ Len(a) >= 2
  BY <1>1, <1>3, <1>5
<1>6. ASSUME NEW j \in 1..Len(a)
      PROVE  a[j] \in 1..n \/ (Len(left) = 1 /\ a[j] = n + Len(third) + 1)
  <2>1. CASE j \in 1..Len(left)
    BY <2>1, <1>3, <1>5
  <2>2. CASE j - Len(left) \in 1..Len(kept)
    <3>1. a[Len(left) + (j - Len(left))] = kept[j - Len(left)]
      BY <2>2, <1>5
    <3>2. Len(left) + (j - Len(left)) = j
      BY <1>1, <1>3, <1>5
    <3> QED
      BY <2>2, <1>1, <3>1, <3>2
  <2> QED
    BY <1>5, <2>1, <2>2
<1>7. /\ b \in Seq(Nat) /\ IsInjective(b)
      /\ Len(b) = Len(a) + Len(third)
      /\ \A i \in 1..Len(a) : b[i] = a[i]
      /\ \A k \in 1..Len(third) : b[Len(a) + k] = third[k]
      /\ \A j \in 1..Len(b) : j \in 1..Len(a) \/ j - Len(a) \in 1..Len(third)
  <2>1. \A i \in 1..Len(a), k \in 1..Len(third) : a[i] # third[k]
    BY <1>2, <1>6
  <2>2. a \in Seq(Nat) /\ IsInjective(a) /\ third \in Seq(Nat) /\ IsInjective(third)
    BY <1>2, <1>5
  <2> QED
    BY <2>1, <2>2, ConcatInjective
<1> HIDE DEF b
<1>18. Len(b) \in Nat /\ Len(b) >= 2 /\ (Len(third) = 1 => Len(b) >= 3)
  <2>1. Len(b) = Len(a) + Len(third)
    BY <1>7
  <2>2. Len(third) \in 0..1
    BY <1>2
  <2> QED
    BY <2>1, <2>2, <1>17
<1>8. ASSUME NEW j \in 1..Len(b)
      PROVE  \/ b[j] \in 1..n
             \/ Len(left) = 1 /\ b[j] = n + Len(third) + 1
             \/ Len(third) = 1 /\ b[j] = n + 1
  <2>1. CASE j \in 1..Len(a)
    BY <2>1, <1>6, <1>7
  <2>2. CASE j - Len(a) \in 1..Len(third)
    <3>1. b[Len(a) + (j - Len(a))] = third[j - Len(a)]
      BY <2>2, <1>7
    <3>2. Len(a) + (j - Len(a)) = j
      BY <1>1, <1>2, <1>3, <1>5, <1>7
    <3>3. Len(third) = 1
      BY <2>2, <1>2
    <3> QED
      BY <2>2, <1>2, <3>1, <3>2, <3>3
  <2> QED
    BY <1>7, <2>1, <2>2
<1>9. /\ p \in Seq(Nat) /\ IsInjective(p)
      /\ Len(p) = Len(b) + Len(right)
      /\ \A i \in 1..Len(b) : p[i] = b[i]
      /\ \A k \in 1..Len(right) : p[Len(b) + k] = right[k]
      /\ \A j \in 1..Len(p) : j \in 1..Len(b) \/ j - Len(b) \in 1..Len(right)
  <2>1. \A i \in 1..Len(b), k \in 1..Len(right) : b[i] # right[k]
    BY <1>2, <1>3, <1>4, <1>8
  <2>2. b \in Seq(Nat) /\ IsInjective(b) /\ right \in Seq(Nat) /\ IsInjective(right)
    BY <1>4, <1>7
  <2> QED
    BY <1>10, <2>1, <2>2, ConcatInjective
<1>11. Len(p) >= 3 /\ Len(p) \in Nat /\ Len(b) \in Nat /\ Len(a) \in Nat /\ DOMAIN p = 1..Len(p)
  <2>1. Len(b) >= 3
    <3>1. CASE Len(kept) < 3
      BY <3>1, <1>2, <1>18
    <3>2. CASE Len(kept) >= 3
      BY <3>2, <1>1, <1>2, <1>3, <1>5, <1>7
    <3> QED
      BY <1>1, <3>1, <3>2
  <2>2. Len(p) = Len(b) + Len(right) /\ p \in Seq(Nat)
    BY <1>9
  <2> QED
    BY <1>4, <1>17, <1>18, <2>1, <2>2, LenProperties
<1>12. ASSUME NEW j \in 1..Len(p)
       PROVE  p[j] \in 1..(n + 3)
  <2>1. CASE j \in 1..Len(b)
    <3>1. p[j] = b[j]
      BY <2>1, <1>9
    <3>2. b[j] \in 1..n => b[j] \in 1..(n + 3)
      OBVIOUS
    <3>3. Len(third) \in 0..1
      BY <1>2
    <3>4. b[j] = n + Len(third) + 1 => b[j] \in 1..(n + 3)
      <4>1. \A u \in 0..1 : n + u + 1 \in 1..(n + 3)
        OBVIOUS
      <4>2. n + Len(third) + 1 \in 1..(n + 3)
        BY <3>3, <4>1
      <4> QED
        BY <4>2
    <3>5. b[j] = n + 1 => b[j] \in 1..(n + 3)
      OBVIOUS
    <3>6. b[j] \in 1..(n + 3)
      BY <2>1, <3>2, <3>4, <3>5, <1>8
    <3> QED
      BY <3>1, <3>6
  <2>2. CASE j - Len(b) \in 1..Len(right)
    <3>1. p[Len(b) + (j - Len(b))] = right[j - Len(b)]
      BY <2>2, <1>9
    <3>2. Len(b) + (j - Len(b)) = j
      BY <1>11
    <3>3. Len(third) \in 0..1 /\ Len(left) \in 0..1
      BY <1>2, <1>3
    <3>4. right[j - Len(b)] = n + Len(third) + Len(left) + 1
      BY <2>2, <1>4
    <3>5. p[j] = n + Len(third) + Len(left) + 1
      BY <3>1, <3>2, <3>4
    <3>6. \A u \in 0..1, v \in 0..1 : n + u + v + 1 \in 1..(n + 3)
      OBVIOUS
    <3>7. n + Len(third) + Len(left) + 1 \in 1..(n + 3)
      BY <3>3, <3>6
    <3> QED
      BY <3>5, <3>7
  <2> QED
    BY <1>9, <2>1, <2>2
<1>13. p \in Seq(1..(n + 3))
  <2>1. p \in [1..Len(p) -> Nat]
    BY <1>9, LenProperties
  <2> DEFINE m == Len(p)
  <2>2. p \in [1..m -> 1..(n + 3)] /\ m \in Nat
    BY <1>11, <1>12, <2>1
  <2> HIDE DEF m
  <2> QED
    BY <2>2
<1>14. ASSUME NEW k \in 1..Len(kept)
       PROVE  p[Len(left) + k] = kept[k] /\ Len(left) + k \in DOMAIN p
  <2>1. Len(left) + k \in 1..Len(a) /\ Len(left) + k \in 1..Len(b) /\ Len(left) + k \in 1..Len(p)
    <3>1. Len(left) + k \in Nat /\ Len(left) + k >= 1 /\ Len(left) + k <= Len(a)
      BY <1>1, <1>3, <1>5
    <3>2. Len(a) <= Len(b) /\ Len(b) <= Len(p)
      <4>1. Len(b) = Len(a) + Len(third) /\ Len(third) \in 0..1
        BY <1>2, <1>7
      <4>2. Len(p) = Len(b) + Len(right) /\ Len(right) \in 0..1
        BY <1>4, <1>9
      <4> QED
        BY <4>1, <4>2, <1>17, <1>18
    <3> QED
      BY <1>11, <3>1, <3>2
  <2> QED
    BY <1>5, <1>7, <1>9, <1>11, <2>1
<1>15. (p[1] = kept[1] /\ left = <<>>) \/ p[1] > n
  <2>1. CASE Len(left) = 1
    <3>1. 1 \in 1..Len(left) /\ 1 \in 1..Len(a) /\ 1 \in 1..Len(b)
      BY <2>1, <1>17, <1>18
    <3>2. p[1] = left[1]
      BY <3>1, <1>5, <1>7, <1>9
    <3> QED
      BY <3>1, <3>2, <1>2, <1>3
  <2>2. CASE Len(left) = 0
    <3>1. 1 \in 1..Len(kept) /\ Len(left) + 1 = 1
      BY <2>2, <1>1
    <3>2. p[1] = kept[1]
      BY <3>1, <1>14
    <3> QED
      BY <3>2, <2>2, <1>3
  <2> QED
    BY <1>3, <2>1, <2>2
<1>16. (p[Len(p)] = kept[Len(kept)] /\ right = <<>>) \/ p[Len(p)] > n
  <2>1. CASE Len(right) = 1
    <3>1. p[Len(p)] = right[1] /\ 1 \in 1..Len(right)
      BY <2>1, <1>9
    <3> QED
      BY <3>1, <1>2, <1>3, <1>4
  <2>2. CASE Len(right) = 0 /\ Len(third) = 1
    <3>1. Len(p) = Len(b) /\ Len(b) = Len(a) + 1 /\ Len(b) \in 1..Len(b) /\ 1 \in 1..Len(third)
      BY <2>2, <1>7, <1>9, <1>11
    <3>2. p[Len(p)] = third[1]
      BY <3>1, <1>7, <1>9
    <3> QED
      BY <3>1, <3>2, <1>2
  <2>3. CASE Len(right) = 0 /\ Len(third) = 0
    <3>1. Len(kept) \in 1..Len(kept) /\ Len(p) = Len(left) + Len(kept)
      BY <2>3, <1>1, <1>3, <1>5, <1>7, <1>9
    <3>2. p[Len(p)] = kept[Len(kept)]
      BY <3>1, <1>14
    <3> QED
      BY <3>2, <2>3, <1>4
  <2> QED
    BY <1>2, <1>4, <2>1, <2>2, <2>3
<1> QED
  BY <1>9, <1>11, <1>13, <1>14, <1>15, <1>16 DEF p, IsAround

\* _pruneColumns keeps every column that is occupied, and puts an empty one at
\* each end; the row has no column twice.
LEMMA PrunedRow ==
  ASSUME NEW n \in Nat, NEW row \in Seq(1..n), IsInjective(row), Len(row) >= 2,
         NEW cards, NEW places,
         \A c \in Columns : Occupied(c, cards, places) => c \in Range(row)
  PROVE  LET p == Pruned(row, n, cards, places) IN
         /\ p \in Seq(1..(n + 3)) /\ IsInjective(p) /\ Len(p) >= 3
         /\ \A c \in Columns : Occupied(c, cards, places) => c \in Range(p)
         /\ \A c \in Columns : c \in {p[1], p[Len(p)]} => ~Occupied(c, cards, places)
<1> DEFINE occupied == {c \in Columns : In(c, cards) # {} \/ \E f \in Files : places[f] = c}
           S == {row[1], row[Len(row)]} \cup occupied
           kept == Restricted(row, S)
           third == IF Len(kept) < 3 THEN <<n + 1>> ELSE <<>>
           left == IF row[1] \in occupied THEN <<n + Len(third) + 1>> ELSE <<>>
           right == IF row[Len(row)] \in occupied
                    THEN <<n + Len(third) + Len(left) + 1>> ELSE <<>>
           p == left \o kept \o third \o right
<1>0. Pruned(row, n, cards, places) = p
  BY DEF Pruned
<1>1. /\ Len(row) \in Nat /\ DOMAIN row = 1..Len(row)
      /\ \A i \in 1..Len(row) : row[i] \in 1..n
  BY LenProperties, ElementOfSeq
<1>2. Part(row, S, Len(row), kept)
  <2> HIDE DEF S
  <2> QED
    BY RestrictedPart
<1>3. \A c \in Columns : c \in occupied <=> Occupied(c, cards, places)
  BY DEF Occupied
<1>4. occupied \subseteq Range(row) /\ \A c \in occupied : c \in 1..n
  BY <1>1, <1>3 DEF Range
<1>5. row[1] \in S /\ row[Len(row)] \in S /\ occupied \subseteq S
  OBVIOUS
<1> HIDE DEF occupied, S, kept
<1>6. /\ kept \in Seq(Nat) /\ Len(kept) \in Nat /\ Len(kept) >= 2
      /\ IsInjective(kept)
      /\ kept[1] = row[1] /\ kept[Len(kept)] = row[Len(row)]
      /\ \A c \in occupied : \E k \in 1..Len(kept) : kept[k] = c
      /\ \A k \in 1..Len(kept) : kept[k] \in 1..n
  <2>1. kept \in Seq(Range(row)) /\ Len(kept) \in Nat /\ DOMAIN kept = 1..Len(kept)
    BY <1>2, LenProperties DEF Part
  <2>2. Len(kept) >= 2 /\ kept[1] = row[1] /\ kept[Len(kept)] = row[Len(row)]
    BY <1>1, <1>2, <1>5 DEF Part
  <2>3. IsInjective(kept)
    BY <1>2, <2>1 DEF Part, IsInjective
  <2>4. ASSUME NEW c \in occupied
        PROVE  \E k \in 1..Len(kept) : kept[k] = c
    <3>1. PICK i \in 1..Len(row) : row[i] = c
      BY <1>1, <1>4 DEF Range
    <3> QED
      BY <1>2, <1>5, <3>1 DEF Part
  <2>5. \A k \in 1..Len(kept) : kept[k] \in 1..n
    BY <1>1, <1>2 DEF Part
  <2>6. Range(row) \subseteq Nat
    BY <1>1 DEF Range
  <2>7. kept \in Seq(Nat)
    BY <2>1, <2>6, SeqMonotonic
  <2> QED
    BY <2>1, <2>2, <2>3, <2>4, <2>5, <2>7
<1>7. /\ AtMost(third, n + 1)
      /\ AtMost(left, n + Len(third) + 1)
      /\ AtMost(right, n + Len(third) + Len(left) + 1)
  BY DEF AtMost
<1>8. /\ Len(kept) < 3 => third # <<>>
      /\ left = <<>> => row[1] \notin occupied
      /\ right = <<>> => row[Len(row)] \notin occupied
  <2>1. \A m : <<m>> # <<>>
    OBVIOUS
  <2> QED
    BY <2>1
<1>9. p = Around(left, kept, third, right)
  BY DEF Around
<1> HIDE DEF third, left, right, p
<1>13. NewAround(n, kept, third, left, right)
  BY <1>6, <1>7, <1>8 DEF NewAround
<1>10. /\ p \in Seq(1..(n + 3)) /\ IsInjective(p) /\ Len(p) >= 3
       /\ \A k \in 1..Len(kept) : \E j \in DOMAIN p : p[j] = kept[k]
       /\ (p[1] = kept[1] /\ left = <<>>) \/ p[1] > n
       /\ (p[Len(p)] = kept[Len(kept)] /\ right = <<>>) \/ p[Len(p)] > n
  <2>1. IsAround(p, n, kept, left, right)
    BY <1>9, <1>13, RowAround
  <2> QED
    BY <2>1 DEF IsAround
<1>11. p[1] \notin occupied /\ p[Len(p)] \notin occupied
  <2>1. \A c \in occupied : c \in Int /\ ~(c > n)
    BY <1>4
  <2> QED
    BY <1>6, <1>8, <1>10, <2>1
<1>12. \A c \in occupied : c \in Range(p)
  <2> SUFFICES ASSUME NEW c \in occupied
               PROVE  c \in Range(p)
    OBVIOUS
  <2>1. PICK k \in 1..Len(kept) : kept[k] = c
    BY <1>6
  <2> QED
    BY <1>10, <2>1 DEF Range
<1> QED
  BY <1>0, <1>3, <1>10, <1>11, <1>12

-----------------------------------------------------------------------------
(* The view                                                                *)

One(cards) == \A o, p \in cards : o.home = p.home /\ o.account = p.account => o = p

\* Cards and files that are where they should be, in columns of R.
FitsIn(cards, places, R) ==
  /\ cards \subseteq Card /\ One(cards)
  /\ places \in [Files -> R \cup {None, Gone}]
  /\ \A o \in cards : (IF o.home \in Files THEN places[o.home] ELSE o.home) \in R

RowOK ==
  /\ made \in Columns /\ columns \in Seq(1..made) /\ IsInjective(columns) /\ Len(columns) >= 3

View ==
  /\ RowOK /\ EndsEmpty
  /\ FitsIn(shown, place, Range(columns))
  /\ cluster \in [Files -> Nat]
  /\ hidden \subseteq shown \cup {f \in Files : Live(f)}

\* The number of columns made reaches every column of a row.
LEMMA NewestOf ==
  ASSUME made \in Nat \ {0}, NEW b \in Nat, NEW row \in Seq(1..b)
  PROVE  /\ Newest(row) \in Nat /\ Newest(row) >= made
         /\ row \in Seq(1..Newest(row))
<1> DEFINE T == Range(row) \cup {made}
           m == Newest(row)
<1>1. Range(row) \subseteq 1..b
  BY SeqIs
<1>2. T \in SUBSET Nat /\ T # {} /\ b + made \in Nat /\ \A t \in T : t <= b + made
  BY <1>1
<1>3. \E n \in T : \A c \in T : c <= n
  <2> HIDE DEF T
  <2> QED
    BY <1>2, GreatestOf
<1>4. m \in T /\ \A c \in T : c <= m
  BY <1>3 DEF Newest
<1> HIDE DEF m
<1>5. m \in Nat /\ m >= made
  BY <1>2, <1>4
<1>6. Range(row) \subseteq 1..m
  BY <1>1, <1>4, <1>5
<1>7. row \in Seq(Range(row))
  BY SeqIs DEF IsSeq
<1>8. row \in Seq(1..m)
  BY <1>6, <1>7, SeqMonotonic
<1> QED
  BY <1>5, <1>8 DEF m

\* The positions of the row and its columns.
LEMMA RowIs ==
  ASSUME RowOK
  PROVE  /\ Len(columns) \in Nat /\ DOMAIN columns = 1..Len(columns)
         /\ Range(columns) \subseteq Columns
         /\ \A i \in 1..Len(columns) : columns[i] \in Range(columns)
<1>1. Len(columns) \in Nat /\ DOMAIN columns = 1..Len(columns)
  BY LenProperties DEF RowOK
<1>2. Range(columns) \subseteq 1..made /\ made \in Nat /\ made <= MaxColumns
  BY SeqIs, FlowAssumption DEF RowOK, Columns
<1>3. 1..made \subseteq Columns
  BY <1>2, FlowAssumption DEF Columns
<1> QED
  BY <1>1, <1>2, <1>3 DEF Range

\* A column that holds something is one of R.
LEMMA OccupiedIn ==
  ASSUME NEW cards, NEW places, NEW R, FitsIn(cards, places, R),
         NEW c \in Columns, Occupied(c, cards, places)
  PROVE  c \in R
<1>1. c \notin Files /\ c # None /\ c # Gone
  BY FlowAssumption DEF Contexts
<1>2. CASE In(c, cards) # {}
  BY <1>1, <1>2 DEF In, FitsIn
<1>3. CASE \E f \in Files : places[f] = c
  BY <1>1, <1>3 DEF FitsIn
<1> QED
  BY <1>2, <1>3 DEF Occupied

\* After the pruning, every card and file is in a column of the new row.
LEMMA PrunedView ==
  ASSUME made \in Columns, NEW n \in Nat, NEW row \in Seq(1..n), IsInjective(row), Len(row) >= 2,
         NEW cards, NEW places, FitsIn(cards, places, Columns),
         \A c \in Columns : Occupied(c, cards, places) => c \in Range(row),
         shown' = cards, place' = places,
         columns' = Pruned(row, n, cards, places), made' = Newest(columns'), made' <= MaxColumns
  PROVE  RowOK' /\ EndsEmpty' /\ FitsIn(cards, places, Range(columns'))
<1> DEFINE p == Pruned(row, n, cards, places)
<1>1. /\ p \in Seq(1..(n + 3)) /\ IsInjective(p) /\ Len(p) >= 3
      /\ \A c \in Columns : Occupied(c, cards, places) => c \in Range(p)
      /\ \A c \in Columns : c \in {p[1], p[Len(p)]} => ~Occupied(c, cards, places)
  BY PrunedRow
<1> HIDE DEF p
<1>2. p = columns'
  BY DEF p
<1>3. made \in Nat \ {0} /\ made >= 1 /\ n + 3 \in Nat
  BY FlowAssumption DEF Columns
<1>4. made' \in Nat /\ made' >= made /\ p \in Seq(1..made')
  BY <1>1, <1>2, <1>3, NewestOf
<1>5. made' \in Columns
  BY <1>3, <1>4, FlowAssumption DEF Columns
<1>6. RowOK'
  BY <1>1, <1>2, <1>4, <1>5 DEF RowOK
<1>7. Range(p) \subseteq Columns /\ p[1] \in Range(p) /\ p[Len(p)] \in Range(p)
  <2>1. Len(p) \in Nat /\ DOMAIN p = 1..Len(p)
    BY <1>1, LenProperties
  <2>2. Range(p) \subseteq 1..made' /\ made' <= MaxColumns
    BY <1>4, SeqIs
  <2>3. 1..made' \subseteq Columns
    BY <1>4, FlowAssumption DEF Columns
  <2>4. 1 \in DOMAIN p /\ Len(p) \in DOMAIN p
    BY <1>1, <2>1
  <2>5. p[1] \in Range(p) /\ p[Len(p)] \in Range(p)
    BY <2>4 DEF Range
  <2> QED
    BY <2>2, <2>3, <2>5
<1>8. EndsEmpty'
  <2>1. ASSUME NEW c \in {p[1], p[Len(p)]}
        PROVE  In(c, cards) = {} /\ {f \in Files : places[f] = c} = {}
    BY <1>1, <1>7 DEF Occupied
  <2> QED
    BY <1>1, <1>2, <2>1 DEF EndsEmpty, Members, FilesIn, In
<1>9. places \in [Files -> Range(p) \cup {None, Gone}]
  <2>1. ASSUME NEW f \in Files
        PROVE  places[f] \in Range(p) \cup {None, Gone}
    BY <1>1 DEF FitsIn, Occupied
  <2>2. places \in [Files -> Columns \cup {None, Gone}]
    BY DEF FitsIn
  <2> QED
    BY <2>1, <2>2
<1>10. ASSUME NEW o \in cards
       PROVE  (IF o.home \in Files THEN places[o.home] ELSE o.home) \in Range(p)
  <2>1. (IF o.home \in Files THEN places[o.home] ELSE o.home) \in Columns
    BY DEF FitsIn
  <2>2. CASE o.home \in Files
    <3>1. Occupied(places[o.home], cards, places)
      BY <2>2 DEF Occupied
    <3> QED
      BY <1>1, <2>1, <2>2, <3>1
  <2>3. CASE o.home \notin Files
    <3>1. Occupied(o.home, cards, places)
      BY DEF Occupied, In
    <3> QED
      BY <1>1, <2>1, <2>3, <3>1
  <2> QED
    BY <2>2, <2>3
<1>11. FitsIn(cards, places, Range(p))
  BY <1>9, <1>10 DEF FitsIn
<1> QED
  BY <1>2, <1>6, <1>8, <1>11

\* What a change of the view has to see to.
LEMMA StepView ==
  ASSUME View, NEW cards, NEW places, FitsIn(cards, places, Range(columns)),
         shown' = cards, place' = places, cluster' \in [Files -> Nat],
         hidden' \subseteq cards \cup {f \in Files : places[f] \in Columns},
         \/ Prune
         \/ /\ UNCHANGED <<columns, made>>
            /\ \A c \in Columns : Occupied(c, cards, places) => Occupied(c, shown, place)
  PROVE  View'
<1>1. RowOK /\ Range(columns) \subseteq Columns
  BY RowIs DEF View
<1>2. RowOK' /\ EndsEmpty' /\ FitsIn(cards, places, Range(columns'))
  <2>1. CASE Prune
    <3>1. FitsIn(cards, places, Columns)
      BY <1>1 DEF FitsIn
    <3>2. \A c \in Columns : Occupied(c, cards, places) => c \in Range(columns)
      BY OccupiedIn
    <3>3. made \in Nat /\ columns \in Seq(1..made) /\ IsInjective(columns) /\ Len(columns) >= 2
      BY <1>1, RowIs, FlowAssumption DEF RowOK, Columns
    <3>4. /\ columns' = Pruned(columns, made, cards, places)
          /\ made' = Newest(columns') /\ made' <= MaxColumns
      BY <2>1 DEF Prune
    <3> QED
      BY <1>1, <3>1, <3>2, <3>3, <3>4, PrunedView DEF RowOK
  <2>2. CASE /\ UNCHANGED <<columns, made>>
             /\ \A c \in Columns : Occupied(c, cards, places) => Occupied(c, shown, place)
    <3>1. RowOK'
      BY <1>1, <2>2 DEF RowOK
    <3>2. ASSUME NEW c \in {columns[1], columns[Len(columns)]}
          PROVE  In(c, cards) = {} /\ {f \in Files : places[f] = c} = {}
      <4>1. c \in Columns
        BY <1>1, RowIs DEF RowOK
      <4>2. ~Occupied(c, shown, place)
        BY DEF View, EndsEmpty, Occupied, Members, FilesIn
      <4> QED
        BY <2>2, <4>1, <4>2 DEF Occupied
    <3>3. EndsEmpty'
      BY <2>2, <3>2 DEF View, EndsEmpty, Members, FilesIn, In
    <3> QED
      BY <2>2, <3>1, <3>3
  <2> QED
    BY <2>1, <2>2
<1> QED
  BY <1>2 DEF View, Live

-----------------------------------------------------------------------------
(* The requests                                                            *)

\* What the callback of a removal remembers of a move.
MoveOK(m) == m # None => m.file \in Files /\ m.ids \subseteq Accounts

RequestOK(c, r) ==
  /\ r.op = "remove" => r.card \in Card /\ r.card.home = c /\ MoveOK(r.move)
  /\ r.op = "insert" => r.card \in Card /\ c \in Files
  /\ r.op = "fill" => c \in Files /\ r.ids \subseteq Accounts
  /\ r.op = "create" => r.file \in Files /\ r.ids \subseteq Accounts
  /\ r.op = "details" => MoveOK(r.move)
  /\ r.op = "delete" => r.file \in Files
  /\ Immediate(r) => r.file = c

\* Requests of each context.
AskedOK(asked) ==
  \A d \in Contexts : IsSeq(asked[d]) /\ \A r \in Range(asked[d]) : RequestOK(d, r)

QueueOK == AskedOK(queue)

\* Requests that wait for no others.
NowAsked(S) == IsFiniteSet(S) /\ \A r \in S : Immediate(r) /\ r.file \in Files /\ RequestOK(r.file, r)

NowOK == NowAsked(immediate)

\* An answer belongs to a request, and an account that was removed is not in it.
ReplyOK ==
  \A c \in Contexts : reply[c] # None =>
    /\ queue[c] # <<>>
    /\ Head(queue[c]).op = "remove" => Head(queue[c]).card.account \notin reply[c]

\* Request r will remove h.
Removes(r, h) ==
  IF h \in Files THEN r = Deleting(h) ELSE r.op \in {"remove", "insert"} /\ r.card = h

\* Requests of another kind remove nothing.
LEMMA RemovesNothing ==
  ASSUME NEW r, r.op \notin {"remove", "insert", "delete"}, NEW h
  PROVE  ~Removes(r, h)
  BY DEF Removes, Deleting

\* A single request.
LEMMA OneRequest ==
  ASSUME NEW r
  PROVE  IsSeq(<<r>>) /\ Range(<<r>>) = {r}
<1> DEFINE S == {r}
<1>1. <<r>> \in Seq(S)
  <2>1. r \in S
    OBVIOUS
  <2> HIDE DEF S
  <2> QED
    BY <2>1
<1>2. DOMAIN <<r>> = 1..1 /\ <<r>>[1] = r
  OBVIOUS
<1>3. 1..1 = {1}
  OBVIOUS
<1>4. IsSeq(<<r>>) /\ Range(<<r>>) \subseteq S
  <2> HIDE DEF S
  <2> QED
    BY <1>1, SeqIs
<1>5. r \in Range(<<r>>)
  <2> DEFINE s == <<r>>
  <2>1. 1 \in DOMAIN s /\ s[1] = r
    BY <1>2, <1>3
  <2> HIDE DEF s
  <2>2. r \in Range(s)
    BY <2>1 DEF Range
  <2> QED
    BY <2>2 DEF s
<1> QED
  BY <1>4, <1>5

\* No request.
LEMMA NoRequest == IsSeq(<<>>) /\ Range(<<>>) = {}
<1>1. <<>> \in Seq({})
  BY EmptySeq
<1>2. DOMAIN <<>> = {}
  OBVIOUS
<1>3. Range(<<>>) = {}
  BY <1>2, Zenon DEF Range
<1> QED
  BY <1>1, <1>3 DEF IsSeq

\* No request of any context.
LEMMA NothingIs == AskedOK(Nothing)
  BY NoRequest DEF AskedOK, Nothing

\* Requests of one context only.
LEMMA OnlyIs ==
  ASSUME NEW c, NEW s, IsSeq(s), \A r \in Range(s) : RequestOK(c, r)
  PROVE  /\ AskedOK(Only(c, s))
         /\ c \in Contexts => Only(c, s)[c] = s
<1>1. \A d \in Contexts : Only(c, s)[d] = IF d = c THEN s ELSE <<>>
  BY DEF Only, Nothing
<1> QED
  BY <1>1, NoRequest DEF AskedOK

\* One request, of one context.
LEMMA OnlyOne ==
  ASSUME NEW c, NEW r, RequestOK(c, r)
  PROVE  /\ AskedOK(Only(c, <<r>>))
         /\ c \in Contexts => r \in Range(Only(c, <<r>>)[c])
<1> DEFINE s == <<r>>
<1>1. IsSeq(s) /\ Range(s) = {r}
  BY OneRequest
<1> HIDE DEF s
<1>2. AskedOK(Only(c, s)) /\ (c \in Contexts => Only(c, s)[c] = s)
  BY <1>1, OnlyIs
<1> QED
  BY <1>1, <1>2 DEF s

\* Requests are added after those that there are.
LEMMA QueueLonger ==
  ASSUME QueueOK, ReplyOK, NEW asked, AskedOK(asked), reply' = reply,
         queue' = [c \in Contexts |-> queue[c] \o asked[c]]
  PROVE  /\ QueueOK' /\ ReplyOK'
         /\ \A d \in Contexts : Range(queue'[d]) = Range(queue[d]) \cup Range(asked[d])
<1>1. ASSUME NEW d \in Contexts
      PROVE  /\ IsSeq(queue'[d])
             /\ Range(queue'[d]) = Range(queue[d]) \cup Range(asked[d])
             /\ queue[d] # <<>> => queue'[d] # <<>> /\ Head(queue'[d]) = Head(queue[d])
  <2>1. queue'[d] = queue[d] \o asked[d]
    OBVIOUS
  <2>2. IsSeq(queue[d]) /\ IsSeq(asked[d])
    BY DEF QueueOK, AskedOK
  <2> QED
    BY <2>1, <2>2, ConcatIs
<1>2. QueueOK'
  BY <1>1 DEF QueueOK, AskedOK
<1>3. ReplyOK'
  BY <1>1 DEF ReplyOK
<1> QED
  BY <1>1, <1>2, <1>3

\* The first request of c is done, and its callback asked for more.
LEMMA QueueDone ==
  ASSUME QueueOK, ReplyOK, NEW c \in Contexts, reply[c] # None, NEW asked, AskedOK(asked),
         NEW r, ~Immediate(r), NEW now, Finished(c, r, asked, now),
         reply' = [reply EXCEPT ![c] = None], DOMAIN reply = Contexts
  PROVE  /\ QueueOK' /\ ReplyOK'
         /\ \A d \in Contexts :
              /\ Range(asked[d]) \subseteq Range(queue'[d])
              /\ \A q \in Range(queue[d]) :
                   q \in Range(queue'[d]) \/ (d = c /\ q = Head(queue[c]))
<1>1. ASSUME NEW d \in Contexts
      PROVE  /\ IsSeq(queue'[d])
             /\ Range(queue'[d]) \subseteq Range(queue[d]) \cup Range(asked[d])
             /\ Range(asked[d]) \subseteq Range(queue'[d])
             /\ \A q \in Range(queue[d]) :
                  q \in Range(queue'[d]) \/ (d = c /\ q = Head(queue[c]))
             /\ d # c /\ queue[d] # <<>> => queue'[d] # <<>> /\ Head(queue'[d]) = Head(queue[d])
  <2>1. IsSeq(queue[d]) /\ IsSeq(asked[d])
    BY DEF QueueOK, AskedOK
  <2>2. CASE d = c
    <3>1. queue'[d] = Tail(queue[d]) \o asked[d]
      BY <2>2 DEF Finished
    <3>2. queue[d] # <<>>
      BY <2>2 DEF ReplyOK
    <3>3. IsSeq(Tail(queue[d])) /\ Range(queue[d]) = {Head(queue[d])} \cup Range(Tail(queue[d]))
      BY <2>1, <3>2, TailIs
    <3>4. IsSeq(queue'[d]) /\ Range(queue'[d]) = Range(Tail(queue[d])) \cup Range(asked[d])
      BY <2>1, <3>1, <3>3, ConcatIs
    <3> QED
      BY <2>2, <3>3, <3>4
  <2>3. CASE d # c
    <3>1. queue'[d] = queue[d] \o asked[d]
      BY <2>3 DEF Finished
    <3> QED
      BY <2>1, <2>3, <3>1, ConcatIs
  <2> QED
    BY <2>2, <2>3
<1>2. QueueOK'
  BY <1>1 DEF QueueOK, AskedOK
<1>3. ReplyOK'
  <2> SUFFICES ASSUME NEW d \in Contexts, reply'[d] # None
               PROVE  /\ queue'[d] # <<>>
                      /\ Head(queue'[d]).op = "remove" =>
                           Head(queue'[d]).card.account \notin reply'[d]
    BY DEF ReplyOK
  <2>1. d # c /\ reply'[d] = reply[d]
    OBVIOUS
  <2>2. queue'[d] # <<>> /\ Head(queue'[d]) = Head(queue[d])
    BY <1>1, <2>1 DEF ReplyOK
  <2> QED
    BY <2>1, <2>2 DEF ReplyOK
<1> QED
  BY <1>1, <1>2, <1>3

\* An immediate request is done: the queues grow by what its callback asked for.
LEMMA QueueGrows ==
  ASSUME QueueOK, ReplyOK, NEW c, NEW r, Immediate(r), NEW asked, AskedOK(asked), NEW now,
         Finished(c, r, asked, now), reply' = reply
  PROVE  /\ QueueOK' /\ ReplyOK'
         /\ \A d \in Contexts : Range(queue'[d]) = Range(queue[d]) \cup Range(asked[d])
<1>1. queue' = [d \in Contexts |-> queue[d] \o asked[d]]
  BY DEF Finished
<1> QED
  BY <1>1, QueueLonger

\* A callback throws: the queues stay.
LEMMA QueueThrows ==
  ASSUME QueueOK, ReplyOK, NEW c, NEW r, Throws(c, r),
         reply' = reply \/ reply' = [reply EXCEPT ![c] = None], DOMAIN reply = Contexts
  PROVE  QueueOK' /\ ReplyOK' /\ queue' = queue
  BY DEF QueueOK, ReplyOK, AskedOK, Throws

\* What a function makes of finitely many things.
LEMMA FiniteImage ==
  ASSUME NEW S, IsFiniteSet(S), NEW g, DOMAIN g = S
  PROVE  IsFiniteSet({g[x] : x \in S})
<1> DEFINE T == {g[x] : x \in S}
<1>1. [x \in S |-> g[x]] \in Surjection(S, T)
  BY DEF Surjection
<1> HIDE DEF T
<1>2. IsFiniteSet(T)
  BY <1>1, FS_Surjection
<1> QED
  BY <1>2 DEF T

\* Columns and files are finitely many.
LEMMA FiniteContexts == IsFiniteSet(Contexts)
<1>1. IsFiniteSet(Columns)
  BY FS_Interval, FlowAssumption DEF Columns
<1> QED
  BY <1>1, FS_Union, FlowAssumption DEF Contexts

\* So are the cards and clusters that callbacks remember.
LEMMA FiniteHeld ==
  ASSUME QueueOK, NowOK
  PROVE  IsFiniteSet(HeldCards) /\ \A f \in Files : IsFiniteSet(HeldClusters(f))
<1>1. \A d \in Contexts : IsFiniteSet(Range(queue[d]))
  BY FiniteRange DEF QueueOK, AskedOK
<1>2. IsFiniteSet(Pending)
  <2> DEFINE g == [d \in Contexts |-> Range(queue[d])]
             S == {g[d] : d \in Contexts}
  <2>1. DOMAIN g = Contexts
    OBVIOUS
  <2> HIDE DEF g
  <2>2. IsFiniteSet(S)
    BY <2>1, FiniteContexts, FiniteImage
  <2>3. \A T \in S : IsFiniteSet(T)
    BY <1>1 DEF g
  <2>4. Pending = immediate \cup UNION S
    BY DEF Pending, g
  <2> HIDE DEF S
  <2>5. IsFiniteSet(UNION S) /\ IsFiniteSet(immediate)
    BY <2>2, <2>3, FS_UNION DEF NowOK, NowAsked
  <2> QED
    BY <2>4, <2>5, FS_Union
<1>3. IsFiniteSet(HeldCards)
  <2> DEFINE S == {q \in Pending : q.op \in {"branch", "remove", "insert", "details"}}
             g == [r \in S |-> r.card]
  <2>1. IsFiniteSet(S)
    <3>1. S \subseteq Pending
      OBVIOUS
    <3> HIDE DEF S
    <3> QED
      BY <1>2, <3>1, FS_Subset
  <2>2. DOMAIN g = S /\ HeldCards = {g[x] : x \in S}
    BY DEF HeldCards
  <2> HIDE DEF g, S
  <2> QED
    BY <2>1, <2>2, FiniteImage
<1>4. ASSUME NEW f \in Files
      PROVE  IsFiniteSet(HeldClusters(f))
  <2> DEFINE S == {q \in immediate : q.op = "expand" /\ q.file = f}
             g == [r \in S |-> r.nr]
  <2>1. IsFiniteSet(S)
    <3>1. S \subseteq immediate /\ IsFiniteSet(immediate)
      BY DEF NowOK, NowAsked
    <3> HIDE DEF S
    <3> QED
      BY <3>1, FS_Subset
  <2>2. DOMAIN g = S /\ HeldClusters(f) = {g[x] : x \in S}
    BY DEF HeldClusters
  <2> HIDE DEF g, S
  <2> QED
    BY <2>1, <2>2, FiniteImage
<1> QED
  BY <1>3, <1>4

\* New cards, one for each account, are none that a callback remembers.
LEMMA NewCardsAre ==
  ASSUME QueueOK, NowOK, NEW c \in Contexts, NEW ids \in SUBSET Accounts
  PROVE  /\ NewCards(c, ids) \subseteq Card /\ One(NewCards(c, ids))
         /\ \A o \in NewCards(c, ids) : o.home = c /\ o.account \in ids /\ o \notin HeldCards
<1>1. ASSUME NEW a \in ids
      PROVE  /\ NewCard(c, a) \in Card /\ NewCard(c, a) \notin HeldCards
             /\ NewCard(c, a).home = c /\ NewCard(c, a).account = a
  <2> DEFINE S == {h \in HeldCards : h.home = c /\ h.account = a}
             g == [o \in S |-> o.nr]
             T == {g[o] : o \in S}
             n == Fresh(T)
  <2>1. IsFiniteSet(S)
    <3>1. S \subseteq HeldCards
      OBVIOUS
    <3> HIDE DEF S
    <3> QED
      BY <3>1, FiniteHeld, FS_Subset
  <2>2. DOMAIN g = S
    OBVIOUS
  <2>3. IsFiniteSet(T)
    <3> HIDE DEF S, g
    <3> QED
      BY <2>1, <2>2, FiniteImage
  <2>4. n \in Nat /\ n \notin T
    <3> HIDE DEF T
    <3> QED
      BY <2>3, FreshIs
  <2>5. NewCard(c, a) = [home |-> c, account |-> a, nr |-> n]
    BY DEF NewCard
  <2>6. \A o \in S : o.nr # n
    BY <2>4
  <2>7. NewCard(c, a) \notin HeldCards
    <3> HIDE DEF n
    <3> QED
      BY <2>5, <2>6
  <2> HIDE DEF n
  <2> QED
    BY <2>4, <2>5, <2>7 DEF Card
<1> QED
  BY <1>1 DEF NewCards, One

\* Links are asked for between contexts of the view, which are finitely many.
LEMMA LinksAre ==
  ASSUME shown' \subseteq Card, NEW objects, NEW c
  PROVE  AskedOK(LinksAsked(objects, c))
<1> DEFINE row == columns'
           at == CHOOSE i \in DOMAIN row : row[i] = c
           next(right) == row[IF right THEN at + 1 ELSE at - 1]
           CardsAt(d) == {o \in shown' : o.home = d \/ (o.home \in Files /\ place'[o.home] = d)}
           homes(d) == {o.home : o \in CardsAt(d)}
           found(s, right, t) == \E o \in In(s, objects), p \in In(t, CardsAt(next(right))) :
                                   p.account \in Neighbours(o.account, right)
           links(s, right) ==
             {Linking(c, next(right), t, found(s, right, t)) : t \in homes(next(right))}
<1>1. ASSUME NEW s, NEW right
      PROVE  /\ IsSeq(SetToSeq(links(s, right)))
             /\ \A r \in Range(SetToSeq(links(s, right))) : r.op = "links"
  <2> DEFINE S == homes(next(right))
             g == [t \in S |-> Linking(c, next(right), t, found(s, right, t))]
  <2>1. S \subseteq Contexts
    BY DEF Card
  <2>2. IsFiniteSet(S)
    <3> HIDE DEF S
    <3> QED
      BY <2>1, FiniteContexts, FS_Subset
  <2>3. links(s, right) = {g[t] : t \in S} /\ DOMAIN g = S
    OBVIOUS
  <2>4. \A t \in S : g[t].op = "links"
    BY DEF Linking
  <2> DEFINE L == links(s, right)
  <2>5. IsFiniteSet(L) /\ \A r \in L : r.op = "links"
    <3>1. L = {g[t] : t \in S}
      BY <2>3
    <3> HIDE DEF L, g, S
    <3> QED
      BY <2>2, <2>3, <2>4, <3>1, FiniteImage
  <2>6. IsSeq(SetToSeq(L)) /\ Range(SetToSeq(L)) = L
    <3> HIDE DEF L
    <3> QED
      BY <2>5, Listed
  <2> QED
    BY <2>5, <2>6
<1>2. ASSUME NEW s \in Contexts
      PROVE  LinksAsked(objects, c)[s] =
               IF In(s, objects) = {} THEN <<>>
               ELSE SetToSeq(links(s, TRUE)) \o SetToSeq(links(s, FALSE))
  BY DEF LinksAsked
<1> HIDE DEF links
<1>3. ASSUME NEW s \in Contexts
      PROVE  /\ IsSeq(LinksAsked(objects, c)[s])
             /\ \A r \in Range(LinksAsked(objects, c)[s]) : r.op = "links"
  <2>1. CASE In(s, objects) = {}
    BY <2>1, <1>2, NoRequest
  <2>2. CASE In(s, objects) # {}
    <3> DEFINE u == SetToSeq(links(s, TRUE))
               v == SetToSeq(links(s, FALSE))
    <3>1. /\ IsSeq(u) /\ IsSeq(v)
          /\ \A r \in Range(u) : r.op = "links"
          /\ \A r \in Range(v) : r.op = "links"
      BY <1>1
    <3>2. LinksAsked(objects, c)[s] = u \o v
      BY <1>2, <2>2
    <3> HIDE DEF u, v
    <3>3. IsSeq(u \o v) /\ Range(u \o v) = Range(u) \cup Range(v)
      BY <3>1, ConcatIs
    <3> QED
      BY <3>1, <3>2, <3>3
  <2> QED
    BY <2>1, <2>2
<1>4. \A s, r : r.op = "links" => RequestOK(s, r)
  BY DEF RequestOK, Immediate
<1> QED
  BY <1>3, <1>4 DEF AskedOK

-----------------------------------------------------------------------------
(* The invariant                                                           *)

FlowInv ==
  /\ patient \in BOOLEAN /\ acts \in 0..MaxActs
  /\ server \in [Contexts -> SUBSET Accounts]
  /\ reply \in [Contexts -> (SUBSET Accounts) \cup {None}]
  /\ stuck \subseteq Contexts
  /\ View /\ QueueOK /\ NowOK /\ ReplyOK /\ HiddenPending

\* A restored workspace.
LEMMA InitFlow == Init => FlowInv
<1> SUFFICES ASSUME Init
             PROVE  FlowInv
  OBVIOUS
<1>1. PICK old \in {{}, {CHOOSE f \in Files : TRUE}} :
        LET at == [c \in Contexts |-> IF c \in 2..(made - 1) THEN Restored[patient][c - 1]
                                      ELSE IF c \in old THEN Filed ELSE {}]
        IN /\ place = [f \in Files |-> IF f \in old THEN 2 ELSE None]
           /\ cluster = [f \in Files |-> IF f \in old THEN 1 ELSE 0]
           /\ shown = {o \in [home : 2..(made - 1) \cup old, account : Accounts, nr : {1}] :
                         o.account \in at[o.home]}
           /\ server = at
  BY DEF Init
<1>2. old \subseteq Files
  BY FlowAssumption
<1>3. /\ Restored[patient] \in Seq(SUBSET Accounts) /\ Len(Restored[patient]) \in Nat \ {0}
      /\ made = Len(Restored[patient]) + 2 /\ made <= MaxColumns
  <2>1. patient \in BOOLEAN /\ made = Len(Restored[patient]) + 2
    BY DEF Init
  <2>2. Restored[patient] \in Seq(SUBSET Accounts) /\ Restored[patient] # <<>>
    BY <2>1, FlowAssumption
  <2> DEFINE S == SUBSET Accounts
             q == Restored[patient]
  <2>3. q \in Seq(S) /\ q # <<>>
    BY <2>2
  <2> HIDE DEF S, q
  <2>4. Len(q) \in Nat \ {0}
    BY <2>3, EmptySeq, LenProperties
  <2> QED
    BY <2>1, <2>2, <2>4, FlowAssumption DEF q
<1>4. /\ made \in Nat /\ made >= 3 /\ 1..made \subseteq Columns
      /\ \A f \in Files : f \notin 1..made
      /\ None \notin 1..made
  <2>1. made \in Nat /\ made >= 3 /\ 1..made \subseteq Columns
    BY <1>3, FlowAssumption DEF Columns
  <2> QED
    BY <2>1, FlowAssumption DEF Contexts
<1>5. /\ columns = [i \in 1..made |-> i] /\ columns \in Seq(1..made) /\ Len(columns) = made
      /\ Range(columns) = 1..made /\ IsInjective(columns)
  <2>1. columns = [i \in 1..made |-> i]
    BY DEF Init
  <2>2. columns \in Seq(1..made) /\ Len(columns) = made
    BY <1>4, <2>1
  <2> QED
    BY <1>4, <2>1, <2>2 DEF Range, IsInjective
<1>6. RowOK
  BY <1>3, <1>4, <1>5 DEF RowOK, Columns
<1>7. \A o \in shown : o \in Card /\ (o.home \in 2..(made - 1) \/ o.home \in old) /\ o.nr = 1
  BY <1>1, <1>2, <1>4 DEF Card, Contexts
<1>8. FitsIn(shown, place, Range(columns))
  <2>1. One(shown)
    BY <1>1 DEF One
  <2>2. place \in [Files -> Range(columns) \cup {None, Gone}]
    <3>1. 2 \in Range(columns)
      BY <1>4, <1>5
    <3>2. place = [f \in Files |-> IF f \in old THEN 2 ELSE None]
      BY <1>1
    <3> QED
      BY <3>1, <3>2
  <2>3. \A o \in shown : (IF o.home \in Files THEN place[o.home] ELSE o.home) \in Range(columns)
    BY <1>1, <1>2, <1>4, <1>5, <1>7
  <2> QED
    BY <1>7, <2>1, <2>2, <2>3 DEF FitsIn
<1>9. EndsEmpty
  <2>1. \A c \in {1, made} : Members(c) = {} /\ FilesIn(c) = {}
    BY <1>1, <1>2, <1>4, <1>7 DEF Members, In, FilesIn
  <2>2. columns[1] = 1 /\ columns[Len(columns)] = made /\ Len(columns) >= 3
    BY <1>4, <1>5
  <2> QED
    BY <2>1, <2>2 DEF EndsEmpty
<1>10. View
  BY <1>1, <1>6, <1>8, <1>9 DEF View, Init
<1>11. server \in [Contexts -> SUBSET Accounts]
  <2>1. \A c \in 2..(made - 1) : Restored[patient][c - 1] \in SUBSET Accounts
    <3> DEFINE S == SUBSET Accounts
               q == Restored[patient]
    <3>1. q \in Seq(S) /\ Len(q) \in Nat /\ made = Len(q) + 2
      BY <1>3
    <3> HIDE DEF S, q
    <3>2. \A c \in 2..(made - 1) : c - 1 \in 1..Len(q)
      BY <3>1
    <3>3. \A c \in 2..(made - 1) : q[c - 1] \in S
      BY <3>1, <3>2, ElementOfSeq
    <3> QED
      BY <3>3 DEF S, q
  <2> QED
    BY <1>1, <2>1, FlowAssumption
<1>12. reply \in [Contexts -> (SUBSET Accounts) \cup {None}] /\ \A c \in Contexts : reply[c] = None
  <2> DEFINE S == SUBSET Accounts
  <2>1. reply = [c \in Contexts |-> None]
    BY DEF Init
  <2> HIDE DEF S
  <2>2. reply \in [Contexts -> S \cup {None}]
    BY <2>1
  <2> QED
    BY <2>1, <2>2 DEF S
<1>13. QueueOK /\ NowOK
  BY NothingIs, FS_EmptySet DEF QueueOK, NowOK, NowAsked, Init
<1> QED
  BY <1>10, <1>11, <1>12, <1>13, FlowAssumption DEF FlowInv, ReplyOK, HiddenPending, Init

\* The user's requests keep the queues, and tell the removal of what they hide.
LEMMA UserStep ==
  ASSUME FlowInv, NEW asked, AskedOK(asked), Adding(asked), UNCHANGED reply,
         \A h \in hidden' \ hidden : \E d \in Contexts : \E r \in Range(asked[d]) : Removes(r, h)
  PROVE  QueueOK' /\ NowOK' /\ ReplyOK' /\ HiddenPending'
<1>1. /\ QueueOK' /\ ReplyOK'
      /\ \A d \in Contexts : Range(queue'[d]) = Range(queue[d]) \cup Range(asked[d])
  BY QueueLonger DEF FlowInv, Adding
<1>2. NowOK' /\ immediate' = immediate
  BY DEF Adding, NowOK, FlowInv
<1>3. ASSUME NEW h \in hidden'
      PROVE  \E r \in Pending' : Removes(r, h)
  <2>1. CASE h \in hidden
    <3>1. PICK r \in Pending : Removes(r, h)
      BY <2>1 DEF FlowInv, HiddenPending, Removes
    <3> QED
      BY <1>1, <1>2, <3>1 DEF Pending
  <2>2. CASE h \notin hidden
    <3>1. PICK d \in Contexts : \E r \in Range(asked[d]) : Removes(r, h)
      BY <2>2
    <3> QED
      BY <1>1, <1>2, <3>1 DEF Pending
  <2> QED
    BY <2>1, <2>2
<1> QED
  BY <1>1, <1>3, <1>2 DEF HiddenPending, Removes

\* How the answer to request r of c ends: its callback throws, or it asks for more.
Ends(c, r) ==
  \/ Throws(c, r)
  \/ \E asked, now : /\ AskedOK(asked) /\ NowAsked(now)
                     /\ Finished(c, r, asked, now) /\ UNCHANGED stuck

\* What such an answer does: what the request was to remove is gone or is asked for again.
Answered(c, r) ==
  /\ View' /\ hidden' \subseteq hidden
  /\ \/ Throws(c, r)
     \/ \E asked, now :
          /\ AskedOK(asked) /\ NowAsked(now) /\ Finished(c, r, asked, now) /\ UNCHANGED stuck
          /\ \A h \in hidden' : Removes(r, h) =>
               \E d \in Contexts : \E q \in Range(asked[d]) : Removes(q, h)

\* Request r of c is answered: the first one in the queue, or an immediate one.
AnswerTo(c, r) ==
  /\ c \in Contexts
  /\ \/ /\ ~Immediate(r) /\ reply[c] # None /\ r = Head(queue[c])
        /\ reply' = [reply EXCEPT ![c] = None]
     \/ Immediate(r) /\ UNCHANGED reply

\* Such an answer keeps the requests, and what is hidden is waited for.
LEMMA AnswerStep ==
  ASSUME FlowInv, NEW c, NEW r, AnswerTo(c, r), Answered(c, r)
  PROVE  QueueOK' /\ NowOK' /\ ReplyOK' /\ HiddenPending' /\ stuck' \subseteq Contexts
<1>0. /\ DOMAIN reply = Contexts /\ c \in Contexts /\ QueueOK /\ ReplyOK
      /\ IsFiniteSet(immediate) /\ stuck \subseteq Contexts
      /\ \A q \in immediate : Immediate(q) /\ q.file \in Files /\ RequestOK(q.file, q)
  BY DEF FlowInv, AnswerTo, NowOK, NowAsked
<1>1. CASE Throws(c, r)
  <2>1. QueueOK' /\ ReplyOK' /\ queue' = queue
    BY <1>0, <1>1, QueueThrows DEF AnswerTo
  <2>2. immediate' = immediate \ {r} /\ stuck' \subseteq Contexts
    BY <1>0, <1>1 DEF Throws
  <2>3. NowOK'
    BY <1>0, <2>2, FS_Subset DEF NowOK, NowAsked
  <2>4. ASSUME NEW h \in hidden'
        PROVE  \E q \in Pending' : Removes(q, h)
    <3>1. PICK q \in Pending : Removes(q, h)
      BY DEF FlowInv, HiddenPending, Removes, Answered
    <3>2. q \notin immediate
      BY <1>0, <3>1, RemovesNothing DEF Immediate
    <3> QED
      BY <2>1, <3>1, <3>2 DEF Pending
  <2> QED
    BY <2>1, <2>2, <2>3, <2>4 DEF HiddenPending, Removes
<1>2. ASSUME NEW asked, NEW now, AskedOK(asked), NowAsked(now),
             Finished(c, r, asked, now), UNCHANGED stuck,
             \A h \in hidden' : Removes(r, h) =>
               \E d \in Contexts : \E q \in Range(asked[d]) : Removes(q, h)
      PROVE  QueueOK' /\ NowOK' /\ ReplyOK' /\ HiddenPending' /\ stuck' \subseteq Contexts
  <2>1. /\ QueueOK' /\ ReplyOK'
        /\ \A d \in Contexts :
             /\ Range(asked[d]) \subseteq Range(queue'[d])
             /\ \A q \in Range(queue[d]) : q \in Range(queue'[d]) \/ q = r
    <3>1. CASE Immediate(r)
      <4>1. /\ QueueOK' /\ ReplyOK'
            /\ \A d \in Contexts : Range(queue'[d]) = Range(queue[d]) \cup Range(asked[d])
        BY <1>0, <1>2, <3>1, QueueGrows DEF AnswerTo
      <4> QED
        BY <4>1
    <3>2. CASE ~Immediate(r)
      <4>1. reply[c] # None /\ r = Head(queue[c]) /\ reply' = [reply EXCEPT ![c] = None]
        BY <3>2 DEF AnswerTo
      <4>2. /\ QueueOK' /\ ReplyOK'
            /\ \A d \in Contexts :
                 /\ Range(asked[d]) \subseteq Range(queue'[d])
                 /\ \A q \in Range(queue[d]) :
                      q \in Range(queue'[d]) \/ (d = c /\ q = Head(queue[c]))
        BY <1>0, <1>2, <3>2, <4>1, QueueDone
      <4> QED
        BY <4>1, <4>2
    <3> QED
      BY <3>1, <3>2
  <2>2. immediate' = (immediate \ {r}) \cup now
    BY <1>2 DEF Finished
  <2>3. NowOK'
    <3>1. IsFiniteSet(immediate \ {r}) /\ IsFiniteSet(now)
      BY <1>0, <1>2, FS_Subset DEF NowAsked
    <3>2. IsFiniteSet(immediate')
      BY <2>2, <3>1, FS_Union
    <3> QED
      BY <1>0, <1>2, <2>2, <3>2 DEF NowOK, NowAsked
  <2>4. ASSUME NEW h \in hidden'
        PROVE  \E q \in Pending' : Removes(q, h)
    <3>1. PICK q \in Pending : Removes(q, h)
      BY DEF FlowInv, HiddenPending, Removes, Answered
    <3>2. q \notin immediate
      BY <1>0, <3>1, RemovesNothing DEF Immediate
    <3>3. PICK d \in Contexts : q \in Range(queue[d])
      BY <3>1, <3>2 DEF Pending
    <3>4. CASE q = r
      <4>1. PICK e \in Contexts : \E p \in Range(asked[e]) : Removes(p, h)
        BY <1>2, <3>1, <3>4
      <4> QED
        BY <2>1, <4>1 DEF Pending
    <3>5. CASE q # r
      BY <2>1, <3>1, <3>3, <3>5 DEF Pending
    <3> QED
      BY <3>4, <3>5
  <2> QED
    BY <1>0, <1>2, <2>1, <2>3, <2>4 DEF HiddenPending, Removes
<1> QED
  BY <1>1, <1>2 DEF Answered

-----------------------------------------------------------------------------
(* The callbacks                                                           *)

\* What a handler knows of the request r it answers.
Answering(c, r, ids) ==
  /\ c \in Contexts /\ r \in Pending /\ RequestOK(c, r)
  /\ ids \subseteq Accounts
  /\ r.op = "remove" => r.card.account \notin ids

\* What arrives after a removal is new, and the rest is where it was.
Continued(c, r, cards) ==
  /\ place' = place /\ cluster' \in [Files -> Nat]
  /\ FitsIn(shown', place, Range(columns))
  /\ \A d \in Columns : Occupied(d, shown', place) => Occupied(d, cards, place)
  /\ \A o \in shown' : o \in cards \/ o \notin HeldCards
  /\ hidden' \subseteq hidden
  /\ hidden' \subseteq shown' \cup {f \in Files : place[f] \in Columns}
  /\ Ends(c, r)

\* What Show changes.
LEMMA ShowIs ==
  ASSUME NEW cards, NEW places, NEW clusters, Show(cards, places, clusters)
  PROVE  /\ shown' = cards /\ place' = places /\ cluster' = clusters
         /\ hidden' \subseteq hidden
         /\ hidden' \subseteq cards \cup {f \in Files : places[f] \in Columns}
  BY DEF Show

\* A file in the workspace is in a column of the row.
LEMMA LiveFile ==
  ASSUME FlowInv, NEW f \in Files, Live(f)
  PROVE  /\ f \in Contexts /\ f \notin Columns /\ place[f] \in Range(columns)
         /\ \A cards : Occupied(place[f], cards, place)
<1>1. f \in Contexts /\ f \notin Columns
  BY FlowAssumption DEF Contexts
<1>2. place[f] \in Range(columns) \cup {None, Gone} /\ place[f] \in Columns
  BY DEF FlowInv, View, FitsIn, Live
<1>3. None \notin Columns /\ Gone \notin Columns
  BY FlowAssumption DEF Contexts
<1> QED
  BY <1>1, <1>2, <1>3 DEF Occupied

\* A callback asks for requests, for one that waits for no others, or throws.
LEMMA DoneEnds ==
  ASSUME NEW c, NEW r, NEW asked, AskedOK(asked), Throws(c, r) \/ Done(c, r, asked)
  PROVE  Ends(c, r)
<1>1. NowAsked({})
  BY FS_EmptySet DEF NowAsked
<1> QED
  BY <1>1 DEF Ends, Done

LEMMA SendsEnds ==
  ASSUME NEW c, NEW r, NEW q, Immediate(q), q.file \in Files, RequestOK(q.file, q),
         Sends(c, r, q)
  PROVE  Ends(c, r)
<1>1. NowAsked({q})
  BY FS_Singleton DEF NowAsked
<1>2. Finished(c, r, Nothing, {q}) /\ UNCHANGED stuck
  BY DEF Sends
<1> QED
  BY <1>1, <1>2, NothingIs DEF Ends

\* A file gets a new cluster: its old cards are replaced by new ones.
LEMMA InstallDoes ==
  ASSUME FlowInv, NEW c, NEW r, NEW f \in Files, Live(f), NEW ids \in SUBSET Accounts,
         NEW cards, FitsIn(cards, place, Range(columns)),
         NEW clusters \in [Files -> Nat], Install(c, r, f, ids, cards, clusters)
  PROVE  Continued(c, r, cards)
<1> DEFINE new == NewCards(f, ids)
           all == (cards \ In(f, cards)) \cup new
           q == Expanding(f, cluster'[f])
<1>1. /\ shown' = all /\ place' = place
      /\ cluster' = [clusters EXCEPT ![f] = Fresh(HeldClusters(f))]
      /\ hidden' \subseteq hidden
      /\ hidden' \subseteq all \cup {g \in Files : place[g] \in Columns}
      /\ Sends(c, r, q)
  BY DEF Install, Show
<1>2. /\ f \in Contexts /\ f \notin Columns /\ place[f] \in Range(columns)
      /\ Occupied(place[f], cards, place)
  BY LiveFile
<1>3. /\ new \subseteq Card /\ One(new)
      /\ \A o \in new : o.home = f /\ o.account \in ids /\ o \notin HeldCards
  BY <1>2, NewCardsAre DEF FlowInv
<1>4. cluster' \in [Files -> Nat]
  <2>1. Fresh(HeldClusters(f)) \in Nat
    BY FiniteHeld, FreshIs DEF FlowInv
  <2> QED
    BY <1>1, <2>1
<1> HIDE DEF new
<1>5. FitsIn(all, place, Range(columns))
  <2>1. all \subseteq Card
    BY <1>3 DEF FitsIn
  <2>2. One(all)
    BY <1>3 DEF FitsIn, One, In
  <2>3. \A o \in all : (IF o.home \in Files THEN place[o.home] ELSE o.home) \in Range(columns)
    BY <1>2, <1>3 DEF FitsIn
  <2> QED
    BY <2>1, <2>2, <2>3 DEF FitsIn
<1>6. \A d \in Columns : Occupied(d, all, place) => Occupied(d, cards, place)
  BY <1>2, <1>3 DEF Occupied, In
<1>7. Immediate(q) /\ q.file \in Files /\ RequestOK(q.file, q)
  BY DEF RequestOK, Expanding, Immediate
<1> HIDE DEF q
<1>8. Ends(c, r)
  BY <1>1, <1>7, SendsEnds
<1> QED
  BY <1>1, <1>3, <1>4, <1>5, <1>6, <1>8 DEF Continued

\* Nothing arrives.
LEMMA ShowsOnly ==
  ASSUME NEW c, NEW r, NEW cards, FitsIn(cards, place, Range(columns)),
         NEW clusters \in [Files -> Nat], Show(cards, place, clusters),
         Throws(c, r) \/ Done(c, r, Nothing)
  PROVE  Continued(c, r, cards)
  BY ShowIs, NothingIs, DoneEnds DEF Continued

\* What was moved arrives in its file, or the file is gone.
LEMMA ArriveDoes ==
  ASSUME FlowInv, NEW c, NEW r, NEW move, MoveOK(move), move # None,
         NEW cards, FitsIn(cards, place, Range(columns)),
         NEW clusters \in [Files -> Nat], Arrive(c, r, move, cards, clusters)
  PROVE  Continued(c, r, cards)
<1>1. move.file \in Files /\ move.ids \subseteq Accounts
  BY DEF MoveOK
<1>2. CASE Live(move.file)
  BY <1>1, <1>2, InstallDoes DEF Arrive
<1>3. CASE ~Live(move.file)
  BY <1>3, ShowsOnly DEF Arrive
<1> QED
  BY <1>2, <1>3

\* Either way follows a removal.
LEMMA ContinueDoes ==
  ASSUME FlowInv, NEW c, NEW r, MoveOK(r.move),
         NEW cards, FitsIn(cards, place, Range(columns)),
         NEW clusters \in [Files -> Nat], Continue(c, r, cards, clusters)
  PROVE  Continued(c, r, cards)
<1>1. CASE r.move = None /\ Show(cards, place, clusters) /\ Done(c, r, Nothing)
  BY <1>1, ShowsOnly
<1>2. CASE r.move # None /\ Arrive(c, r, r.move, cards, clusters)
  BY <1>2, ArriveDoes
<1> QED
  BY <1>1, <1>2 DEF Continue

\* Nothing that is still hidden waited for this request.
LEMMA EndsAnswered ==
  ASSUME NEW c, NEW r, View', hidden' \subseteq hidden, Ends(c, r),
         \A h \in hidden' : ~Removes(r, h)
  PROVE  Answered(c, r)
  BY DEF Ends, Answered

\* What is left in the columns, or in the row that was pruned, is a view again.
LEMMA ContinuedView ==
  ASSUME FlowInv, NEW c, NEW r, NEW cards, Continued(c, r, cards),
         \/ Prune
         \/ Unpruned /\ \A d \in Columns : Occupied(d, cards, place) => Occupied(d, shown, place)
  PROVE  View'
<1> DEFINE all == shown'
<1>1. /\ FitsIn(all, place, Range(columns)) /\ place' = place /\ cluster' \in [Files -> Nat]
      /\ hidden' \subseteq all \cup {f \in Files : place[f] \in Columns}
      /\ \/ Prune
         \/ /\ UNCHANGED <<columns, made>>
            /\ \A d \in Columns : Occupied(d, all, place) => Occupied(d, shown, place)
  BY DEF Continued, Unpruned
<1>2. View /\ shown' = all
  BY DEF FlowInv
<1> HIDE DEF all
<1> QED
  BY <1>1, <1>2, StepView

\* Nothing of the view changes.
LEMMA ViewStays ==
  ASSUME View, UNCHANGED viewVars
  PROVE  View' /\ hidden' = hidden
  BY DEF View, RowOK, EndsEmpty, Members, FilesIn, In, FitsIn, One, Live, viewVars

\* A card has a column on each side.
LEMMA NextToIs ==
  ASSUME View, NEW o \in shown, NEW right
  PROVE  NextTo(ColumnOf(o.home), right) \in Range(columns)
<1> DEFINE c == ColumnOf(o.home)
           i == Index(c)
<1>1. /\ Len(columns) \in Nat /\ DOMAIN columns = 1..Len(columns)
      /\ Range(columns) \subseteq Columns
      /\ \A k \in 1..Len(columns) : columns[k] \in Range(columns)
  BY RowIs DEF View
<1>2. c \in Range(columns)
  BY DEF View, FitsIn, ColumnOf
<1>3. Members(c) # {} \/ FilesIn(c) # {}
  BY DEF Members, In, FilesIn, ColumnOf
<1>4. c \notin {columns[1], columns[Len(columns)]}
  BY <1>3 DEF View, EndsEmpty
<1> HIDE DEF c
<1>5. \E k \in DOMAIN columns : columns[k] = c
  BY <1>2 DEF Range
<1>6. i \in DOMAIN columns /\ columns[i] = c
  BY <1>5 DEF Index
<1> HIDE DEF i
<1>7. i \in 1..Len(columns) /\ i # 1 /\ i # Len(columns)
  BY <1>1, <1>4, <1>6
<1>8. i + 1 \in 1..Len(columns) /\ i - 1 \in 1..Len(columns)
  <2>1. \A n \in Nat : \A k \in 1..n : k # 1 /\ k # n => k + 1 \in 1..n /\ k - 1 \in 1..n
    OBVIOUS
  <2> QED
    BY <1>1, <1>7, <2>1
<1> QED
  BY <1>1, <1>8 DEF NextTo, c, i

\* The answer to a branch fills the column next to the card, with one card an account.
LEMMA BranchAnswered ==
  ASSUME FlowInv, NEW c, NEW r, NEW ids, Answering(c, r, ids), r.op = "branch",
         BranchDone(c, r, ids)
  PROVE  Answered(c, r)
<1> DEFINE t == NextTo(ColumnOf(r.card.home), r.right)
           filed == {o \in shown : o.home \in FilesIn(t) /\ o.account \in ids}
           new == NewCards(t, ids \ AccountsOf(filed))
           all == (shown \ Members(t)) \cup new
<1>0. ids \subseteq Accounts /\ \A h : ~Removes(r, h)
  BY RemovesNothing DEF Answering
<1>1. CASE Done(c, r, Nothing) /\ UNCHANGED viewVars
  <2>1. View' /\ hidden' = hidden
    BY <1>1, ViewStays DEF FlowInv
  <2> QED
    BY <1>0, <1>1, <2>1, NothingIs, DoneEnds, EndsAnswered
<1>2. CASE /\ r.card \in shown
           /\ Show(all, place, cluster) /\ Prune
           /\ Done(c, r, LinksAsked(new \cup filed, t))
  <2>1. t \in Range(columns) /\ t \in Columns /\ t \in Contexts /\ t \notin Files
    <3>1. t \in Range(columns)
      BY <1>2, NextToIs DEF FlowInv
    <3>2. Range(columns) \subseteq Columns
      BY RowIs DEF FlowInv, View
    <3> HIDE DEF t
    <3> QED
      BY <3>1, <3>2, FlowAssumption DEF Contexts
  <2>2. /\ new \subseteq Card /\ One(new)
        /\ \A o \in new : o.home = t
    <3> DEFINE some == ids \ AccountsOf(filed)
    <3>1. some \in SUBSET Accounts /\ new = NewCards(t, some)
      BY <1>0
    <3> HIDE DEF some, new, t
    <3>2. /\ NewCards(t, some) \subseteq Card /\ One(NewCards(t, some))
          /\ \A o \in NewCards(t, some) : o.home = t
      BY <2>1, <3>1, NewCardsAre DEF FlowInv
    <3> QED
      BY <3>1, <3>2
  <2>3. /\ shown' = all /\ place' = place /\ cluster' = cluster /\ hidden' \subseteq hidden
        /\ hidden' \subseteq all \cup {f \in Files : place[f] \in Columns}
    BY <1>2, ShowIs
  <2> HIDE DEF new, t
  <2>4. FitsIn(all, place, Range(columns))
    <3>1. FitsIn(shown, place, Range(columns))
      BY DEF FlowInv, View
    <3>2. One(all)
      BY <2>2, <3>1 DEF FitsIn, One, Members, In
    <3>3. \A o \in all : (IF o.home \in Files THEN place[o.home] ELSE o.home) \in Range(columns)
      BY <2>1, <2>2, <3>1 DEF FitsIn
    <3> QED
      BY <2>2, <3>1, <3>2, <3>3 DEF FitsIn
  <2>5. View'
    <3>1. cluster' \in [Files -> Nat] /\ View
      BY <2>3 DEF FlowInv, View
    <3> HIDE DEF all
    <3> QED
      BY <1>2, <2>3, <2>4, <3>1, StepView
  <2>6. AskedOK(LinksAsked(new \cup filed, t))
    <3>1. shown' \subseteq Card
      BY <2>5 DEF View, FitsIn
    <3> QED
      BY <3>1, LinksAre
  <2> QED
    BY <1>0, <1>2, <2>3, <2>5, <2>6, DoneEnds, EndsAnswered
<1> QED
  BY <1>1, <1>2 DEF BranchDone

\* The card is gone from its column, or from its file with all that the server no
\* longer has there.
LEMMA RemoveAnswered ==
  ASSUME FlowInv, NEW c, NEW r, NEW ids, Answering(c, r, ids), r.op = "remove",
         RemoveDone(c, r, ids)
  PROVE  Answered(c, r)
<1> DEFINE kept == {o \in Members(c) : o.account \in ids}
           new == NewCards(c, ids \ AccountsOf(kept))
           all == (shown \ Members(c)) \cup kept \cup new
<1>0. /\ c \in Contexts /\ ids \subseteq Accounts
      /\ r.card \in Card /\ r.card.home = c /\ MoveOK(r.move) /\ r.card.account \notin ids
      /\ r.card \in HeldCards /\ r.card \notin Files
  <2>1. r.card \in HeldCards
    BY DEF Answering, HeldCards
  <2> QED
    BY <2>1, FlowAssumption DEF Answering, RequestOK
<1>1. FitsIn(shown, place, Range(columns)) /\ cluster \in [Files -> Nat]
  BY DEF FlowInv, View
<1>2. \A h : Removes(r, h) => h = r.card
  BY DEF Removes, Deleting
\* Once the card is gone, nothing waits for its removal.
<1>3. ASSUME NEW cards, Continued(c, r, cards), r.card \notin cards, View'
      PROVE  Answered(c, r)
  <2>1. r.card \notin shown' /\ hidden' \subseteq hidden
    BY <1>0, <1>3 DEF Continued
  <2>2. r.card \notin hidden'
    BY <1>0, <1>3, <2>1 DEF Continued
  <2>3. Ends(c, r) /\ \A h \in hidden' : ~Removes(r, h)
    BY <1>2, <1>3, <2>2 DEF Continued
  <2> QED
    BY <1>3, <2>1, <2>3, EndsAnswered
<1>4. CASE r.card \notin shown /\ Throws(c, r) /\ UNCHANGED viewVars
  <2>1. View' /\ hidden' = hidden
    BY <1>4, ViewStays DEF FlowInv
  <2> QED
    BY <1>4, <2>1 DEF Answered
<1>5. CASE c \in Columns /\ Continue(c, r, shown \ {r.card}, cluster) /\ Prune
  <2> DEFINE cards == shown \ {r.card}
  <2>1. FitsIn(cards, place, Range(columns)) /\ r.card \notin cards
    BY <1>1 DEF FitsIn, One
  <2>2. Continued(c, r, cards)
    <3> HIDE DEF cards
    <3>1. Continue(c, r, cards, cluster)
      BY <1>5 DEF cards
    <3> QED
      BY <1>0, <1>1, <2>1, <3>1, ContinueDoes
  <2> HIDE DEF cards
  <2>3. View'
    BY <1>5, <2>2, ContinuedView
  <2> QED
    BY <1>3, <2>1, <2>2, <2>3
<1>6. ASSUME c \in Files, Unpruned, NEW cards, r.card \notin cards,
             FitsIn(cards, place, Range(columns)),
             \A o \in cards : o \in shown \/ o.home = c,
             NEW clusters \in [Files -> Nat],
             \/ Continue(c, r, cards, clusters)
             \/ Show(cards, place, clusters) /\ Sends(c, r, Detailing(c, r.card, r.move))
      PROVE  Answered(c, r)
  <2>1. Continued(c, r, cards)
    <3>1. CASE Continue(c, r, cards, clusters)
      BY <1>0, <1>6, <3>1, ContinueDoes
    <3>2. CASE Show(cards, place, clusters) /\ Sends(c, r, Detailing(c, r.card, r.move))
      <4> DEFINE q == Detailing(c, r.card, r.move)
      <4>1. Immediate(q) /\ q.file = c /\ RequestOK(c, q)
        BY <1>0 DEF RequestOK, Detailing, Immediate
      <4>2. Sends(c, r, q)
        BY <3>2
      <4> HIDE DEF q
      <4>3. Ends(c, r)
        BY <1>6, <4>1, <4>2, SendsEnds
      <4> QED
        BY <1>6, <3>2, <4>3, ShowIs DEF Continued
    <3> QED
      BY <1>6, <3>1, <3>2
  <2>2. \A d \in Columns : Occupied(d, cards, place) => Occupied(d, shown, place)
    <3>1. c \notin Columns
      BY <1>6, FlowAssumption
    <3> QED
      BY <1>6, <3>1 DEF Occupied, In
  <2>3. View'
    BY <1>6, <2>1, <2>2, ContinuedView
  <2> QED
    BY <1>3, <1>6, <2>1, <2>3
<1>7. CASE /\ r.card \in shown /\ c \in Files /\ Unpruned
           /\ IF ids = {} THEN Continue(c, r, shown \ Members(c), [cluster EXCEPT ![c] = 0])
              ELSE IF new = {} THEN Continue(c, r, all, cluster)
              ELSE Show(all, place, cluster) /\ Sends(c, r, Detailing(c, r.card, r.move))
  <2>1. CASE ids = {}
    <3> DEFINE cards == shown \ Members(c)
               clusters == [cluster EXCEPT ![c] = 0]
    <3>1. /\ FitsIn(cards, place, Range(columns)) /\ r.card \notin cards
          /\ clusters \in [Files -> Nat] /\ cards \subseteq shown
      BY <1>0, <1>1 DEF FitsIn, One, Members, In
    <3>2. Continue(c, r, cards, clusters)
      BY <1>7, <2>1
    <3> HIDE DEF cards, clusters
    <3> QED
      BY <1>6, <1>7, <3>1, <3>2
  <2>2. CASE ids # {}
    <3>1. /\ new \subseteq Card /\ One(new)
          /\ \A o \in new : o.home = c /\ o.account \notin AccountsOf(kept) /\ o \notin HeldCards
      <4> DEFINE some == ids \ AccountsOf(kept)
      <4>1. /\ some \in SUBSET Accounts /\ new = NewCards(c, some)
            /\ \A a \in some : a \notin AccountsOf(kept)
        BY <1>0
      <4> HIDE DEF some, new, kept
      <4>2. /\ NewCards(c, some) \subseteq Card /\ One(NewCards(c, some))
            /\ \A o \in NewCards(c, some) : o.home = c /\ o.account \in some /\ o \notin HeldCards
        BY <1>0, <4>1, NewCardsAre DEF FlowInv
      <4> QED
        BY <4>1, <4>2
    <3> HIDE DEF new
    <3>2. FitsIn(all, place, Range(columns))
      <4>1. One(all)
        BY <1>1, <3>1 DEF FitsIn, One, Members, In, AccountsOf
      <4>2. \A o \in all : (IF o.home \in Files THEN place[o.home] ELSE o.home) \in Range(columns)
        <5>1. ASSUME NEW o \in shown
              PROVE  (IF o.home \in Files THEN place[o.home] ELSE o.home) \in Range(columns)
          BY <1>1 DEF FitsIn
        <5> QED
          BY <1>0, <1>7, <3>1, <5>1 DEF Members, In
      <4> QED
        BY <1>1, <3>1, <4>1, <4>2 DEF FitsIn, Members, In
    <3>3. r.card \notin all /\ \A o \in all : o \in shown \/ o.home = c
      BY <1>0, <3>1 DEF Members, In
    <3> HIDE DEF all
    <3> QED
      BY <1>1, <1>6, <1>7, <2>2, <3>2, <3>3
  <2> QED
    BY <2>1, <2>2
<1> QED
  BY <1>4, <1>5, <1>7 DEF RemoveDone

\* A callback that leaves the view alone, or adds what a move brings.
LEMMA StaysAnswered ==
  ASSUME FlowInv, NEW c, NEW r, UNCHANGED viewVars,
         \/ Throws(c, r)
         \/ \E asked : /\ AskedOK(asked) /\ Done(c, r, asked)
                       /\ \A h : Removes(r, h) =>
                            \E d \in Contexts : \E q \in Range(asked[d]) : Removes(q, h)
  PROVE  Answered(c, r)
<1>1. View' /\ hidden' = hidden
  BY ViewStays DEF FlowInv
<1>2. NowAsked({})
  BY FS_EmptySet DEF NowAsked
<1> QED
  BY <1>1, <1>2 DEF Answered, Done

\* The rest of the view stays where it was.
LEMMA MovedAnswered ==
  ASSUME FlowInv, NEW c, NEW r, Continued(c, r, shown), Unpruned,
         \A h \in hidden' : ~Removes(r, h)
  PROVE  Answered(c, r)
<1>1. View'
  BY ContinuedView
<1> QED
  BY <1>1, EndsAnswered DEF Continued

\* The card is removed where it was, or is gone already: then its file shows it.
LEMMA InsertAnswered ==
  ASSUME FlowInv, NEW c, NEW r, NEW ids, Answering(c, r, ids), r.op = "insert",
         InsertDone(c, r, ids)
  PROVE  Answered(c, r)
<1> DEFINE move == [file |-> c, ids |-> ids]
           q == Removing(r.card, move)
<1>0. /\ c \in Contexts /\ c \in Files /\ ids \subseteq Accounts
      /\ r.card \in Card /\ r.card \notin Files /\ r.card.home \in Contexts
  BY FlowAssumption DEF Answering, RequestOK, Card
<1>1. MoveOK(move)
  BY <1>0 DEF MoveOK
<1>2. \A h : Removes(r, h) => h = r.card
  BY DEF Removes, Deleting
<1>3. CASE /\ r.card \in shown /\ Unpruned
           /\ Done(c, r, Only(r.card.home, <<q>>))
           /\ UNCHANGED <<place, cluster, shown, hidden>>
  <2>1. RequestOK(r.card.home, q) /\ Removes(q, r.card)
    BY <1>0, <1>1 DEF RequestOK, Immediate, Removing, Removes
  <2>2. /\ AskedOK(Only(r.card.home, <<q>>))
        /\ q \in Range(Only(r.card.home, <<q>>)[r.card.home])
    <3> HIDE DEF q
    <3> QED
      BY <1>0, <2>1, OnlyOne
  <2>3. UNCHANGED viewVars
    BY <1>3 DEF Unpruned, viewVars
  <2> HIDE DEF q
  <2> QED
    BY <1>0, <1>2, <1>3, <2>1, <2>2, <2>3, StaysAnswered
<1>4. CASE r.card \notin shown /\ Unpruned /\ Arrive(c, r, move, shown, cluster)
  <2>1. FitsIn(shown, place, Range(columns)) /\ cluster \in [Files -> Nat]
    BY DEF FlowInv, View
  <2>2. Continued(c, r, shown)
    <3>1. CASE Live(c)
      <4>1. Install(c, r, c, ids, shown, cluster)
        BY <1>4, <3>1 DEF Arrive
      <4> QED
        BY <1>0, <2>1, <3>1, <4>1, InstallDoes
    <3>2. CASE ~Live(c)
      <4>1. Show(shown, place, cluster) /\ Throws(c, r)
        BY <1>4, <3>2 DEF Arrive
      <4> QED
        BY <2>1, <4>1, ShowsOnly
    <3> QED
      BY <3>1, <3>2
  <2>3. r.card \notin hidden
    BY <1>0, <1>4 DEF FlowInv, View
  <2>4. hidden' \subseteq hidden
    BY <2>2 DEF Continued
  <2> QED
    BY <1>0, <1>2, <1>4, <2>2, <2>3, <2>4, MovedAnswered
<1> QED
  BY <1>3, <1>4 DEF InsertDone

\* A file is filled, unless it is gone.
LEMMA FillAnswered ==
  ASSUME FlowInv, NEW c, NEW r, NEW ids, Answering(c, r, ids), r.op = "fill", FillDone(c, r, ids)
  PROVE  Answered(c, r)
<1>0. /\ c \in Contexts /\ c \in Files /\ ids \subseteq Accounts
      /\ \A h : ~Removes(r, h)
  BY RemovesNothing DEF Answering, RequestOK
<1>1. CASE Live(c) /\ Unpruned /\ Install(c, r, c, ids, shown, cluster)
  <2>1. FitsIn(shown, place, Range(columns)) /\ cluster \in [Files -> Nat]
    BY DEF FlowInv, View
  <2>2. Continued(c, r, shown)
    BY <1>0, <1>1, <2>1, InstallDoes
  <2> QED
    BY <1>0, <1>1, <2>2, MovedAnswered
<1>2. CASE Unpruned /\ Done(c, r, Nothing) /\ UNCHANGED <<place, cluster, shown, hidden>>
  <2>1. UNCHANGED viewVars
    BY <1>2 DEF Unpruned, viewVars
  <2> QED
    BY <1>0, <1>2, <2>1, NothingIs, StaysAnswered
<1> QED
  BY <1>1, <1>2 DEF FillDone

\* A file is gone with its cards.
LEMMA DeleteAnswered ==
  ASSUME FlowInv, NEW c, NEW r, NEW ids, Answering(c, r, ids), r.op = "delete", DeleteDone(c, r)
  PROVE  Answered(c, r)
<1> DEFINE f == r.file
           cards == shown \ Members(f)
           places == [place EXCEPT ![f] = Gone]
           clusters == [cluster EXCEPT ![f] = 0]
<1>0. f \in Files /\ f \in Contexts /\ Gone \notin Columns
  BY FlowAssumption DEF Answering, RequestOK, Contexts
<1>1. FitsIn(shown, place, Range(columns)) /\ cluster \in [Files -> Nat] /\ View
  BY DEF FlowInv, View
<1>2. FitsIn(cards, places, Range(columns))
  <2>1. places \in [Files -> Range(columns) \cup {None, Gone}]
    BY <1>0, <1>1 DEF FitsIn
  <2>2. One(cards)
    BY <1>1 DEF FitsIn, One
  <2>3. \A o \in cards : (IF o.home \in Files THEN places[o.home] ELSE o.home) \in Range(columns)
    BY <1>1 DEF FitsIn, Members, In
  <2> QED
    BY <1>1, <2>1, <2>2, <2>3 DEF FitsIn
<1>3. Show(cards, places, clusters) /\ Prune /\ Done(c, r, Nothing)
  BY DEF DeleteDone
<1>4. clusters \in [Files -> Nat] /\ places[f] = Gone /\ f \notin cards
  BY <1>0, <1>1, FlowAssumption DEF FitsIn
<1> HIDE DEF cards, places, clusters
<1>5. /\ shown' = cards /\ place' = places /\ cluster' = clusters /\ hidden' \subseteq hidden
      /\ hidden' \subseteq cards \cup {g \in Files : places[g] \in Columns}
  BY <1>3, ShowIs
<1>6. View'
  BY <1>1, <1>2, <1>3, <1>4, <1>5, StepView
<1>7. \A h \in hidden' : ~Removes(r, h)
  <2>1. f \notin hidden'
    BY <1>0, <1>4, <1>5
  <2>2. \A h : Removes(r, h) => h = f
    BY DEF Removes, Deleting
  <2> QED
    BY <2>1, <2>2
<1> QED
  BY <1>3, <1>5, <1>6, <1>7, NothingIs, DoneEnds, EndsAnswered

\* The callbacks that change nothing of the view.
LEMMA OthersAnswered ==
  ASSUME FlowInv, NEW c, NEW r, NEW ids, Answering(c, r, ids),
         \/ r.op = "clear" /\ Done(c, r, Nothing) /\ UNCHANGED viewVars
         \/ r.op = "create" /\ CreateDone(c, r)
         \/ r.op = "links" /\ LinksDone(c, r)
  PROVE  Answered(c, r)
<1>0. c \in Contexts /\ \A h : ~Removes(r, h)
  BY RemovesNothing DEF Answering
<1>1. CASE r.op = "clear" /\ Done(c, r, Nothing) /\ UNCHANGED viewVars
  BY <1>0, <1>1, NothingIs, StaysAnswered
<1>2. CASE r.op = "create" /\ CreateDone(c, r)
  <2> DEFINE asked == IF r.ids = {} THEN Nothing ELSE Only(r.file, <<Filling(r.ids)>>)
  <2>1. RequestOK(r.file, Filling(r.ids))
    BY <1>2 DEF Answering, RequestOK, Immediate, Filling
  <2>2. AskedOK(Only(r.file, <<Filling(r.ids)>>))
    BY <2>1, OnlyOne
  <2>3. AskedOK(asked)
    BY <2>2, NothingIs
  <2>4. Done(c, r, asked) /\ UNCHANGED viewVars
    BY <1>2 DEF CreateDone
  <2> HIDE DEF asked
  <2> QED
    BY <1>0, <2>3, <2>4, StaysAnswered
<1>3. CASE r.op = "links" /\ LinksDone(c, r)
  BY <1>0, <1>3, NothingIs, StaysAnswered DEF LinksDone
<1> QED
  BY <1>1, <1>2, <1>3

\* Those of the requests that wait for no others.
LEMMA NowAnswered ==
  ASSUME FlowInv, NEW c \in Contexts, NEW r, RequestOK(c, r),
         \/ r.op = "details" /\ DetailsDone(c, r)
         \/ r.op = "expand" /\ ExpandDone(c, r)
  PROVE  Answered(c, r)
<1>0. \A h : ~Removes(r, h)
  BY RemovesNothing
<1>1. CASE r.op = "details" /\ DetailsDone(c, r)
  <2>1. CASE Throws(c, r) /\ UNCHANGED viewVars
    BY <2>1, StaysAnswered
  <2>2. CASE Unpruned /\ Continue(c, r, shown, cluster)
    <3>1. FitsIn(shown, place, Range(columns)) /\ cluster \in [Files -> Nat]
      BY DEF FlowInv, View
    <3>2. MoveOK(r.move)
      BY <1>1 DEF RequestOK
    <3>3. Continued(c, r, shown)
      BY <1>0, <2>2, <3>1, <3>2, ContinueDoes
    <3> QED
      BY <1>0, <2>2, <3>3, MovedAnswered
  <2> QED
    BY <1>1, <2>1, <2>2 DEF DetailsDone
<1>2. CASE r.op = "expand" /\ ExpandDone(c, r)
  <2>1. UNCHANGED viewVars
    BY <1>2 DEF ExpandDone
  <2>2. CASE Throws(c, r)
    BY <2>1, <2>2, StaysAnswered
  <2>3. CASE Done(c, r, LinksAsked(Members(c), place[c]))
    <3>1. shown' \subseteq Card
      BY <2>1 DEF FlowInv, View, FitsIn, viewVars
    <3>2. AskedOK(LinksAsked(Members(c), place[c]))
      BY <3>1, LinksAre
    <3> QED
      BY <1>0, <2>1, <2>3, <3>2, StaysAnswered
  <2> QED
    BY <1>2, <2>2, <2>3 DEF ExpandDone
<1> QED
  BY <1>1, <1>2

\* The invariant holds after every answer.
LEMMA AnswerFlow ==
  ASSUME FlowInv, NEW c \in Contexts, Answer(c)
  PROVE  FlowInv'
<1> DEFINE r == Head(queue[c])
           ids == reply[c]
<1>1. /\ reply[c] # None /\ reply' = [reply EXCEPT ![c] = None]
      /\ UNCHANGED <<patient, acts, server>>
  BY DEF Answer
<1>2. Answering(c, r, ids)
  <2>1. queue[c] # <<>> /\ IsSeq(queue[c])
    BY <1>1 DEF FlowInv, ReplyOK, QueueOK, AskedOK
  <2>2. r \in Range(queue[c])
    BY <2>1, TailIs
  <2>3. r \in Pending /\ RequestOK(c, r)
    BY <2>2 DEF Pending, FlowInv, QueueOK, AskedOK
  <2>4. ids \subseteq Accounts
    <3> DEFINE S == SUBSET Accounts
    <3>1. reply[c] \in S \cup {None}
      BY DEF FlowInv
    <3>2. reply[c] \in S
      BY <1>1, <3>1
    <3> QED
      BY <3>2
  <2>5. r.op = "remove" => r.card.account \notin ids
    BY <1>1 DEF FlowInv, ReplyOK
  <2> QED
    BY <2>3, <2>4, <2>5 DEF Answering
<1>3. Answered(c, r)
  <2>1. \/ r.op = "branch" /\ BranchDone(c, r, ids)
        \/ r.op = "remove" /\ RemoveDone(c, r, ids)
        \/ r.op = "insert" /\ InsertDone(c, r, ids)
        \/ r.op = "fill" /\ FillDone(c, r, ids)
        \/ r.op = "delete" /\ DeleteDone(c, r)
        \/ \/ r.op = "clear" /\ Done(c, r, Nothing) /\ UNCHANGED viewVars
           \/ r.op = "create" /\ CreateDone(c, r)
           \/ r.op = "links" /\ LinksDone(c, r)
    BY DEF Answer
  <2> HIDE DEF r, ids
  <2>2. CASE r.op = "branch" /\ BranchDone(c, r, ids)
    BY <1>2, <2>2, BranchAnswered
  <2>3. CASE r.op = "remove" /\ RemoveDone(c, r, ids)
    BY <1>2, <2>3, RemoveAnswered
  <2>4. CASE r.op = "insert" /\ InsertDone(c, r, ids)
    BY <1>2, <2>4, InsertAnswered
  <2>5. CASE r.op = "fill" /\ FillDone(c, r, ids)
    BY <1>2, <2>5, FillAnswered
  <2>6. CASE r.op = "delete" /\ DeleteDone(c, r)
    BY <1>2, <2>6, DeleteAnswered
  <2>7. CASE \/ r.op = "clear" /\ Done(c, r, Nothing) /\ UNCHANGED viewVars
             \/ r.op = "create" /\ CreateDone(c, r)
             \/ r.op = "links" /\ LinksDone(c, r)
    BY <1>2, <2>7, OthersAnswered
  <2> QED
    BY <2>1, <2>2, <2>3, <2>4, <2>5, <2>6, <2>7
<1>4. QueueOK' /\ NowOK' /\ ReplyOK' /\ HiddenPending' /\ stuck' \subseteq Contexts
  <2>1. ~Immediate(r)
    BY DEF Answer, Immediate
  <2>2. AnswerTo(c, r)
    BY <1>1, <2>1 DEF AnswerTo
  <2> HIDE DEF r
  <2> QED
    BY <1>3, <2>2, AnswerStep
<1>5. reply' \in [Contexts -> (SUBSET Accounts) \cup {None}]
  BY <1>1 DEF FlowInv
<1>6. View'
  BY <1>3 DEF Answered
<1> QED
  BY <1>1, <1>4, <1>5, <1>6 DEF FlowInv

\* An immediate request is answered.
LEMMA AnswerNowFlow ==
  ASSUME FlowInv, NEW r \in immediate, AnswerNow(r)
  PROVE  FlowInv'
<1> DEFINE c == r.file
<1>1. c \in Contexts /\ Immediate(r) /\ RequestOK(c, r)
  BY DEF FlowInv, NowOK, NowAsked, Contexts
<1>2. UNCHANGED <<patient, acts, server, reply>>
  BY DEF AnswerNow
<1>3. \/ r.op = "details" /\ DetailsDone(c, r)
      \/ r.op = "expand" /\ ExpandDone(c, r)
  BY DEF AnswerNow
<1> HIDE DEF c
<1>4. Answered(c, r)
  BY <1>1, <1>3, NowAnswered
<1>5. AnswerTo(c, r)
  BY <1>1, <1>2 DEF AnswerTo
<1>6. QueueOK' /\ NowOK' /\ ReplyOK' /\ HiddenPending' /\ stuck' \subseteq Contexts
  BY <1>4, <1>5, AnswerStep
<1> QED
  BY <1>2, <1>4, <1>6 DEF FlowInv, Answered

-----------------------------------------------------------------------------
(* The user and the server                                                 *)

\* What is left to see of an action of the user.
Acted ==
  /\ View'
  /\ \E asked : /\ AskedOK(asked) /\ Adding(asked)
                /\ \A h \in hidden' \ hidden :
                     \E d \in Contexts : \E r \in Range(asked[d]) : Removes(r, h)

\* The invariant holds after what a user does.
LEMMA ActFlow ==
  ASSUME FlowInv, NEW c, Act(c), Acted
  PROVE  FlowInv'
<1>1. /\ acts < MaxActs /\ acts' = acts + 1
      /\ UNCHANGED <<patient, server, reply, stuck>>
  BY DEF Act
<1>2. acts' \in 0..MaxActs
  BY <1>1, FlowAssumption DEF FlowInv
<1>3. QueueOK' /\ NowOK' /\ ReplyOK' /\ HiddenPending'
  BY <1>1, UserStep DEF Acted
<1> QED
  BY <1>1, <1>2, <1>3 DEF FlowInv, Acted

\* Something of the view is hidden, and its removal asked for.
LEMMA HideActs ==
  ASSUME FlowInv, NEW objects \in SUBSET (shown \cup {f \in Files : Live(f)}), Hide(objects),
         UNCHANGED <<columns, made, place, cluster, shown>>,
         NEW asked, AskedOK(asked), Adding(asked),
         \A h \in objects : \E d \in Contexts : \E r \in Range(asked[d]) : Removes(r, h)
  PROVE  Acted
<1>1. View'
  BY DEF FlowInv, View, RowOK, EndsEmpty, Members, FilesIn, In, FitsIn, One, Live, Hide
<1>2. hidden' \ hidden \subseteq objects
  BY DEF Hide
<1> QED
  BY <1>1, <1>2 DEF Acted

\* A new file is one that was never made.
LEMMA NewFileIs ==
  ASSUME Unmade # {}
  PROVE  NewFile \in Files /\ NewFile \in Contexts /\ place[NewFile] = None
  BY DEF NewFile, Unmade, Contexts

\* The actions of the user, one by one: a branch changes nothing yet.
LEMMA BranchActs ==
  ASSUME FlowInv, NEW o \in shown, NEW right \in BOOLEAN, Branch(o, right)
  PROVE  Acted
<1> DEFINE r == Branching(o, right)
           t == NextTo(ColumnOf(o.home), right)
<1>1. RequestOK(t, r)
  BY DEF RequestOK, Immediate, Branching
<1>2. AskedOK(Only(t, <<r>>))
  <2> HIDE DEF r, t
  <2> QED
    BY <1>1, OnlyOne
<1>3. Adding(Only(t, <<r>>)) /\ UNCHANGED viewVars
  BY DEF Branch
<1>4. View' /\ hidden' = hidden
  BY <1>3, ViewStays DEF FlowInv
<1> HIDE DEF r, t
<1> QED
  BY <1>2, <1>3, <1>4 DEF Acted

\* A card is hidden, and its removal asked for.
LEMMA RemoveCardActs ==
  ASSUME FlowInv, NEW o \in shown, RemoveCard(o)
  PROVE  Acted
<1> DEFINE r == Removing(o, None)
           asked == Only(o.home, <<r>>)
<1>1. o \in Card /\ o \notin Files /\ o.home \in Contexts
  BY FlowAssumption DEF FlowInv, View, FitsIn, Card
<1>2. RequestOK(o.home, r) /\ Removes(r, o)
  BY <1>1 DEF RequestOK, Immediate, Removing, MoveOK, Removes
<1>3. AskedOK(asked) /\ r \in Range(asked[o.home])
  <2> HIDE DEF r
  <2> QED
    BY <1>1, <1>2, OnlyOne
<1>4. /\ Hide({o}) /\ Adding(asked)
      /\ UNCHANGED <<columns, made, place, cluster, shown>>
  BY DEF RemoveCard
<1> DEFINE objects == {o}
<1>5. objects \in SUBSET (shown \cup {f \in Files : Live(f)}) /\ Hide(objects)
  BY <1>4
<1>6. \A h \in objects : \E d \in Contexts : \E q \in Range(asked[d]) : Removes(q, h)
  BY <1>1, <1>2, <1>3
<1> HIDE DEF objects, asked, r
<1> QED
  BY <1>3, <1>4, <1>5, <1>6, HideActs

\* A context shows finitely many cards: each account once.
LEMMA FiniteMembers ==
  ASSUME FlowInv, NEW c
  PROVE  IsFiniteSet(Members(c))
<1> DEFINE objects == Members(c)
<1>0. /\ objects \subseteq shown /\ objects \subseteq Card /\ One(objects)
      /\ \A o \in objects : o.home = c
  BY DEF FlowInv, View, FitsIn, One, Members, In
<1> HIDE DEF objects
<1> DEFINE A == AccountsOf(objects)
           g == [a \in A |-> CHOOSE o \in objects : o.account = a]
<1>1. IsFiniteSet(A)
  <2>1. A \subseteq Accounts
    BY <1>0 DEF AccountsOf, Card
  <2> HIDE DEF A
  <2> QED
    BY <2>1, FS_Subset, FlowAssumption
<1>2. \A a \in A : g[a] \in objects /\ g[a].account = a
  BY DEF AccountsOf
<1>3. \A o \in objects : o.account \in A
  BY DEF AccountsOf
<1>4. DOMAIN g = A
  OBVIOUS
<1> HIDE DEF g, A
<1>5. objects = {g[a] : a \in A}
  BY <1>0, <1>2, <1>3 DEF One
<1> QED
  BY <1>1, <1>4, <1>5, FiniteImage DEF objects

\* A column shows an account once, so its cards are finitely many, and each is asked for.
LEMMA CleanActs ==
  ASSUME FlowInv, NEW c \in Range(columns), CleanColumn(c)
  PROVE  Acted
<1> DEFINE objects == Members(c)
           S == {Removing(o, None) : o \in objects}
           last == <<Clearing(AccountsOf(objects))>>
           requests == SetToSeq(S) \o last
           asked == Only(c, requests)
<1>1. /\ Hide(objects) /\ Adding(asked)
      /\ UNCHANGED <<columns, made, place, cluster, shown>>
  BY DEF CleanColumn
<1>2. c \in Contexts
  BY RowIs DEF FlowInv, View, Contexts
<1>3. /\ objects \subseteq shown /\ objects \subseteq Card /\ One(objects)
      /\ \A o \in objects : o.home = c
  BY DEF FlowInv, View, FitsIn, One, Members, In
<1> HIDE DEF objects
<1>4. IsFiniteSet(objects)
  BY FiniteMembers DEF objects
<1>5. IsFiniteSet(S)
  <2> DEFINE g == [o \in objects |-> Removing(o, None)]
  <2>1. DOMAIN g = objects /\ S = {g[o] : o \in objects}
    OBVIOUS
  <2> HIDE DEF g, S
  <2> QED
    BY <1>4, <2>1, FiniteImage
<1>6. /\ \A r \in S : RequestOK(c, r)
      /\ \A o \in objects : \E r \in S : Removes(r, o)
  <2>1. ASSUME NEW o \in objects
        PROVE  RequestOK(c, Removing(o, None)) /\ Removes(Removing(o, None), o)
    <3>1. o \in Card /\ o \notin Files /\ o.home = c
      BY <1>3, FlowAssumption
    <3> QED
      BY <3>1 DEF RequestOK, Immediate, Removing, MoveOK, Removes
  <2> QED
    BY <2>1
<1>7. IsSeq(last) /\ \A r \in Range(last) : RequestOK(c, r)
  <2> DEFINE r == Clearing(AccountsOf(objects))
  <2>1. RequestOK(c, r)
    BY DEF RequestOK, Immediate, Clearing
  <2>2. IsSeq(<<r>>) /\ Range(<<r>>) = {r}
    <3> HIDE DEF r
    <3> QED
      BY OneRequest
  <2> QED
    BY <2>1, <2>2
<1> HIDE DEF S, last
<1>8. IsSeq(SetToSeq(S)) /\ Range(SetToSeq(S)) = S
  BY <1>5, Listed
<1>9. IsSeq(requests) /\ Range(requests) = S \cup Range(last)
  BY <1>7, <1>8, ConcatIs
<1> HIDE DEF requests
<1>10. AskedOK(asked) /\ asked[c] = requests
  <2>1. \A r \in Range(requests) : RequestOK(c, r)
    BY <1>6, <1>7, <1>9
  <2> QED
    BY <1>2, <1>9, <2>1, OnlyIs
<1>11. \A h \in objects : \E d \in Contexts : \E r \in Range(asked[d]) : Removes(r, h)
  BY <1>2, <1>6, <1>9, <1>10
<1> HIDE DEF asked
<1> QED
  BY <1>1, <1>3, <1>10, <1>11, HideActs

\* A card goes to a new file: it is hidden, and its insertion asked for.
LEMMA CreateFileActs ==
  ASSUME FlowInv, NEW o \in shown, CreateFile(o)
  PROVE  Acted
<1> DEFINE f == NewFile
           places == [place EXCEPT ![f] = o.home]
           first == Only(o.home, <<Creating(f, {})>>)
           asked == [first EXCEPT ![f] = <<Inserting(o)>>]
<1>1. /\ o.home \in Columns /\ place' = places /\ Hide({o}) /\ Adding(asked)
      /\ UNCHANGED <<columns, made, cluster, shown>>
  BY DEF CreateFile
<1>2. f \in Files /\ f \in Contexts /\ place[f] = None
  BY NewFileIs DEF CreateFile
<1>3. /\ o \in Card /\ o \notin Files /\ View /\ FitsIn(shown, place, Range(columns))
      /\ cluster \in [Files -> Nat]
  BY FlowAssumption DEF FlowInv, View, FitsIn
<1>4. o.home \notin Files /\ None \notin Columns
  BY <1>1, FlowAssumption DEF Contexts
<1>5. None \notin Range(columns)
  BY <1>4, RowIs DEF FlowInv, View
<1> HIDE DEF f
<1>6. FitsIn(shown, places, Range(columns))
  <2>1. o.home \in Range(columns)
    BY <1>3, <1>4 DEF FitsIn
  <2>2. places \in [Files -> Range(columns) \cup {None, Gone}]
    BY <1>3, <2>1 DEF FitsIn
  <2>3. \A p \in shown : (IF p.home \in Files THEN places[p.home] ELSE p.home) \in Range(columns)
    BY <1>3, <2>1 DEF FitsIn
  <2> QED
    BY <1>3, <2>2, <2>3 DEF FitsIn
<1>7. View'
  <2>1. hidden' \subseteq shown \cup {g \in Files : places[g] \in Columns}
    <3>1. \A g \in Files : Live(g) => places[g] \in Columns
      BY <1>2, <1>3, <1>4 DEF Live, FitsIn
    <3> QED
      BY <1>1, <1>3, <3>1 DEF View, Hide
  <2>2. \A d \in Columns : Occupied(d, shown, places) => Occupied(d, shown, place)
    BY <1>3 DEF Occupied, In, FitsIn
  <2> HIDE DEF places
  <2> QED
    BY <1>1, <1>3, <1>6, <2>1, <2>2, StepView
<1>8. AskedOK(asked) /\ Inserting(o) \in Range(asked[f])
  <2> DEFINE r == Inserting(o)
             q == Creating(f, {})
  <2>1. RequestOK(f, r) /\ RequestOK(o.home, q)
    BY <1>2, <1>3 DEF RequestOK, Immediate, Inserting, Creating
  <2>2. AskedOK(first)
    <3> HIDE DEF q
    <3>1. AskedOK(Only(o.home, <<q>>))
      BY <2>1, OnlyOne
    <3> QED
      BY <3>1 DEF q
  <2>3. \A d \in Contexts : asked[d] = IF d = f THEN <<r>> ELSE first[d]
    BY DEF Only, Nothing
  <2>4. IsSeq(<<r>>) /\ Range(<<r>>) = {r}
    <3> HIDE DEF r
    <3> QED
      BY OneRequest
  <2> HIDE DEF asked, first, r, q
  <2>5. AskedOK(asked) /\ r \in Range(asked[f])
    BY <1>2, <2>1, <2>2, <2>3, <2>4 DEF AskedOK
  <2> QED
    BY <2>5 DEF r
<1>9. Removes(Inserting(o), o)
  BY <1>3 DEF Removes, Inserting
<1>10. hidden' \ hidden \subseteq {o}
  BY <1>1 DEF Hide
<1> HIDE DEF asked
<1> QED
  BY <1>1, <1>2, <1>7, <1>8, <1>9, <1>10 DEF Acted

\* A card goes to a file of the workspace.
LEMMA AddToFileActs ==
  ASSUME FlowInv, NEW o \in shown, NEW f \in Files, AddToFile(o, f)
  PROVE  Acted
<1> DEFINE r == Inserting(o)
           asked == Only(f, <<r>>)
<1>1. o \in Card /\ o \notin Files /\ f \in Contexts
  BY FlowAssumption DEF FlowInv, View, FitsIn, Contexts
<1>2. RequestOK(f, r) /\ Removes(r, o)
  BY <1>1 DEF RequestOK, Immediate, Inserting, Removes
<1>3. AskedOK(asked) /\ r \in Range(asked[f])
  <2> HIDE DEF r
  <2> QED
    BY <1>1, <1>2, OnlyOne
<1>4. /\ Hide({o}) /\ Adding(asked)
      /\ UNCHANGED <<columns, made, place, cluster, shown>>
  BY DEF AddToFile
<1> DEFINE objects == {o}
<1>5. objects \in SUBSET (shown \cup {g \in Files : Live(g)}) /\ Hide(objects)
  BY <1>4
<1>6. \A h \in objects : \E d \in Contexts : \E q \in Range(asked[d]) : Removes(q, h)
  BY <1>1, <1>2, <1>3
<1> HIDE DEF objects, asked, r
<1> QED
  BY <1>3, <1>4, <1>5, <1>6, HideActs

\* A file is hidden, and its removal asked for.
LEMMA RemoveFileActs ==
  ASSUME FlowInv, NEW f \in Files, RemoveFile(f)
  PROVE  Acted
<1> DEFINE r == Deleting(f)
           asked == Only(place[f], <<r>>)
<1>1. Live(f) /\ place[f] \in Contexts
  BY DEF RemoveFile, Live, Contexts
<1>2. RequestOK(place[f], r) /\ Removes(r, f)
  BY DEF RequestOK, Immediate, Deleting, Removes
<1>3. AskedOK(asked) /\ r \in Range(asked[place[f]])
  <2> HIDE DEF r
  <2> QED
    BY <1>1, <1>2, OnlyOne
<1>4. /\ Hide({f}) /\ Adding(asked)
      /\ UNCHANGED <<columns, made, place, cluster, shown>>
  BY DEF RemoveFile
<1> DEFINE objects == {f}
<1>5. objects \in SUBSET (shown \cup {g \in Files : Live(g)}) /\ Hide(objects)
  BY <1>1, <1>4
<1>6. \A h \in objects : \E d \in Contexts : \E q \in Range(asked[d]) : Removes(q, h)
  BY <1>1, <1>2, <1>3
<1> HIDE DEF objects, asked, r
<1> QED
  BY <1>3, <1>4, <1>5, <1>6, HideActs

\* A new file comes to a column of the row.
LEMMA PlacedIn ==
  ASSUME FlowInv, Unmade # {}, NEW c \in Range(columns)
  PROVE  /\ FitsIn(shown, [place EXCEPT ![NewFile] = c], Range(columns))
         /\ \A d \in Columns : Occupied(d, shown, [place EXCEPT ![NewFile] = c]) =>
                              d = c \/ Occupied(d, shown, place)
<1> DEFINE places == [place EXCEPT ![NewFile] = c]
<1>1. NewFile \in Files
  BY NewFileIs
<1>2. FitsIn(shown, place, Range(columns))
  BY DEF FlowInv, View
<1>3. places \in [Files -> Range(columns) \cup {None, Gone}]
  BY <1>1, <1>2 DEF FitsIn
<1>4. \A o \in shown : (IF o.home \in Files THEN places[o.home] ELSE o.home) \in Range(columns)
  BY <1>1, <1>2 DEF FitsIn
<1>5. FitsIn(shown, places, Range(columns))
  BY <1>2, <1>3, <1>4 DEF FitsIn
<1>6. \A d \in Columns : Occupied(d, shown, places) => d = c \/ Occupied(d, shown, place)
  BY <1>1, <1>2 DEF Occupied, FitsIn
<1> QED
  BY <1>5, <1>6

\* A new file is asked for; nothing more is hidden.
LEMMA CreatingActs ==
  ASSUME View', NEW c, NEW ids \in SUBSET Accounts, hidden' \subseteq hidden, Unmade # {},
         Adding(Only(c, <<Creating(NewFile, ids)>>))
  PROVE  Acted
<1> DEFINE r == Creating(NewFile, ids)
<1>1. RequestOK(c, r)
  BY NewFileIs DEF RequestOK, Immediate, Creating
<1>2. AskedOK(Only(c, <<r>>))
  <2> HIDE DEF r
  <2> QED
    BY <1>1, OnlyOne
<1> QED
  BY <1>2 DEF Acted

\* An empty file comes to a column, and the row is pruned.
LEMMA CreateEmptyActs ==
  ASSUME FlowInv, NEW c \in Range(columns), CreateEmpty(c)
  PROVE  Acted
<1> DEFINE places == [place EXCEPT ![NewFile] = c]
<1>1. /\ Unmade # {} /\ Show(shown, places, cluster) /\ Prune
      /\ Adding(Only(c, <<Creating(NewFile, {})>>))
  BY DEF CreateEmpty
<1>2. FitsIn(shown, places, Range(columns))
  BY <1>1, PlacedIn
<1> HIDE DEF places
<1>3. /\ shown' = shown /\ place' = places /\ cluster' = cluster /\ hidden' \subseteq hidden
      /\ hidden' \subseteq shown \cup {f \in Files : places[f] \in Columns}
  BY <1>1, ShowIs
<1>4. View /\ cluster' \in [Files -> Nat]
  BY <1>3 DEF FlowInv, View
<1>5. View'
  BY <1>1, <1>2, <1>3, <1>4, StepView
<1> QED
  BY <1>1, <1>3, <1>5, CreatingActs

\* The row is pruned before the file is placed and after it.
LEMMA AddFileActs ==
  ASSUME FlowInv, NEW ids \in SUBSET Accounts, NEW c \in Range(columns), Unmade # {},
         NEW row, row = Pruned(columns, made, shown, place),
         c \in {row[(Len(row) + 1) \div 2]}
               \cup {d \in Range(row) : In(d, shown) # {} \/ FilesIn(d) # {}},
         Show(shown, [place EXCEPT ![NewFile] = c], cluster),
         columns' = Pruned(row, Newest(row), shown', place'),
         made' = Newest(columns'), made' <= MaxColumns,
         Adding(Only(c, <<Creating(NewFile, ids)>>))
  PROVE  Acted
<1> DEFINE places == [place EXCEPT ![NewFile] = c]
           n == Newest(row)
<1>1. View /\ RowOK /\ FitsIn(shown, place, Range(columns)) /\ made \in Columns
  BY DEF FlowInv, View, RowOK
<1>2. /\ FitsIn(shown, places, Range(columns))
      /\ \A d \in Columns : Occupied(d, shown, places) => d = c \/ Occupied(d, shown, place)
  BY PlacedIn
<1>3. made \in Nat \ {0} /\ made + 3 \in Nat
  BY <1>1, FlowAssumption DEF Columns
<1>4. /\ row \in Seq(1..(made + 3)) /\ IsInjective(row) /\ Len(row) >= 3
      /\ \A d \in Columns : Occupied(d, shown, place) => d \in Range(row)
  <2>1. /\ columns \in Seq(1..made) /\ IsInjective(columns) /\ Len(columns) >= 2
        /\ Len(columns) \in Nat
    BY <1>1, RowIs DEF RowOK
  <2>2. \A d \in Columns : Occupied(d, shown, place) => d \in Range(columns)
    BY <1>1, OccupiedIn
  <2> QED
    BY <1>3, <2>1, <2>2, PrunedRow
<1>5. /\ shown' = shown /\ place' = places /\ cluster' = cluster /\ hidden' \subseteq hidden
      /\ hidden' \subseteq shown \cup {f \in Files : places[f] \in Columns}
  <2> HIDE DEF places
  <2>1. Show(shown, places, cluster)
    BY DEF places
  <2> QED
    BY <2>1, ShowIs
<1>6. c \in {row[(Len(row) + 1) \div 2]} \cup Range(row)
  OBVIOUS
<1>7. /\ columns' = Pruned(row, n, shown, places)
      /\ made' = Newest(columns') /\ made' <= MaxColumns
  BY <1>5
<1> HIDE DEF places
<1>8. n \in Nat /\ row \in Seq(1..n)
  BY <1>3, <1>4, NewestOf
<1> HIDE DEF n
<1>9. c \in Range(row)
  <2>1. Len(row) \in Nat /\ DOMAIN row = 1..Len(row)
    BY <1>4, LenProperties
  <2>2. \A m \in Nat : m >= 3 => (m + 1) \div 2 \in 1..m
    OBVIOUS
  <2>3. (Len(row) + 1) \div 2 \in DOMAIN row
    BY <1>4, <2>1, <2>2
  <2> QED
    BY <1>6, <2>3 DEF Range
<1>10. FitsIn(shown, places, Columns)
  BY <1>1, <1>2, RowIs DEF FitsIn
<1>11. \A d \in Columns : Occupied(d, shown, places) => d \in Range(row)
  BY <1>2, <1>4, <1>9
<1>12. Len(row) >= 2
  <2>1. Len(row) \in Nat
    BY <1>4, LenProperties
  <2> QED
    BY <1>4, <2>1
<1>13. RowOK' /\ EndsEmpty' /\ FitsIn(shown, places, Range(columns'))
  BY <1>1, <1>4, <1>5, <1>7, <1>8, <1>10, <1>11, <1>12, PrunedView
<1>14. View'
  BY <1>1, <1>5, <1>13 DEF View, Live
<1> QED
  BY <1>5, <1>14, CreatingActs

\* The server answers with the members that the context has then.
LEMMA ServeFlow ==
  ASSUME FlowInv, NEW c \in Contexts, Serve(c)
  PROVE  FlowInv'
<1> DEFINE r == Head(queue[c])
<1>1. /\ queue[c] # <<>> /\ reply[c] = None
      /\ server' = [d \in Contexts |->
           IF r.op = "delete" /\ d = r.file THEN {}
           ELSE IF d = c THEN (server[d] \ Taken(r)) \cup Added(r) ELSE server[d]]
      /\ reply' = [reply EXCEPT ![c] = server'[c]]
      /\ UNCHANGED <<patient, acts, viewVars, immediate, queue, stuck>>
  BY DEF Serve
<1>2. RequestOK(c, r)
  <2>1. IsSeq(queue[c])
    BY DEF FlowInv, QueueOK, AskedOK
  <2>2. r \in Range(queue[c])
    BY <1>1, <2>1, TailIs
  <2> QED
    BY <2>2 DEF FlowInv, QueueOK, AskedOK
<1> HIDE DEF r
<1>3. Added(r) \subseteq Accounts
  BY <1>2 DEF Added, RequestOK, Card, Neighbours
<1> DEFINE S == SUBSET Accounts
<1>4. server \in [Contexts -> S]
  BY DEF FlowInv
<1>5. \A d \in Contexts : server'[d] \in S
  BY <1>1, <1>3, <1>4
<1>6. server' \in [Contexts -> S]
  <2> HIDE DEF S
  <2> QED
    BY <1>1, <1>5
<1>7. reply' \in [Contexts -> S \cup {None}]
  <2>1. reply \in [Contexts -> S \cup {None}]
    BY DEF FlowInv
  <2> HIDE DEF S
  <2> QED
    BY <1>1, <1>5, <2>1
<1>8. ReplyOK'
  <2> SUFFICES ASSUME NEW d \in Contexts, reply'[d] # None
               PROVE  /\ queue'[d] # <<>>
                      /\ Head(queue'[d]).op = "remove" =>
                           Head(queue'[d]).card.account \notin reply'[d]
    BY DEF ReplyOK
  <2>1. CASE d = c
    <3>1. reply'[c] = server'[c]
      BY <1>1 DEF FlowInv
    <3>2. r.op = "remove" => server'[c] = (server[c] \ {r.card.account})
      BY <1>1 DEF Taken, Added
    <3> QED
      BY <1>1, <2>1, <3>1, <3>2 DEF r
  <2>2. CASE d # c
    <3>1. reply'[d] = reply[d]
      BY <1>1, <2>2 DEF FlowInv
    <3> QED
      BY <1>1, <3>1 DEF FlowInv, ReplyOK
  <2> QED
    BY <2>1, <2>2
<1>9. View' /\ hidden' = hidden
  BY <1>1, ViewStays DEF FlowInv
<1>10. QueueOK' /\ NowOK' /\ HiddenPending'
  <2>1. Pending' = Pending
    BY <1>1 DEF Pending
  <2> QED
    BY <1>1, <1>9, <2>1 DEF FlowInv, HiddenPending, QueueOK, NowOK, AskedOK
<1> QED
  BY <1>1, <1>6, <1>7, <1>8, <1>9, <1>10 DEF FlowInv

-----------------------------------------------------------------------------
(* What holds always                                                       *)

\* Every step keeps the invariant.
LEMMA StepFlow == FlowInv /\ [Next]_vars => FlowInv'
<1> SUFFICES ASSUME FlowInv, [Next]_vars
             PROVE  FlowInv'
  OBVIOUS
<1>1. ASSUME NEW o \in shown, NEW right \in BOOLEAN, Branch(o, right)
      PROVE  FlowInv'
  BY <1>1, BranchActs, ActFlow DEF Branch
<1>2. ASSUME NEW o \in shown, RemoveCard(o)
      PROVE  FlowInv'
  BY <1>2, RemoveCardActs, ActFlow DEF RemoveCard
<1>3. ASSUME NEW o \in shown, CreateFile(o)
      PROVE  FlowInv'
  BY <1>3, CreateFileActs, ActFlow DEF CreateFile
<1>4. ASSUME NEW o \in shown, NEW f \in Files, AddToFile(o, f)
      PROVE  FlowInv'
  BY <1>4, AddToFileActs, ActFlow DEF AddToFile
<1>5. ASSUME NEW c \in Range(columns), CleanColumn(c)
      PROVE  FlowInv'
  BY <1>5, CleanActs, ActFlow DEF CleanColumn
<1>6. ASSUME NEW c \in Range(columns), CreateEmpty(c)
      PROVE  FlowInv'
  BY <1>6, CreateEmptyActs, ActFlow DEF CreateEmpty
<1>7. ASSUME NEW f \in Files, RemoveFile(f)
      PROVE  FlowInv'
  BY <1>7, RemoveFileActs, ActFlow DEF RemoveFile
<1>8. ASSUME NEW ids \in SUBSET Accounts, AddFile(ids)
      PROVE  FlowInv'
  <2> DEFINE row == Pruned(columns, made, shown, place)
  <2>1. Unmade # {}
    BY <1>8 DEF AddFile
  <2>2. PICK c \in {row[(Len(row) + 1) \div 2]}
                   \cup {d \in Range(row) : In(d, shown) # {} \/ FilesIn(d) # {}} :
          /\ c \in Range(columns) /\ Act(c)
          /\ Show(shown, [place EXCEPT ![NewFile] = c], cluster)
          /\ columns' = Pruned(row, Newest(row), shown', place')
          /\ made' = Newest(columns') /\ {Newest(row), made'} \subseteq Columns
          /\ Adding(Only(c, <<Creating(NewFile, ids)>>))
    BY <1>8, Zenon DEF AddFile
  <2>3. made' <= MaxColumns
    BY <2>2 DEF Columns
  <2>4. Acted
    BY <2>1, <2>2, <2>3, AddFileActs
  <2> QED
    BY <2>2, <2>4, ActFlow
<1>9. ASSUME NEW c \in Contexts, Serve(c) \/ Answer(c)
      PROVE  FlowInv'
  BY <1>9, ServeFlow, AnswerFlow
<1>10. ASSUME NEW r \in immediate, AnswerNow(r)
       PROVE  FlowInv'
  BY <1>10, AnswerNowFlow
<1>11. CASE UNCHANGED vars
  <2>1. View' /\ UNCHANGED <<patient, acts, viewVars, server, immediate, queue, reply, stuck>>
    BY <1>11, ViewStays DEF FlowInv, vars
  <2>2. Pending' = Pending /\ hidden' = hidden
    BY <2>1 DEF Pending, viewVars
  <2> QED
    BY <2>1, <2>2 DEF FlowInv, ReplyOK, QueueOK, NowOK, AskedOK, HiddenPending
<1> QED
  BY <1>1, <1>2, <1>3, <1>4, <1>5, <1>6, <1>7, <1>8, <1>9, <1>10, <1>11 DEF Next

\* The invariant holds always.
LEMMA FlowAlways == Spec => []FlowInv
  BY InitFlow, StepFlow, PTL DEF Spec

\* The shapes of the view, the server and the answers; every card and file shown is in
\* the workspace, whose columns differ.
THEOREM FlowTypes == Spec => []TypeOK
<1>1. FlowInv => TypeOK
  BY DEF FlowInv, View, FitsIn, RowOK, TypeOK, ColumnOf, NowOK, NowAsked
<1> QED
  BY <1>1, FlowAlways, PTL

\* Whatever the user does and in whatever order answers come, _pruneColumns leaves an empty
\* column at each end.
THEOREM EndsStayEmpty == Spec => []EndsEmpty
<1>1. FlowInv => EndsEmpty
  BY DEF FlowInv, View
<1> QED
  BY <1>1, FlowAlways, PTL

\* A column or a file never shows an account twice.
THEOREM AccountShownOnce == Spec => []OneCard
<1>1. FlowInv => OneCard
  BY DEF FlowInv, View, FitsIn, One, OneCard
<1> QED
  BY <1>1, FlowAlways, PTL

\* What is hidden is not forgotten: no answer, of whatever request, leaves a card or a file
\* hidden with nothing asked for that removes it or leads to its removal.
THEOREM HiddenAwaited == Spec => []HiddenPending
<1>1. FlowInv => HiddenPending
  BY DEF FlowInv
<1> QED
  BY <1>1, FlowAlways, PTL

=============================================================================
