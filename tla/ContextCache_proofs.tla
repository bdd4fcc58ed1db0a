------------------------ MODULE ContextCache_proofs ------------------------
(***************************************************************************)
(* Theorems about ContextCache, for any number of threads, contexts,       *)
(* permits and identities.                                                 *)
(***************************************************************************)
EXTENDS ContextCache, FiniteSetTheorems, TLAPS

LockType == [writer : Threads \cup {None}, wholds : Nat, rholds : [Threads -> Nat]]

Idle == {"idle", "work"}

\* A permit is a whole one or none; a call in progress knows its context, and
\* its LockableContext unless it is about to create one.
Shape ==
  /\ \A t \in Threads : \A s \in Slots :
       /\ permits[t][s].kind = "none" => permits[t][s] = NoPermit
       /\ permits[t][s].kind # "none" => /\ permits[t][s].id \in Contexts
                                         /\ permits[t][s].lk \in Lockables
  /\ \A t \in Threads :
       /\ pc[t] \in Idle => call[t] = NoCall
       /\ pc[t] \notin Idle => call[t].id \in Contexts
       /\ pc[t] = "create" => call[t].lk = None
       /\ pc[t] \notin Idle \cup {"create"} => call[t].lk \in Lockables

LockOK == \A l \in Lockables : lock[l].writer = None <=> lock[l].wholds = 0

BalanceInv == TypeOK /\ Shape /\ LockOK /\ HoldsBalance

-----------------------------------------------------------------------------
(* What the operations on a lock do to its holds.                          *)

LEMMA SetReadsHolds ==
  ASSUME TypeOK, NEW t \in Threads, NEW l \in Lockables, NEW n \in Nat,
         lock' = SetReads(l, t, n)
  PROVE  /\ lock' \in [Lockables -> LockType]
         /\ \A m \in Lockables : /\ lock'[m].writer = lock[m].writer
                                 /\ lock'[m].wholds = lock[m].wholds
         /\ \A m \in Lockables : \A u \in Threads :
              /\ WriteHolds(m, u)' = WriteHolds(m, u)
              /\ ReadHolds(m, u)' = IF m = l /\ u = t THEN n ELSE ReadHolds(m, u)
  BY DEF TypeOK, SetReads, WriteHolds, ReadHolds, LockType

LEMMA WithWriteLockHolds ==
  ASSUME TypeOK, LockOK, NEW t \in Threads, NEW l \in Lockables, NEW n \in Nat,
         lock[l].writer \in {None, t},
         lock' = WithWriteLock(l, t, n)
  PROVE  /\ lock' \in [Lockables -> LockType]
         /\ LockOK'
         /\ \A m \in Lockables : lock'[m].writer = IF m = l THEN t ELSE lock[m].writer
         /\ \A m \in Lockables : \A u \in Threads :
              /\ WriteHolds(m, u)' = WriteHolds(m, u) + IF m = l /\ u = t THEN 1 ELSE 0
              /\ ReadHolds(m, u)' = IF m = l /\ u = t THEN n ELSE ReadHolds(m, u)
<1> DEFINE new == [writer |-> t, wholds |-> WriteHolds(l, t) + 1,
                   rholds |-> [lock[l].rholds EXCEPT ![t] = n]]
<1>1. lock' = [lock EXCEPT ![l] = new]
  BY DEF WithWriteLock
<1>2. WriteHolds(l, t) \in Nat /\ new \in LockType
  BY DEF TypeOK, WriteHolds, LockType
<1>3. \A m \in Lockables : lock'[m] = IF m = l THEN new ELSE lock[m]
  BY <1>1 DEF TypeOK
<1>4. lock' \in [Lockables -> LockType]
  BY <1>1, <1>2 DEF TypeOK, LockType
<1>5. LockOK'
  BY <1>2, <1>3, CacheAssumption DEF LockOK
<1>6. \A m \in Lockables : \A u \in Threads :
        /\ WriteHolds(m, u)' = WriteHolds(m, u) + IF m = l /\ u = t THEN 1 ELSE 0
        /\ ReadHolds(m, u)' = IF m = l /\ u = t THEN n ELSE ReadHolds(m, u)
  BY <1>2, <1>3, CacheAssumption DEF WriteHolds, ReadHolds, TypeOK, LockType
<1> QED
  BY <1>3, <1>4, <1>5, <1>6

LEMMA WriteUnlockedHolds ==
  ASSUME TypeOK, LockOK, NEW t \in Threads, NEW l \in Lockables,
         WriteHolds(l, t) # 0,
         lock' = WriteUnlocked(l)
  PROVE  /\ lock' \in [Lockables -> LockType]
         /\ LockOK'
         /\ \A m \in Lockables : lock'[m].writer \in {lock[m].writer, None}
         /\ \A m \in Lockables : m # l => lock'[m] = lock[m]
         /\ \A m \in Lockables : \A u \in Threads :
              /\ WriteHolds(m, u)' = WriteHolds(m, u) - IF m = l /\ u = t THEN 1 ELSE 0
              /\ ReadHolds(m, u)' = ReadHolds(m, u)
<1>1. lock[l].writer = t /\ lock[l].wholds \in Nat \ {0}
  BY DEF WriteHolds, TypeOK
<1> DEFINE new == [writer |-> IF lock[l].wholds = 1 THEN None ELSE t,
                   wholds |-> lock[l].wholds - 1, rholds |-> lock[l].rholds]
<1>2. new \in LockType
  BY <1>1 DEF TypeOK, LockType
<1>3. lock' = [lock EXCEPT ![l] = new]
  BY <1>1 DEF WriteUnlocked, TypeOK
<1>4. \A m \in Lockables : lock'[m] = IF m = l THEN new ELSE lock[m]
  BY <1>3 DEF TypeOK
<1>5. lock' \in [Lockables -> LockType]
  BY <1>2, <1>3 DEF TypeOK, LockType
<1>6. LockOK'
  BY <1>1, <1>4, CacheAssumption DEF LockOK
<1>7. \A m \in Lockables : \A u \in Threads :
        /\ WriteHolds(m, u)' = WriteHolds(m, u) - IF m = l /\ u = t THEN 1 ELSE 0
        /\ ReadHolds(m, u)' = ReadHolds(m, u)
  BY <1>1, <1>4, CacheAssumption DEF WriteHolds, ReadHolds, TypeOK
<1> QED
  BY <1>1, <1>4, <1>5, <1>6, <1>7

-----------------------------------------------------------------------------
(* What the operations on a permit set do to the number of permits.        *)

LEMMA PermitsFinite ==
  ASSUME NEW t, NEW l, NEW kind
  PROVE  /\ IsFiniteSet(PermitsOn(t, l, kind))
         /\ Cardinality(PermitsOn(t, l, kind)) \in Nat
<1>1. IsFiniteSet(Slots)
  BY FS_Interval, CacheAssumption DEF Slots
<1>2. PermitsOn(t, l, kind) \in SUBSET Slots
  BY DEF PermitsOn
<1> QED
  BY <1>1, <1>2, FS_Subset, FS_CardinalityType

LEMMA PermitDropped ==
  ASSUME TypeOK, NEW t \in Threads, NEW s \in Slots,
         permits[t][s].kind # "none",
         \A v \in Threads : \A r \in Slots :
           IF v = t /\ r = s
           THEN permits'[v][r].kind = "none"
           ELSE /\ permits'[v][r].kind = permits[v][r].kind
                /\ permits'[v][r].lk = permits[v][r].lk
  PROVE  /\ \A u \in Threads : \A m \in Lockables : \A kind \in {"read", "write"} :
              Cardinality(PermitsOn(u, m, kind)') =
                Cardinality(PermitsOn(u, m, kind))
                - IF u = t /\ m = permits[t][s].lk /\ kind = permits[t][s].kind
                  THEN 1 ELSE 0
         /\ Cardinality(PermitsOn(t, permits[t][s].lk, permits[t][s].kind)) # 0
<1>1. ASSUME NEW u \in Threads, NEW m \in Lockables, NEW kind \in {"read", "write"}
      PROVE  Cardinality(PermitsOn(u, m, kind)') =
               Cardinality(PermitsOn(u, m, kind))
               - IF u = t /\ m = permits[t][s].lk /\ kind = permits[t][s].kind
                 THEN 1 ELSE 0
  <2>0. Cardinality(PermitsOn(u, m, kind)) \in Nat
    BY PermitsFinite
  <2>1. CASE u = t /\ m = permits[t][s].lk /\ kind = permits[t][s].kind
    <3>1. PermitsOn(u, m, kind)' = PermitsOn(u, m, kind) \ {s}
      BY <2>1 DEF PermitsOn
    <3>2. s \in PermitsOn(u, m, kind)
      BY <2>1 DEF PermitsOn
    <3>3. IsFiniteSet(PermitsOn(u, m, kind))
      BY PermitsFinite
    <3>4. Cardinality(PermitsOn(u, m, kind) \ {s}) = Cardinality(PermitsOn(u, m, kind)) - 1
      BY <3>2, <3>3, FS_RemoveElement
    <3> QED
      BY <2>1, <3>1, <3>4
  <2>2. CASE ~(u = t /\ m = permits[t][s].lk /\ kind = permits[t][s].kind)
    <3>1. PermitsOn(u, m, kind)' = PermitsOn(u, m, kind)
      BY <2>2 DEF PermitsOn
    <3> QED
      BY <2>0, <2>2, <3>1
  <2> QED
    BY <2>1, <2>2
<1>2. Cardinality(PermitsOn(t, permits[t][s].lk, permits[t][s].kind)) # 0
  <2>1. s \in PermitsOn(t, permits[t][s].lk, permits[t][s].kind)
    BY DEF PermitsOn
  <2>2. IsFiniteSet(PermitsOn(t, permits[t][s].lk, permits[t][s].kind))
    BY PermitsFinite
  <2> QED
    BY <2>1, <2>2, FS_EmptySet
<1> QED
  BY <1>1, <1>2

LEMMA PermitsSame ==
  ASSUME \A v \in Threads : \A r \in Slots :
           /\ permits'[v][r].kind = permits[v][r].kind
           /\ permits'[v][r].lk = permits[v][r].lk
  PROVE  \A u \in Threads : \A m, kind : PermitsOn(u, m, kind)' = PermitsOn(u, m, kind)
  BY DEF PermitsOn

-----------------------------------------------------------------------------
(* One lemma per kind of step: holds and permits stay balanced.            *)

LEMMA InitBalance ==
  ASSUME Init
  PROVE  BalanceInv
<1>1. TypeOK
  BY CacheAssumption DEF Init, TypeOK, NoLock, NoPermit, NoCall, Permit, Call,
     Lockables, Instances, Gens, Places
<1>2. Shape /\ LockOK
  BY CacheAssumption DEF Init, Shape, LockOK, NoLock, NoPermit, NoCall, Idle
<1>3. HoldsBalance
  <2> SUFFICES ASSUME NEW t \in Threads, NEW l \in Lockables
               PROVE  /\ WriteHolds(l, t) = 0 /\ ReadHolds(l, t) = 0
                      /\ ~Upgrading(t, l)
                      /\ Making(t, l, {"wrFetch", "wrTake"}) = 0
                      /\ Making(t, l, {"rdFetch"}) = 0
                      /\ PermitsOn(t, l, "read") = {} /\ PermitsOn(t, l, "write") = {}
    BY FS_EmptySet DEF HoldsBalance, Balanced
  <2> QED
    BY CacheAssumption DEF Init, WriteHolds, ReadHolds, NoLock, NoPermit, Upgrading,
       Making, PermitsOn
<1> QED
  BY <1>1, <1>2, <1>3 DEF BalanceInv

\* Steps of a thread that touch neither a lock nor a permit, and neither begin
\* nor end an upgrade or the making of a permit.
LEMMA QuietBalance ==
  ASSUME BalanceInv, UNCHANGED <<lock, permits>>,
         TypeOK', Shape', NEW t \in Threads,
         \A u \in Threads \ {t} : pc'[u] = pc[u] /\ call'[u] = call[u],
         \/ /\ pc[t] \notin {"wrLock", "relock", "wrFetch", "wrTake", "rdFetch"}
            /\ pc'[t] \notin {"wrLock", "relock", "wrFetch", "wrTake", "rdFetch"}
         \/ /\ {pc[t], pc'[t]} \subseteq {"wrLock", "relock"}
            /\ call'[t] = call[t]
         \/ /\ {pc[t], pc'[t]} \subseteq {"wrFetch", "wrTake"}
            /\ call'[t].lk = call[t].lk
         \/ pc'[t] = pc[t] /\ call'[t] = call[t]
  PROVE  BalanceInv'
<1>1. LockOK'
  BY DEF BalanceInv, LockOK
<1>2. ASSUME NEW u \in Threads, NEW l \in Lockables
      PROVE  /\ WriteHolds(l, u)' = WriteHolds(l, u) /\ ReadHolds(l, u)' = ReadHolds(l, u)
             /\ Upgrading(u, l)' <=> Upgrading(u, l)
             /\ Upgrading(u, l) => call'[u].reads = call[u].reads
             /\ Making(u, l, {"wrFetch", "wrTake"})' = Making(u, l, {"wrFetch", "wrTake"})
             /\ Making(u, l, {"rdFetch"})' = Making(u, l, {"rdFetch"})
             /\ PermitsOn(u, l, "read")' = PermitsOn(u, l, "read")
             /\ PermitsOn(u, l, "write")' = PermitsOn(u, l, "write")
  BY DEF WriteHolds, ReadHolds, Upgrading, Making, PermitsOn
<1>3. ASSUME NEW u \in Threads, NEW l \in Lockables PROVE Balanced(u, l)'
  <2>1. Balanced(u, l)
    BY DEF BalanceInv, HoldsBalance
  <2>2. WriteHolds(l, u)' = Cardinality(PermitsOn(u, l, "write")')
                            + Making(u, l, {"wrFetch", "wrTake"})'
    BY <1>2, <2>1 DEF Balanced
  <2>3. CASE Upgrading(u, l)
    BY <1>2, <2>1, <2>2, <2>3 DEF Balanced
  <2>4. CASE ~Upgrading(u, l)
    BY <1>2, <2>1, <2>2, <2>4 DEF Balanced
  <2> QED
    BY <2>3, <2>4
<1>4. HoldsBalance'
  BY <1>3 DEF HoldsBalance
<1> QED
  BY <1>1, <1>4 DEF BalanceInv

LEMMA ReadLockedBalance ==
  ASSUME BalanceInv, NEW t \in Threads, ReadLocked(t)
  PROVE  BalanceInv'
<1> DEFINE l == call[t].lk
<1>0. l \in Lockables
  BY DEF BalanceInv, Shape, ReadLocked, Idle
<1>1. l \in Lockables /\ ReadHolds(l, t) + 1 \in Nat
  BY <1>0 DEF BalanceInv, TypeOK, ReadHolds
<1>2. /\ lock' \in [Lockables -> LockType]
      /\ \A m \in Lockables : /\ lock'[m].writer = lock[m].writer
                              /\ lock'[m].wholds = lock[m].wholds
      /\ \A m \in Lockables : \A u \in Threads :
           /\ WriteHolds(m, u)' = WriteHolds(m, u)
           /\ ReadHolds(m, u)' = IF m = l /\ u = t THEN ReadHolds(l, t) + 1
                                 ELSE ReadHolds(m, u)
  BY <1>1, SetReadsHolds DEF BalanceInv, ReadLocked
<1>3. TypeOK'
  BY <1>2 DEF BalanceInv, ReadLocked, TypeOK, LockType, Places, history
<1>4. Shape' /\ LockOK'
  BY <1>2 DEF BalanceInv, ReadLocked, Shape, Idle, LockOK, TypeOK
<1>5. HoldsBalance'
  <2> SUFFICES ASSUME NEW u \in Threads, NEW m \in Lockables
               PROVE  Balanced(u, m)'
    BY DEF HoldsBalance
  <2>1. \A kind : PermitsOn(u, m, kind)' = PermitsOn(u, m, kind)
    BY PermitsSame DEF ReadLocked
  <2>2. /\ Cardinality(PermitsOn(u, m, "read")) \in Nat
        /\ Cardinality(PermitsOn(u, m, "write")) \in Nat
    BY PermitsFinite
  <2> QED
    BY <1>2, <2>1, <2>2 DEF BalanceInv, HoldsBalance, Balanced, ReadLocked, Making, Upgrading, TypeOK
<1> QED
  BY <1>3, <1>4, <1>5 DEF BalanceInv

\* The counts of permits are natural numbers.
LEMMA PermitsNat ==
  \A u, m, kind : Cardinality(PermitsOn(u, m, kind)) \in Nat
  BY PermitsFinite

\* A constructor returns a permit.
LEMMA Granted ==
  ASSUME TypeOK, Shape, NEW t \in Threads, NEW s \in Slots, NEW p \in Permit,
         p.kind \in {"read", "write"}, p.id \in Contexts, p.lk \in Lockables,
         Grant(t, s, p)
  PROVE  /\ permits' \in [Threads -> [Slots -> Permit]]
         /\ pc' \in [Threads -> Places]
         /\ call' \in [Threads -> Call]
         /\ Shape'
         /\ pc'[t] = "work" /\ call'[t] = NoCall
         /\ \A u \in Threads \ {t} : pc'[u] = pc[u] /\ call'[u] = call[u]
         /\ \A u \in Threads : \A m \in Lockables : \A kind \in {"read", "write"} :
              Cardinality(PermitsOn(u, m, kind)') =
                Cardinality(PermitsOn(u, m, kind))
                + IF u = t /\ m = p.lk /\ kind = p.kind THEN 1 ELSE 0
<1>1. /\ permits[t][s].kind = "none"
      /\ permits' = [permits EXCEPT ![t][s] = p]
      /\ pc' = [pc EXCEPT ![t] = "work"]
      /\ call' = [call EXCEPT ![t] = NoCall]
  BY DEF Grant, FreeSlot
<1>2. permits' \in [Threads -> [Slots -> Permit]] /\ pc' \in [Threads -> Places]
  BY <1>1 DEF TypeOK, Places
<1>3. call' \in [Threads -> Call]
  BY <1>1 DEF TypeOK, NoCall, Call
<1>4. ASSUME NEW u \in Threads, NEW m \in Lockables, NEW kind \in {"read", "write"}
      PROVE  Cardinality(PermitsOn(u, m, kind)') =
               Cardinality(PermitsOn(u, m, kind))
               + IF u = t /\ m = p.lk /\ kind = p.kind THEN 1 ELSE 0
  <2>1. Cardinality(PermitsOn(u, m, kind)) \in Nat
    BY PermitsFinite
  <2>2. CASE u = t /\ m = p.lk /\ kind = p.kind
    <3>1. PermitsOn(u, m, kind)' = PermitsOn(u, m, kind) \cup {s}
      BY <1>1, <2>2 DEF PermitsOn, TypeOK, Permit
    <3>2. s \notin PermitsOn(u, m, kind)
      BY <1>1, <2>2 DEF PermitsOn
    <3>3. IsFiniteSet(PermitsOn(u, m, kind))
      BY PermitsFinite
    <3>4. Cardinality(PermitsOn(u, m, kind) \cup {s}) = Cardinality(PermitsOn(u, m, kind)) + 1
      BY <3>2, <3>3, FS_AddElement
    <3> QED
      BY <2>2, <3>1, <3>4
  <2>3. CASE ~(u = t /\ m = p.lk /\ kind = p.kind)
    <3>1. PermitsOn(u, m, kind)' = PermitsOn(u, m, kind)
      BY <1>1, <2>3 DEF PermitsOn, TypeOK, Permit
    <3> QED
      BY <2>1, <2>3, <3>1
  <2> QED
    BY <2>2, <2>3
<1>5. \A u \in Threads : \A r \in Slots :
        permits'[u][r] = IF u = t /\ r = s THEN p ELSE permits[u][r]
  BY <1>1 DEF TypeOK
<1>6. /\ pc'[t] = "work" /\ call'[t] = NoCall
      /\ \A u \in Threads \ {t} : pc'[u] = pc[u] /\ call'[u] = call[u]
  BY <1>1 DEF TypeOK
<1>7. Shape'
  BY <1>5, <1>6 DEF Shape, Idle
<1> QED
  BY <1>2, <1>3, <1>4, <1>6, <1>7

LEMMA ReadFetchedBalance ==
  ASSUME BalanceInv, NEW t \in Threads, ReadFetched(t)
  PROVE  BalanceInv'
<1> DEFINE p == [kind |-> "read", id |-> call[t].id, lk |-> call[t].lk,
                 ctx |-> IF writable[call[t].lk] # None
                         THEN writable[call[t].lk] ELSE cache[call[t].id]]
<1>1. PICK s \in Slots : Grant(t, s, p)
  BY DEF ReadFetched
<1>2. /\ p \in Permit /\ p.kind = "read" /\ p.id \in Contexts
      /\ p.lk = call[t].lk /\ p.lk \in Lockables
  BY DEF BalanceInv, Shape, TypeOK, ReadFetched, Idle, Permit
<1> HIDE DEF p
<1>3. /\ permits' \in [Threads -> [Slots -> Permit]]
      /\ pc' \in [Threads -> Places]
      /\ call' \in [Threads -> Call]
      /\ Shape'
      /\ pc'[t] = "work" /\ call'[t] = NoCall
      /\ \A u \in Threads \ {t} : pc'[u] = pc[u] /\ call'[u] = call[u]
      /\ \A u \in Threads : \A m \in Lockables : \A kind \in {"read", "write"} :
           Cardinality(PermitsOn(u, m, kind)') =
             Cardinality(PermitsOn(u, m, kind))
             + IF u = t /\ m = p.lk /\ kind = p.kind THEN 1 ELSE 0
  BY <1>1, <1>2, Granted DEF BalanceInv
<1>4. TypeOK' /\ LockOK'
  BY <1>3 DEF BalanceInv, ReadFetched, TypeOK, LockOK, history
<1>5. HoldsBalance'
  <2> SUFFICES ASSUME NEW u \in Threads, NEW m \in Lockables
               PROVE  Balanced(u, m)'
    BY DEF HoldsBalance
  <2>1. Balanced(u, m) /\ WriteHolds(m, u)' = WriteHolds(m, u)
                       /\ ReadHolds(m, u)' = ReadHolds(m, u)
    BY DEF BalanceInv, HoldsBalance, ReadFetched, WriteHolds, ReadHolds
  <2>2. pc[t] = "rdFetch"
    BY DEF ReadFetched
  <2>3. CASE u = t
    BY <1>2, <1>3, <2>1, <2>2, <2>3, PermitsNat, CacheAssumption
    DEF Balanced, Making, Upgrading
  <2>4. CASE u # t
    BY <1>3, <2>1, <2>4, PermitsNat DEF Balanced, Making, Upgrading
  <2> QED
    BY <2>3, <2>4
<1> QED
  BY <1>3, <1>4, <1>5 DEF BalanceInv

LEMMA GetReadWriteBalance ==
  ASSUME BalanceInv, NEW t \in Threads, NEW c \in Contexts, GetReadWrite(t, c)
  PROVE  BalanceInv'
<1> DEFINE l == lockables[c]
<1>0. /\ pc[t] = "work" /\ call[t] = NoCall
      /\ UNCHANGED <<lockables, cache, writable, permits, edited, stale>>
      /\ calls[t] < MaxCalls /\ calls' = [calls EXCEPT ![t] = @ + 1]
  BY DEF BalanceInv, Shape, Idle, GetReadWrite, CallCache, history
<1>9. calls' \in [Threads -> 0..MaxCalls]
  BY <1>0, CacheAssumption DEF BalanceInv, TypeOK
<1>1. CASE l # None /\ pc' = [pc EXCEPT ![t] = "wrLock"]
           /\ call' = [call EXCEPT ![t] = [NoCall EXCEPT !.id = c, !.lk = l,
                                                         !.reads = ReadHolds(l, t)]]
           /\ lock' = SetReads(l, t, 0)
  <2>1. l \in Lockables /\ ReadHolds(l, t) \in Nat
    BY <1>1 DEF BalanceInv, TypeOK, ReadHolds
  <2>2. /\ lock' \in [Lockables -> LockType]
        /\ \A m \in Lockables : /\ lock'[m].writer = lock[m].writer
                                /\ lock'[m].wholds = lock[m].wholds
        /\ \A m \in Lockables : \A u \in Threads :
             /\ WriteHolds(m, u)' = WriteHolds(m, u)
             /\ ReadHolds(m, u)' = IF m = l /\ u = t THEN 0 ELSE ReadHolds(m, u)
    BY <1>1, <2>1, SetReadsHolds DEF BalanceInv
  <2>3. call'[t] = [id |-> c, lk |-> l, ctx |-> None, reads |-> ReadHolds(l, t)]
    BY <1>1 DEF BalanceInv, TypeOK, NoCall
  <2>4. TypeOK'
    <3>1. call' \in [Threads -> Call]
      BY <1>1, <2>1 DEF BalanceInv, TypeOK, NoCall, Call
    <3> QED
      BY <1>0, <1>1, <1>9, <2>2, <3>1 DEF BalanceInv, TypeOK, LockType, Places
  <2>5. Shape' /\ LockOK'
    BY <1>0, <1>1, <2>1, <2>2, <2>3 DEF BalanceInv, Shape, Idle, LockOK, TypeOK
  <2>6. HoldsBalance'
    <3> SUFFICES ASSUME NEW u \in Threads, NEW m \in Lockables
                 PROVE  Balanced(u, m)'
      BY DEF HoldsBalance
    <3>1. \A kind : PermitsOn(u, m, kind)' = PermitsOn(u, m, kind)
      BY <1>0, PermitsSame
    <3>2. Balanced(u, m) /\ ReadHolds(m, u) \in Nat
      BY DEF BalanceInv, HoldsBalance, TypeOK, ReadHolds
    <3>3. u = t => /\ pc'[u] = "wrLock" /\ ~Upgrading(u, m)
                   /\ Making(u, m, {"rdFetch"}) = 0
                   /\ Making(u, m, {"wrFetch", "wrTake"}) = 0
                   /\ Making(u, m, {"rdFetch"})' = 0
                   /\ Making(u, m, {"wrFetch", "wrTake"})' = 0
                   /\ Upgrading(u, m)' <=> m = l
      BY <1>0, <1>1, <2>3 DEF Making, Upgrading, BalanceInv, TypeOK
    <3>4. u # t => pc'[u] = pc[u] /\ call'[u] = call[u]
      BY <1>1 DEF BalanceInv, TypeOK
    <3>5. CASE u = t
      BY <2>2, <2>3, <3>1, <3>2, <3>3, <3>5, PermitsNat DEF Balanced
    <3>6. CASE u # t
      BY <2>2, <3>1, <3>2, <3>4, <3>6 DEF Balanced, Making, Upgrading
    <3> QED
      BY <3>5, <3>6
  <2> QED
    BY <2>4, <2>5, <2>6 DEF BalanceInv
<1>2. CASE /\ pc' = [pc EXCEPT ![t] = "create"]
           /\ call' = [call EXCEPT ![t] = [NoCall EXCEPT !.id = c]]
           /\ UNCHANGED lock
  <2>1. call'[t] = [id |-> c, lk |-> None, ctx |-> None, reads |-> 0]
    BY <1>2 DEF BalanceInv, TypeOK, NoCall
  <2>2. TypeOK'
    BY <1>0, <1>2, <1>9, CacheAssumption DEF BalanceInv, TypeOK, NoCall, Call, Places
  <2>3. Shape'
    BY <1>0, <1>2, <2>1 DEF BalanceInv, Shape, Idle, TypeOK
  <2> QED
    BY <1>0, <1>2, <2>2, <2>3, QuietBalance DEF BalanceInv, TypeOK
<1> QED
  BY <1>1, <1>2 DEF GetReadWrite

LEMMA WriteLockedBalance ==
  ASSUME BalanceInv, NEW t \in Threads, WriteLocked(t)
  PROVE  BalanceInv'
<1> DEFINE l == call[t].lk
           n == call[t].reads
<1>1. /\ l \in Lockables /\ n \in Nat /\ call[t].id \in Contexts
      /\ pc[t] = "wrLock" /\ lock[l].writer \in {None, t}
      /\ lock' = WithWriteLock(l, t, n)
      /\ UNCHANGED <<lockables, cache, writable, calls, edited, stale>>
  BY DEF BalanceInv, Shape, TypeOK, Call, WriteLocked, Idle, CanWrite, history
<1>2. /\ lock' \in [Lockables -> LockType]
      /\ LockOK'
      /\ \A m \in Lockables : \A u \in Threads :
           /\ WriteHolds(m, u)' = WriteHolds(m, u) + IF m = l /\ u = t THEN 1 ELSE 0
           /\ ReadHolds(m, u)' = IF m = l /\ u = t THEN n ELSE ReadHolds(m, u)
  BY <1>1, WithWriteLockHolds DEF BalanceInv
<1>3. \A u \in Threads : \A m \in Lockables :
        Balanced(u, m) /\ WriteHolds(m, u) \in Nat /\ ReadHolds(m, u) \in Nat
  BY DEF BalanceInv, HoldsBalance, TypeOK, WriteHolds, ReadHolds
<1>4. CASE writable[l] # None
  <2> DEFINE p == WritePermit(t, writable[l])
  <2>1. PICK s \in Slots : Grant(t, s, p)
    BY <1>4 DEF WriteLocked
  <2>2. p \in Permit /\ p.kind = "write" /\ p.id \in Contexts /\ p.lk = l
    BY <1>1, <1>4 DEF WritePermit, Permit, BalanceInv, TypeOK
  <2> HIDE DEF p
  <2>3. /\ permits' \in [Threads -> [Slots -> Permit]]
        /\ pc' \in [Threads -> Places]
        /\ call' \in [Threads -> Call]
        /\ Shape'
        /\ pc'[t] = "work" /\ call'[t] = NoCall
        /\ \A u \in Threads \ {t} : pc'[u] = pc[u] /\ call'[u] = call[u]
        /\ \A u \in Threads : \A m \in Lockables : \A kind \in {"read", "write"} :
             Cardinality(PermitsOn(u, m, kind)') =
               Cardinality(PermitsOn(u, m, kind))
               + IF u = t /\ m = p.lk /\ kind = p.kind THEN 1 ELSE 0
    BY <1>1, <2>1, <2>2, Granted DEF BalanceInv
  <2>4. TypeOK'
    BY <1>1, <1>2, <2>3 DEF BalanceInv, TypeOK, LockType
  <2>5. ASSUME NEW u \in Threads, NEW m \in Lockables
        PROVE  Balanced(u, m)'
    <3>1. CASE u = t
      BY <1>1, <1>2, <1>3, <2>2, <2>3, <3>1, PermitsNat, CacheAssumption
      DEF Balanced, Making, Upgrading
    <3>2. CASE u # t
      BY <1>2, <1>3, <2>3, <3>2, PermitsNat DEF Balanced, Making, Upgrading
    <3> QED
      BY <3>1, <3>2
  <2> QED
    BY <1>2, <2>3, <2>4, <2>5 DEF BalanceInv, HoldsBalance
<1>5. CASE writable[l] = None
  <2>1. pc' = [pc EXCEPT ![t] = "wrFetch"] /\ UNCHANGED <<permits, call>>
    BY <1>5 DEF WriteLocked
  <2>2. TypeOK'
    BY <1>1, <1>2, <2>1 DEF BalanceInv, TypeOK, LockType, Places
  <2>3. Shape'
    BY <1>1, <2>1 DEF BalanceInv, Shape, Idle, TypeOK
  <2>4. ASSUME NEW u \in Threads, NEW m \in Lockables
        PROVE  Balanced(u, m)'
    <3>1. \A kind : PermitsOn(u, m, kind)' = PermitsOn(u, m, kind)
      BY <2>1, PermitsSame
    <3>2. pc'[t] = "wrFetch" /\ \A v \in Threads \ {t} : pc'[v] = pc[v]
      BY <2>1 DEF BalanceInv, TypeOK
    <3>3. CASE u = t
      BY <1>1, <1>2, <1>3, <2>1, <3>1, <3>2, <3>3, PermitsNat
      DEF Balanced, Making, Upgrading
    <3>4. CASE u # t
      BY <1>2, <1>3, <2>1, <3>1, <3>2, <3>4, PermitsNat DEF Balanced, Making, Upgrading
    <3> QED
      BY <3>3, <3>4
  <2> QED
    BY <1>2, <2>2, <2>3, <2>4 DEF BalanceInv, HoldsBalance
<1> QED
  BY <1>4, <1>5

LEMMA WriteTimedOutBalance ==
  ASSUME BalanceInv, NEW t \in Threads, WriteTimedOut(t)
  PROVE  BalanceInv'
<1>1. CASE call[t].reads # 0
  <2>1. /\ pc[t] = "wrLock" /\ pc' = [pc EXCEPT ![t] = "relock"] /\ UNCHANGED call
        /\ UNCHANGED <<lockables, cache, lock, writable, permits, calls, edited, stale>>
    BY <1>1 DEF WriteTimedOut, history
  <2>2. TypeOK' /\ Shape'
    BY <2>1 DEF BalanceInv, TypeOK, Shape, Idle, Places
  <2> QED
    BY <2>1, <2>2, QuietBalance DEF BalanceInv, TypeOK
<1>2. CASE call[t].reads = 0
  <2>1. /\ pc[t] = "wrLock" /\ pc' = [pc EXCEPT ![t] = "work"]
        /\ call' = [call EXCEPT ![t] = NoCall]
        /\ UNCHANGED <<lockables, cache, lock, writable, permits, calls, edited, stale>>
    BY <1>2 DEF WriteTimedOut, GiveUp, history
  <2>2. pc'[t] = "work" /\ call'[t] = NoCall
        /\ \A v \in Threads \ {t} : pc'[v] = pc[v] /\ call'[v] = call[v]
    BY <2>1 DEF BalanceInv, TypeOK
  <2>3. TypeOK'
    BY <2>1 DEF BalanceInv, TypeOK, Places, NoCall, Call
  <2>4. Shape' /\ LockOK'
    BY <2>1, <2>2 DEF BalanceInv, Shape, Idle, LockOK
  <2>5. ASSUME NEW u \in Threads, NEW m \in Lockables
        PROVE  Balanced(u, m)'
    <3>1. \A kind : PermitsOn(u, m, kind)' = PermitsOn(u, m, kind)
      BY <2>1, PermitsSame
    <3>2. /\ Balanced(u, m) /\ WriteHolds(m, u)' = WriteHolds(m, u)
          /\ ReadHolds(m, u)' = ReadHolds(m, u)
      BY <2>1 DEF BalanceInv, HoldsBalance, WriteHolds, ReadHolds
    <3> QED
      BY <1>2, <2>1, <2>2, <3>1, <3>2, PermitsNat DEF Balanced, Making, Upgrading
  <2> QED
    BY <2>3, <2>4, <2>5 DEF BalanceInv, HoldsBalance
<1> QED
  BY <1>1, <1>2

LEMMA RelockedBalance ==
  ASSUME BalanceInv, NEW t \in Threads, Relocked(t)
  PROVE  BalanceInv'
<1> DEFINE l == call[t].lk
           n == call[t].reads
<1>1. /\ l \in Lockables /\ n \in Nat /\ pc[t] = "relock"
      /\ lock' = SetReads(l, t, n)
      /\ pc' = [pc EXCEPT ![t] = "work"] /\ call' = [call EXCEPT ![t] = NoCall]
      /\ UNCHANGED <<lockables, cache, writable, permits, calls, edited, stale>>
  BY DEF BalanceInv, Shape, TypeOK, Call, Relocked, GiveUp, Idle, history
<1>2. /\ lock' \in [Lockables -> LockType]
      /\ \A m \in Lockables : /\ lock'[m].writer = lock[m].writer
                              /\ lock'[m].wholds = lock[m].wholds
      /\ \A m \in Lockables : \A u \in Threads :
           /\ WriteHolds(m, u)' = WriteHolds(m, u)
           /\ ReadHolds(m, u)' = IF m = l /\ u = t THEN n ELSE ReadHolds(m, u)
  BY <1>1, SetReadsHolds DEF BalanceInv
<1>3. pc'[t] = "work" /\ call'[t] = NoCall
      /\ \A v \in Threads \ {t} : pc'[v] = pc[v] /\ call'[v] = call[v]
  BY <1>1 DEF BalanceInv, TypeOK
<1>4. TypeOK'
  BY <1>1, <1>2 DEF BalanceInv, TypeOK, LockType, Places, NoCall, Call
<1>5. Shape' /\ LockOK'
  BY <1>1, <1>2, <1>3 DEF BalanceInv, Shape, Idle, LockOK
<1>6. ASSUME NEW u \in Threads, NEW m \in Lockables
      PROVE  Balanced(u, m)'
  <2>1. \A kind : PermitsOn(u, m, kind)' = PermitsOn(u, m, kind)
    BY <1>1, PermitsSame
  <2>2. Balanced(u, m)
    BY DEF BalanceInv, HoldsBalance
  <2> QED
    BY <1>1, <1>2, <1>3, <2>1, <2>2, PermitsNat DEF Balanced, Making, Upgrading
<1> QED
  BY <1>4, <1>5, <1>6 DEF BalanceInv, HoldsBalance

LEMMA NewLockedBalance ==
  ASSUME BalanceInv, NEW t \in Threads, NewLocked(t)
  PROVE  BalanceInv'
<1> DEFINE l == call[t].lk
           n == ReadHolds(l, t)
<1>1. /\ l \in Lockables /\ n \in Nat
      /\ pc[t] = "newLock" /\ lock[l].writer \in {None, t}
      /\ lock' = WithWriteLock(l, t, n)
      /\ pc' = [pc EXCEPT ![t] = "wrFetch"]
      /\ UNCHANGED <<lockables, cache, writable, permits, call, calls, edited, stale>>
  BY DEF BalanceInv, Shape, TypeOK, NewLocked, Idle, CanWrite, ReadHolds, history
<1>2. /\ lock' \in [Lockables -> LockType]
      /\ LockOK'
      /\ \A m \in Lockables : \A u \in Threads :
           /\ WriteHolds(m, u)' = WriteHolds(m, u) + IF m = l /\ u = t THEN 1 ELSE 0
           /\ ReadHolds(m, u)' = IF m = l /\ u = t THEN n ELSE ReadHolds(m, u)
  BY <1>1, WithWriteLockHolds DEF BalanceInv
<1>3. TypeOK'
  BY <1>1, <1>2 DEF BalanceInv, TypeOK, LockType, Places
<1>4. Shape'
  BY <1>1 DEF BalanceInv, Shape, Idle, TypeOK
<1>5. ASSUME NEW u \in Threads, NEW m \in Lockables
      PROVE  Balanced(u, m)'
  <2>1. \A kind : PermitsOn(u, m, kind)' = PermitsOn(u, m, kind)
    BY <1>1, PermitsSame
  <2>2. pc'[t] = "wrFetch" /\ \A v \in Threads \ {t} : pc'[v] = pc[v]
    BY <1>1 DEF BalanceInv, TypeOK
  <2>3. Balanced(u, m) /\ WriteHolds(m, u) \in Nat
    BY DEF BalanceInv, HoldsBalance, TypeOK, WriteHolds
  <2> QED
    BY <1>1, <1>2, <2>1, <2>2, <2>3, PermitsNat DEF Balanced, Making, Upgrading
<1> QED
  BY <1>2, <1>3, <1>4, <1>5 DEF BalanceInv, HoldsBalance

\* The constructor of a write permit is done: its hold becomes the permit's.
LEMMA TakeBalance ==
  ASSUME BalanceInv, NEW t \in Threads, NEW o \in Instances,
         pc[t] = "wrTake", Take(t, o), UNCHANGED <<lock, lockables, calls>>,
         cache' \in [Contexts -> Instances \cup {None}],
         edited' \subseteq Contexts, stale' \subseteq Instances
  PROVE  BalanceInv'
<1> DEFINE p == WritePermit(t, o)
<1>1. PICK s \in Slots : Grant(t, s, p)
  BY DEF Take
<1>2. p \in Permit /\ p.kind = "write" /\ p.id \in Contexts
      /\ p.lk = call[t].lk /\ p.lk \in Lockables
  BY DEF WritePermit, Permit, BalanceInv, Shape, Idle
<1> HIDE DEF p
<1>3. /\ permits' \in [Threads -> [Slots -> Permit]]
      /\ pc' \in [Threads -> Places]
      /\ call' \in [Threads -> Call]
      /\ Shape'
      /\ pc'[t] = "work" /\ call'[t] = NoCall
      /\ \A u \in Threads \ {t} : pc'[u] = pc[u] /\ call'[u] = call[u]
      /\ \A u \in Threads : \A m \in Lockables : \A kind \in {"read", "write"} :
           Cardinality(PermitsOn(u, m, kind)') =
             Cardinality(PermitsOn(u, m, kind))
             + IF u = t /\ m = p.lk /\ kind = p.kind THEN 1 ELSE 0
  BY <1>1, <1>2, Granted DEF BalanceInv
<1>4. writable' \in [Lockables -> Instances \cup {None}]
  BY DEF Take, BalanceInv, TypeOK
<1>5. TypeOK' /\ LockOK'
  BY <1>3, <1>4 DEF BalanceInv, TypeOK, LockOK
<1>6. ASSUME NEW u \in Threads, NEW m \in Lockables
      PROVE  Balanced(u, m)'
  <2>1. Balanced(u, m) /\ WriteHolds(m, u)' = WriteHolds(m, u)
                       /\ ReadHolds(m, u)' = ReadHolds(m, u)
    BY DEF BalanceInv, HoldsBalance, WriteHolds, ReadHolds
  <2>2. CASE u = t
    BY <1>2, <1>3, <2>1, <2>2, PermitsNat, CacheAssumption
    DEF Balanced, Making, Upgrading
  <2>3. CASE u # t
    BY <1>3, <2>1, <2>3, PermitsNat DEF Balanced, Making, Upgrading
  <2> QED
    BY <2>2, <2>3
<1> QED
  BY <1>3, <1>5, <1>6 DEF BalanceInv, HoldsBalance

LEMMA RevokeReadBalance ==
  ASSUME BalanceInv, NEW t \in Threads, NEW s \in Slots, RevokeRead(t, s)
  PROVE  BalanceInv'
<1> DEFINE l == permits[t][s].lk
           n == ReadHolds(l, t) - 1
<1>1. /\ pc[t] = "work" /\ permits[t][s].kind = "read"
      /\ lock' = SetReads(l, t, n)
      /\ permits' = [permits EXCEPT ![t][s] = NoPermit]
      /\ UNCHANGED <<lockables, cache, writable, pc, call, calls, edited, stale>>
  BY DEF RevokeRead, history
<1>2. \A v \in Threads : \A r \in Slots :
        permits'[v][r] = IF v = t /\ r = s THEN NoPermit ELSE permits[v][r]
  BY <1>1 DEF BalanceInv, TypeOK
<1>3. permits' \in [Threads -> [Slots -> Permit]]
  BY <1>1 DEF BalanceInv, TypeOK, NoPermit, Permit
<1>4. /\ \A u \in Threads : \A m \in Lockables : \A kind \in {"read", "write"} :
           Cardinality(PermitsOn(u, m, kind)') =
             Cardinality(PermitsOn(u, m, kind))
             - IF u = t /\ m = l /\ kind = "read" THEN 1 ELSE 0
      /\ Cardinality(PermitsOn(t, l, "read")) # 0
  BY <1>1, <1>2, PermitDropped DEF BalanceInv, NoPermit
<1>5. l \in Lockables
  BY <1>1 DEF BalanceInv, Shape
<1>6. n \in Nat
  <2>1. Balanced(t, l) /\ ~Upgrading(t, l)
    BY <1>1, <1>5 DEF BalanceInv, HoldsBalance, Upgrading
  <2> QED
    BY <1>1, <1>4, <2>1, PermitsNat DEF Balanced, Making
<1> HIDE DEF n
<1>7. /\ lock' \in [Lockables -> LockType]
      /\ \A m \in Lockables : /\ lock'[m].writer = lock[m].writer
                              /\ lock'[m].wholds = lock[m].wholds
      /\ \A m \in Lockables : \A u \in Threads :
           /\ WriteHolds(m, u)' = WriteHolds(m, u)
           /\ ReadHolds(m, u)' = IF m = l /\ u = t THEN n ELSE ReadHolds(m, u)
  BY <1>1, <1>5, <1>6, SetReadsHolds DEF BalanceInv
<1>8. TypeOK' /\ LockOK'
  BY <1>1, <1>3, <1>7 DEF BalanceInv, TypeOK, LockOK, LockType
<1>9. Shape'
  BY <1>1, <1>2 DEF BalanceInv, Shape, NoPermit
<1>10. ASSUME NEW u \in Threads, NEW m \in Lockables
       PROVE  Balanced(u, m)'
  <2>1. Balanced(u, m) /\ ReadHolds(m, u) \in Nat
    BY DEF BalanceInv, HoldsBalance, TypeOK, ReadHolds
  <2> QED
    BY <1>1, <1>4, <1>7, <2>1, PermitsNat DEF Balanced, Making, Upgrading, n
<1> QED
  BY <1>8, <1>9, <1>10 DEF BalanceInv, HoldsBalance

LEMMA RevokeWriteBalance ==
  ASSUME BalanceInv, NEW t \in Threads, NEW s \in Slots, RevokeWrite(t, s)
  PROVE  BalanceInv'
<1> DEFINE p == permits[t][s]
           l == permits[t][s].lk
<1>1. /\ pc[t] = "work" /\ p.kind = "write" /\ p \in Permit
      /\ l \in Lockables /\ p.id \in Contexts
      /\ lock' = WriteUnlocked(l)
      /\ UNCHANGED <<lockables, pc, call, calls, edited, stale>>
  BY DEF RevokeWrite, BalanceInv, Shape, TypeOK, history
<1>2. /\ permits' \in [Threads -> [Slots -> Permit]]
      /\ writable' \in [Lockables -> Instances \cup {None}]
      /\ cache' \in [Contexts -> Instances \cup {None}]
      /\ \A v \in Threads : \A r \in Slots :
           IF v = t /\ r = s
           THEN permits'[v][r] = NoPermit
           ELSE /\ permits'[v][r].kind = permits[v][r].kind
                /\ permits'[v][r].id = permits[v][r].id
                /\ permits'[v][r].lk = permits[v][r].lk
                /\ permits[v][r].kind = "none" => permits'[v][r] = permits[v][r]
  <2>1. CASE WriteHolds(l, t) = 1
    <3>1. /\ permits' = [Refreshed(l, p.ctx) EXCEPT ![t][s] = NoPermit]
          /\ writable' = [writable EXCEPT ![l] = None]
          /\ cache' = [cache EXCEPT ![p.id] = p.ctx]
      BY <2>1 DEF RevokeWrite
    <3>2. Refreshed(l, p.ctx) \in [Threads -> [Slots -> Permit]]
      <4>1. p.ctx \in Instances \cup {None}
        BY <1>1 DEF Permit
      <4>2. \A v \in Threads : \A r \in Slots : permits[v][r] \in Permit
        BY DEF BalanceInv, TypeOK
      <4>3. \A q \in Permit : [q EXCEPT !.ctx = p.ctx] \in Permit
        BY <4>1 DEF Permit
      <4> QED
        BY <4>2, <4>3 DEF Refreshed
    <3>3. \A v \in Threads : \A r \in Slots :
            /\ Refreshed(l, p.ctx)[v][r].kind = permits[v][r].kind
            /\ Refreshed(l, p.ctx)[v][r].id = permits[v][r].id
            /\ Refreshed(l, p.ctx)[v][r].lk = permits[v][r].lk
            /\ permits[v][r].kind = "none" => Refreshed(l, p.ctx)[v][r] = permits[v][r]
      BY DEF Refreshed, BalanceInv, TypeOK, Permit
    <3>4. NoPermit \in Permit
      BY DEF NoPermit, Permit
    <3>5. \A v \in Threads : \A r \in Slots :
            permits'[v][r] = IF v = t /\ r = s THEN NoPermit ELSE Refreshed(l, p.ctx)[v][r]
      BY <3>1, <3>2
    <3>6. permits' \in [Threads -> [Slots -> Permit]]
      BY <3>1, <3>2, <3>4
    <3>7. p.ctx \in Instances \cup {None}
      BY <1>1 DEF Permit
    <3>8. /\ writable' \in [Lockables -> Instances \cup {None}]
          /\ cache' \in [Contexts -> Instances \cup {None}]
      BY <1>1, <3>1, <3>7 DEF BalanceInv, TypeOK
    <3> QED
      BY <3>3, <3>5, <3>6, <3>8
  <2>2. CASE WriteHolds(l, t) # 1
    <3>1. permits' = [permits EXCEPT ![t][s] = NoPermit] /\ UNCHANGED <<writable, cache>>
      BY <2>2 DEF RevokeWrite
    <3> QED
      BY <3>1 DEF BalanceInv, TypeOK, NoPermit, Permit
  <2> QED
    BY <2>1, <2>2
<1>3. /\ \A u \in Threads : \A m \in Lockables : \A kind \in {"read", "write"} :
           Cardinality(PermitsOn(u, m, kind)') =
             Cardinality(PermitsOn(u, m, kind))
             - IF u = t /\ m = l /\ kind = "write" THEN 1 ELSE 0
      /\ Cardinality(PermitsOn(t, l, "write")) # 0
  BY <1>1, <1>2, PermitDropped DEF BalanceInv, NoPermit
<1>4. WriteHolds(l, t) # 0
  BY <1>1, <1>3, PermitsNat DEF BalanceInv, HoldsBalance, Balanced, Making
<1>5. /\ lock' \in [Lockables -> LockType]
      /\ LockOK'
      /\ \A m \in Lockables : \A u \in Threads :
           /\ WriteHolds(m, u)' = WriteHolds(m, u) - IF m = l /\ u = t THEN 1 ELSE 0
           /\ ReadHolds(m, u)' = ReadHolds(m, u)
  BY <1>1, <1>4, WriteUnlockedHolds DEF BalanceInv
<1>6. TypeOK'
  BY <1>1, <1>2, <1>5 DEF BalanceInv, TypeOK, LockType
<1>7. Shape'
  <2>1. ASSUME NEW v \in Threads, NEW r \in Slots
        PROVE  /\ permits'[v][r].kind = "none" => permits'[v][r] = NoPermit
               /\ permits'[v][r].kind # "none" => /\ permits'[v][r].id \in Contexts
                                                  /\ permits'[v][r].lk \in Lockables
    <3>1. CASE v = t /\ r = s
      BY <1>2, <3>1 DEF NoPermit
    <3>2. CASE ~(v = t /\ r = s)
      BY <1>2, <3>2 DEF BalanceInv, Shape
    <3> QED
      BY <3>1, <3>2
  <2> QED
    BY <1>1, <2>1 DEF BalanceInv, Shape
<1>8. ASSUME NEW u \in Threads, NEW m \in Lockables
      PROVE  Balanced(u, m)'
  <2>1. Balanced(u, m) /\ WriteHolds(m, u) \in Nat
    BY DEF BalanceInv, HoldsBalance, TypeOK, WriteHolds
  <2> QED
    BY <1>1, <1>3, <1>5, <2>1, PermitsNat DEF Balanced, Making, Upgrading
<1> QED
  BY <1>5, <1>6, <1>7, <1>8 DEF BalanceInv, HoldsBalance

\* A lock that no permit and no call refers to is free.
LEMMA UnusedLockFree ==
  ASSUME BalanceInv, NEW l \in Lockables, ~LockableInUse(l)
  PROVE  lock[l] = NoLock
<1>1. \A t \in Threads : WriteHolds(l, t) = 0 /\ ReadHolds(l, t) = 0
  <2> SUFFICES ASSUME NEW t \in Threads
               PROVE  WriteHolds(l, t) = 0 /\ ReadHolds(l, t) = 0
    OBVIOUS
  <2>1. PermitsOn(t, l, "read") = {} /\ PermitsOn(t, l, "write") = {}
    BY DEF LockableInUse, PermitsOn
  <2>2. call[t].lk # l
    BY DEF LockableInUse
  <2>3. /\ Cardinality(PermitsOn(t, l, "read")) = 0
        /\ Cardinality(PermitsOn(t, l, "write")) = 0
    BY <2>1, FS_EmptySet
  <2>4. ~Upgrading(t, l) /\ Making(t, l, {"wrFetch", "wrTake"}) = 0
        /\ Making(t, l, {"rdFetch"}) = 0
    BY <2>2 DEF Making, Upgrading
  <2>5. Balanced(t, l)
    BY DEF BalanceInv, HoldsBalance
  <2> QED
    BY <2>3, <2>4, <2>5 DEF Balanced
<1>2. lock[l].writer = None /\ lock[l].wholds = 0
  BY <1>1 DEF BalanceInv, LockOK, TypeOK, WriteHolds
<1>3. lock[l].rholds = [t \in Threads |-> 0]
  BY <1>1 DEF BalanceInv, TypeOK, ReadHolds
<1> QED
  BY <1>2, <1>3 DEF BalanceInv, TypeOK, NoLock

LEMMA LockableCreatedBalance ==
  ASSUME BalanceInv, NEW t \in Threads, LockableCreated(t)
  PROVE  BalanceInv'
<1>1. PICK l \in Lockables :
        /\ ~LockableInUse(l)
        /\ lockables' = [lockables EXCEPT ![call[t].id] = l]
        /\ call' = [call EXCEPT ![t].lk = l]
        /\ lock' = [lock EXCEPT ![l] = NoLock]
        /\ writable' = [writable EXCEPT ![l] = None]
  BY DEF LockableCreated, NewLockable
<1>2. /\ pc[t] = "create" /\ pc' = [pc EXCEPT ![t] = "newLock"]
      /\ UNCHANGED <<cache, permits, calls, edited, stale>>
  BY DEF LockableCreated, history
<1>3. lock' = lock
  BY <1>1, UnusedLockFree DEF BalanceInv, TypeOK
<1> DEFINE new == [call[t] EXCEPT !.lk = l]
<1>3a. /\ call' = [call EXCEPT ![t] = new] /\ new \in Call
       /\ new.id = call[t].id /\ new.lk = l
  BY <1>1 DEF BalanceInv, TypeOK, Call
<1>3b. call[t].id \in Contexts
  BY <1>2 DEF BalanceInv, Shape, Idle
<1> HIDE DEF new
<1>4. TypeOK'
  <2>1. lockables' \in [Contexts -> Lockables \cup {None}]
    BY <1>1 DEF BalanceInv, TypeOK
  <2>2. writable' \in [Lockables -> Instances \cup {None}]
    BY <1>1 DEF BalanceInv, TypeOK
  <2>3. call' \in [Threads -> Call] /\ pc' \in [Threads -> Places]
    BY <1>2, <1>3a DEF BalanceInv, TypeOK, Places
  <2> QED
    BY <1>2, <1>3, <2>1, <2>2, <2>3 DEF BalanceInv, TypeOK
<1>5. Shape'
  <2>1. \A u \in Threads : u # t => pc'[u] = pc[u] /\ call'[u] = call[u]
    BY <1>2, <1>3a DEF BalanceInv, TypeOK
  <2>2. pc'[t] = "newLock" /\ call'[t] = new
    BY <1>2, <1>3a DEF BalanceInv, TypeOK
  <2> QED
    BY <1>2, <1>3a, <1>3b, <2>1, <2>2 DEF BalanceInv, Shape, Idle
<1> QED
  BY <1>1, <1>2, <1>3, <1>4, <1>5, QuietBalance DEF BalanceInv, TypeOK

\* The steps that change no lock and no permit.
LEMMA StartFinishBalance ==
  ASSUME BalanceInv, NEW t \in Threads, Start(t) \/ Finish(t)
  PROVE  BalanceInv'
<1>1. CASE Start(t)
  <2>1. TypeOK' /\ Shape'
    BY <1>1 DEF BalanceInv, Start, TypeOK, Shape, Places, Idle, history
  <2> QED
    BY <1>1, <2>1, QuietBalance DEF Start, BalanceInv, TypeOK
<1>2. CASE Finish(t)
  <2>1. TypeOK' /\ Shape'
    BY <1>2, CacheAssumption DEF BalanceInv, Finish, TypeOK, Shape, Places, Idle, history
  <2> QED
    BY <1>2, <2>1, QuietBalance DEF Finish, BalanceInv, TypeOK
<1> QED
  BY <1>1, <1>2

LEMMA CallBegunBalance ==
  ASSUME BalanceInv, NEW t \in Threads, NEW c \in Contexts,
         GetReadOnly(t, c) \/ Remove(t, c)
  PROVE  BalanceInv'
<1> DEFINE new == [NoCall EXCEPT !.id = c, !.lk = lockables[c]]
<1>1. /\ pc[t] = "work"
      /\ calls[t] < MaxCalls /\ calls' = [calls EXCEPT ![t] = @ + 1]
      /\ \/ lockables[c] = None /\ UNCHANGED <<pc, call>>
         \/ /\ lockables[c] # None
            /\ \E q \in {"rdLock", "rmLock"} : pc' = [pc EXCEPT ![t] = q]
            /\ call' = [call EXCEPT ![t] = new]
      /\ UNCHANGED <<lockables, cache, lock, writable, permits, edited, stale>>
  BY DEF GetReadOnly, Remove, CallCache, history
<1>2. calls' \in [Threads -> 0..MaxCalls]
  BY <1>1, CacheAssumption DEF BalanceInv, TypeOK
<1>3. lockables[c] # None => /\ new \in Call /\ new.id = c
                             /\ new.lk = lockables[c] /\ new.lk \in Lockables
  BY DEF NoCall, Call, BalanceInv, TypeOK
<1> HIDE DEF new
<1>4. TypeOK'
  <2>1. pc' \in [Threads -> Places]
    BY <1>1 DEF BalanceInv, TypeOK, Places
  <2>2. call' \in [Threads -> Call]
    BY <1>1, <1>3 DEF BalanceInv, TypeOK
  <2> QED
    BY <1>1, <1>2, <2>1, <2>2 DEF BalanceInv, TypeOK
<1>5. Shape'
  <2>1. \A u \in Threads \ {t} : pc'[u] = pc[u] /\ call'[u] = call[u]
    BY <1>1 DEF BalanceInv, TypeOK
  <2>2. \/ pc'[t] = pc[t] /\ call'[t] = call[t]
        \/ pc'[t] \in {"rdLock", "rmLock"} /\ call'[t].id = c /\ call'[t].lk \in Lockables
    BY <1>1, <1>3 DEF BalanceInv, TypeOK
  <2> QED
    BY <1>1, <2>1, <2>2 DEF BalanceInv, Shape, Idle
<1> QED
  BY <1>1, <1>4, <1>5, QuietBalance DEF BalanceInv, TypeOK

LEMMA CallQuietBalance ==
  ASSUME BalanceInv, NEW t \in Threads,
         \/ ReadTimedOut(t) \/ WriteFetched(t)
         \/ Removed(t) \/ RemoveTimedOut(t) \/ LockableDropped(t)
  PROVE  BalanceInv'
<1>1. CASE ReadTimedOut(t)
  <2>1. TypeOK' /\ Shape'
    <3>1. NoCall \in Call
      BY DEF NoCall, Call
    <3>2. TypeOK'
      BY <1>1, <3>1 DEF BalanceInv, ReadTimedOut, GiveUp, TypeOK, Places, history
    <3>3. Shape'
      BY <1>1 DEF BalanceInv, ReadTimedOut, GiveUp, TypeOK, Shape, Idle, history
    <3> QED
      BY <3>2, <3>3
  <2> QED
    BY <1>1, <2>1, QuietBalance DEF ReadTimedOut, GiveUp, BalanceInv, TypeOK
<1>2. CASE WriteFetched(t)
  <2>1. call[t].id \in Contexts /\ cache[call[t].id] \in Instances \cup {None}
    BY <1>2 DEF WriteFetched, BalanceInv, Shape, Idle, TypeOK
  <2> DEFINE new == [call[t] EXCEPT !.ctx = cache[call[t].id]]
  <2>2. new \in Call /\ new.id = call[t].id /\ new.lk = call[t].lk
        /\ new.reads = call[t].reads
    BY <2>1 DEF BalanceInv, TypeOK, Call
  <2>3. call' = [call EXCEPT ![t] = new]
    BY <1>2 DEF WriteFetched
  <2> HIDE DEF new
  <2>3a. /\ pc[t] = "wrFetch" /\ pc' = [pc EXCEPT ![t] = "wrTake"]
         /\ UNCHANGED <<lockables, cache, lock, writable, permits, calls, edited, stale>>
    BY <1>2 DEF WriteFetched, history
  <2>4. TypeOK'
    <3>1. call' \in [Threads -> Call] /\ pc' \in [Threads -> Places]
      BY <2>2, <2>3, <2>3a DEF BalanceInv, TypeOK, Places
    <3> QED
      BY <2>3a, <3>1 DEF BalanceInv, TypeOK
  <2>5. Shape'
    <3>1. \A u \in Threads \ {t} : pc'[u] = pc[u] /\ call'[u] = call[u]
      BY <2>3, <2>3a DEF BalanceInv, TypeOK
    <3>2. pc'[t] = "wrTake" /\ call'[t] = new
      BY <2>3, <2>3a DEF BalanceInv, TypeOK
    <3>3. call[t].id \in Contexts /\ call[t].lk \in Lockables
      BY <2>3a DEF BalanceInv, Shape, Idle
    <3> QED
      BY <2>2, <2>3a, <3>1, <3>2, <3>3 DEF BalanceInv, Shape, Idle
  <2> QED
    BY <1>2, <2>2, <2>3, <2>4, <2>5, QuietBalance DEF WriteFetched, BalanceInv, TypeOK
<1>3. CASE Removed(t)
  <2>1. TypeOK'
    BY <1>3 DEF BalanceInv, Removed, TypeOK, Places
  <2>2. Shape'
    BY <1>3 DEF BalanceInv, Removed, TypeOK, Shape, Idle
  <2> QED
    BY <1>3, <2>1, <2>2, QuietBalance DEF Removed, BalanceInv, TypeOK
<1>4. CASE RemoveTimedOut(t)
  <2>1. TypeOK' /\ Shape'
    <3>1. TypeOK'
      BY <1>4 DEF BalanceInv, RemoveTimedOut, TypeOK, Places, history
    <3>2. Shape'
      BY <1>4 DEF BalanceInv, RemoveTimedOut, TypeOK, Shape, Idle, history
    <3> QED
      BY <3>1, <3>2
  <2> QED
    BY <1>4, <2>1, QuietBalance DEF RemoveTimedOut, BalanceInv, TypeOK
<1>5. CASE LockableDropped(t)
  <2>1. TypeOK' /\ Shape'
    <3>1. NoCall \in Call
      BY DEF NoCall, Call
    <3>2. TypeOK'
      BY <1>5, <3>1 DEF BalanceInv, LockableDropped, GiveUp, TypeOK, Places, history
    <3>3. Shape'
      BY <1>5 DEF BalanceInv, LockableDropped, GiveUp, TypeOK, Shape, Idle, history
    <3> QED
      BY <3>2, <3>3
  <2> QED
    BY <1>5, <2>1, QuietBalance DEF LockableDropped, GiveUp, BalanceInv, TypeOK
<1> QED
  BY <1>1, <1>2, <1>3, <1>4, <1>5

LEMMA ContextTakenBalance ==
  ASSUME BalanceInv, NEW t \in Threads, ContextTaken(t) \/ ContextCreated(t)
  PROVE  BalanceInv'
<1>1. CASE ContextTaken(t)
  <2>1. /\ pc[t] = "wrTake" /\ call[t].ctx \in Instances /\ Take(t, call[t].ctx)
        /\ cache' = [cache EXCEPT ![call[t].id] = None]
        /\ UNCHANGED <<lockables, lock, calls, edited, stale>>
    BY <1>1 DEF ContextTaken, BalanceInv, TypeOK, Call, history
  <2>2. cache' \in [Contexts -> Instances \cup {None}]
    BY <2>1 DEF BalanceInv, TypeOK
  <2> QED
    BY <2>1, <2>2, TakeBalance DEF BalanceInv, TypeOK
<1>2. CASE ContextCreated(t)
  <2>1. PICK o \in Instances :
          /\ Take(t, o)
          /\ stale' = IF call[t].id \in edited THEN stale \cup {o} ELSE stale \ {o}
    BY <1>2 DEF ContextCreated
  <2>2. pc[t] = "wrTake" /\ UNCHANGED <<lockables, cache, lock, calls, edited>>
    BY <1>2 DEF ContextCreated
  <2>3. stale' \subseteq Instances
    BY <2>1 DEF BalanceInv, TypeOK
  <2> QED
    BY <2>1, <2>2, <2>3, TakeBalance DEF BalanceInv, TypeOK
<1> QED
  BY <1>1, <1>2

LEMMA HistoryBalance ==
  ASSUME BalanceInv,
         \/ \E t \in Threads : \E s \in Slots : Edit(t, s)
         \/ \E c \in Contexts : Overflow(c)
         \/ UNCHANGED vars
  PROVE  BalanceInv'
<1>1. /\ UNCHANGED <<lockables, lock, writable, permits, pc, call, calls>>
      /\ cache' \in [Contexts -> Instances \cup {None}]
      /\ edited' \subseteq Contexts /\ stale' \subseteq Instances
  <2>1. CASE \E t \in Threads : \E s \in Slots : Edit(t, s)
    <3>1. PICK t \in Threads, s \in Slots : Edit(t, s)
      BY <2>1
    <3>2. permits[t][s].id \in Contexts
      BY <3>1 DEF Edit, BalanceInv, Shape
    <3> QED
      BY <3>1, <3>2 DEF Edit, BalanceInv, TypeOK, Instances
  <2>2. CASE \E c \in Contexts : Overflow(c)
    BY <2>2 DEF Overflow, BalanceInv, TypeOK
  <2>3. CASE UNCHANGED vars
    BY <2>3 DEF vars, BalanceInv, TypeOK
  <2> QED
    BY <2>1, <2>2, <2>3
<1>2. TypeOK' /\ Shape' /\ LockOK'
  BY <1>1 DEF BalanceInv, TypeOK, Shape, LockOK
<1>3. HoldsBalance'
  BY <1>1 DEF BalanceInv, HoldsBalance, Balanced, WriteHolds, ReadHolds, Making,
     Upgrading, PermitsOn
<1> QED
  BY <1>2, <1>3 DEF BalanceInv

LEMMA StepBalance ==
  ASSUME BalanceInv, [Next]_vars
  PROVE  BalanceInv'
<1>1. CASE \E t \in Threads : Start(t) \/ Step(t)
  <2>1. PICK t \in Threads : Start(t) \/ Step(t)
    BY <1>1
  <2>2. CASE Start(t) \/ Finish(t) \/ \E c \in Contexts : GetReadOnly(t, c) \/ Remove(t, c)
    BY <2>2, StartFinishBalance, CallBegunBalance
  <2>3. CASE \E c \in Contexts : GetReadWrite(t, c)
    BY <2>3, GetReadWriteBalance
  <2>4. CASE \E s \in Slots : RevokeRead(t, s) \/ RevokeWrite(t, s)
    BY <2>4, RevokeReadBalance, RevokeWriteBalance
  <2>5. CASE ReadSteps(t)
    BY <2>5, ReadLockedBalance, ReadFetchedBalance, CallQuietBalance DEF ReadSteps
  <2>6. CASE WriteSteps(t)
    BY <2>6, WriteLockedBalance, WriteTimedOutBalance, RelockedBalance,
       LockableCreatedBalance, NewLockedBalance, CallQuietBalance, ContextTakenBalance
    DEF WriteSteps
  <2>7. CASE RemoveSteps(t)
    BY <2>7, CallQuietBalance DEF RemoveSteps
  <2> QED
    BY <2>1, <2>2, <2>3, <2>4, <2>5, <2>6, <2>7 DEF Step, RequestSteps
<1>2. CASE ~\E t \in Threads : Start(t) \/ Step(t)
  BY <1>2, HistoryBalance DEF Next
<1> QED
  BY <1>1, <1>2

\* The type invariant of ContextCache.
THEOREM TypeCorrect == Spec => []TypeOK
<1>1. Init => BalanceInv
  BY InitBalance
<1>2. BalanceInv /\ [Next]_vars => BalanceInv'
  BY StepBalance
<1>3. BalanceInv => TypeOK
  BY DEF BalanceInv
<1> QED
  BY <1>1, <1>2, <1>3, PTL DEF Spec

\* Whatever is created, deleted, upgraded or timed out, every hold of a lock
\* belongs to a permit and every permit to a hold.
THEOREM HoldsAlwaysBalance == Spec => []HoldsBalance
<1>1. Init => BalanceInv
  BY InitBalance
<1>2. BalanceInv /\ [Next]_vars => BalanceInv'
  BY StepBalance
<1>3. BalanceInv => HoldsBalance
  BY DEF BalanceInv
<1> QED
  BY <1>1, <1>2, <1>3, PTL DEF Spec

-----------------------------------------------------------------------------
(* Writers of ContextCache exclude all others, provided that no context is *)
(* deleted and that only one thread may be the first to name a context.    *)
(* (The run ContextCache_create_race shows what happens otherwise.)        *)

NoRace == /\ Removers = {}
          /\ \A c \in Contexts : \A t, u \in Creators[c] : t = u

\* While a thread has the write lock, the others have no read lock.
ReadersOut ==
  \A l \in Lockables : \A u \in Threads :
    lock[l].writer \notin {None, u} => ReadHolds(l, u) = 0

\* The LockableContext of a context never changes under a permit or a call.
PermitStable(u, r) ==
  permits[u][r].kind # "none" => lockables[permits[u][r].id] = permits[u][r].lk
CallStable(u) ==
  /\ pc[u] \notin {"rmLock", "rmDrop"}
  /\ call[u].lk # None => lockables[call[u].id] = call[u].lk
  /\ pc[u] = "create" => /\ lockables[call[u].id] = None
                         /\ u \in Creators[call[u].id]
Stable == \A u \in Threads : CallStable(u) /\ \A r \in Slots : PermitStable(u, r)

ExclusionInv == BalanceInv /\ ReadersOut

-----------------------------------------------------------------------------
LEMMA InitReadersOut == Init => ReadersOut
  BY DEF Init, ReadersOut, NoLock

LEMMA SetReadsOut ==
  ASSUME ExclusionInv, NEW t \in Threads, NEW l \in Lockables, NEW n \in Nat,
         CanRead(l, t) \/ n = 0,
         lock' = SetReads(l, t, n)
  PROVE  ReadersOut'
<1>1. TypeOK
  BY DEF ExclusionInv, BalanceInv
<1>2. /\ \A m \in Lockables : lock'[m].writer = lock[m].writer
      /\ \A m \in Lockables : \A u \in Threads :
           ReadHolds(m, u)' = IF m = l /\ u = t THEN n ELSE ReadHolds(m, u)
  BY <1>1, SetReadsHolds
<1> QED
  BY <1>2 DEF ReadersOut, ExclusionInv, CanRead

LEMMA WithWriteLockOut ==
  ASSUME ExclusionInv, NEW t \in Threads, NEW l \in Lockables, NEW n \in Nat,
         CanWrite(l, t),
         lock' = WithWriteLock(l, t, n)
  PROVE  ReadersOut'
<1>1. TypeOK /\ LockOK /\ lock[l].writer \in {None, t}
  BY DEF ExclusionInv, BalanceInv, CanWrite
<1>2. /\ \A m \in Lockables : lock'[m].writer = IF m = l THEN t ELSE lock[m].writer
      /\ \A m \in Lockables : \A u \in Threads :
           ReadHolds(m, u)' = IF m = l /\ u = t THEN n ELSE ReadHolds(m, u)
  BY <1>1, WithWriteLockHolds
<1>3. \A u \in Threads : u # t => ReadHolds(l, u) = 0
  BY CacheAssumption DEF CanWrite, ReadersOut, ExclusionInv
<1> QED
  BY <1>2, <1>3 DEF ReadersOut, ExclusionInv

LEMMA StepReadersOut ==
  ASSUME ExclusionInv, [Next]_vars
  PROVE  ReadersOut'
<1> USE DEF Idle
<1>0. TypeOK /\ Shape /\ LockOK /\ HoldsBalance /\ ReadersOut
  BY DEF ExclusionInv, BalanceInv
<1>1. CASE UNCHANGED lock
  BY <1>0, <1>1 DEF ReadersOut, ReadHolds
<1>2. ASSUME NEW t \in Threads, ReadLocked(t)
      PROVE  ReadersOut'
  <2>0. pc[t] = "rdLock"
    BY <1>2 DEF ReadLocked
  <2>1. call[t].lk \in Lockables
    BY <1>0, <2>0 DEF Shape
  <2>2. ReadHolds(call[t].lk, t) + 1 \in Nat
    BY <1>0, <2>1 DEF TypeOK, ReadHolds
  <2> QED
    BY <1>2, <2>1, <2>2, SetReadsOut DEF ReadLocked
<1>3. ASSUME NEW t \in Threads, NEW c \in Contexts, GetReadWrite(t, c), ~UNCHANGED lock
      PROVE  ReadersOut'
  <2>1. lockables[c] \in Lockables /\ lock' = SetReads(lockables[c], t, 0)
    BY <1>0, <1>3 DEF GetReadWrite, TypeOK
  <2> QED
    BY <2>1, SetReadsOut
<1>4. ASSUME NEW t \in Threads, WriteLocked(t)
      PROVE  ReadersOut'
  <2>1. call[t].lk \in Lockables /\ call[t].reads \in Nat
    BY <1>0, <1>4 DEF WriteLocked, Shape, TypeOK, Call
  <2> QED
    BY <1>4, <2>1, WithWriteLockOut DEF WriteLocked
<1>5. ASSUME NEW t \in Threads, Relocked(t)
      PROVE  ReadersOut'
  <2>1. call[t].lk \in Lockables /\ call[t].reads \in Nat
    BY <1>0, <1>5 DEF Relocked, Shape, TypeOK, Call
  <2> QED
    BY <1>5, <2>1, SetReadsOut DEF Relocked
<1>6. ASSUME NEW t \in Threads, LockableCreated(t)
      PROVE  ReadersOut'
  <2>1. PICK l \in Lockables : lock' = [lock EXCEPT ![l] = NoLock]
    BY <1>6 DEF LockableCreated
  <2>2. \A m \in Lockables : lock'[m] = IF m = l THEN NoLock ELSE lock[m]
    BY <1>0, <2>1 DEF TypeOK
  <2> QED
    BY <1>0, <2>2 DEF ReadersOut, ReadHolds, NoLock
<1>7. ASSUME NEW t \in Threads, NewLocked(t)
      PROVE  ReadersOut'
  <2>0. pc[t] = "newLock"
    BY <1>7 DEF NewLocked
  <2>1. call[t].lk \in Lockables
    BY <1>0, <2>0 DEF Shape
  <2>2. ReadHolds(call[t].lk, t) \in Nat
    BY <1>0, <2>1 DEF TypeOK, ReadHolds
  <2> QED
    BY <1>7, <2>1, <2>2, WithWriteLockOut DEF NewLocked
<1>8. ASSUME NEW t \in Threads, NEW s \in Slots, RevokeRead(t, s)
      PROVE  ReadersOut'
  <2> DEFINE l == permits[t][s].lk
  <2>1. l \in Lockables /\ pc[t] = "work" /\ Reads(t, s)
        /\ lock' = SetReads(l, t, ReadHolds(l, t) - 1)
    BY <1>0, <1>8 DEF RevokeRead, Shape, Reads
  <2>2. s \in PermitsOn(t, l, "read")
    BY <2>1 DEF PermitsOn, Reads
  <2>3. Cardinality(PermitsOn(t, l, "read")) \in Nat \ {0}
    BY <2>2, PermitsFinite, FS_EmptySet
  <2>4. ReadHolds(l, t) \in Nat \ {0}
    BY <1>0, <2>1, <2>3 DEF HoldsBalance, Balanced, Upgrading, Making
  <2>5. lock[l].writer \in {None, t}
    BY <1>0, <2>1, <2>4 DEF ReadersOut
  <2> QED
    BY <2>1, <2>4, <2>5, SetReadsOut DEF CanRead
<1>9. ASSUME NEW t \in Threads, NEW s \in Slots, RevokeWrite(t, s)
      PROVE  ReadersOut'
  <2> DEFINE l == permits[t][s].lk
  <2>1. l \in Lockables /\ lock' = WriteUnlocked(l)
    BY <1>0, <1>9 DEF RevokeWrite, Shape
  <2>2. \A m \in Lockables : /\ lock'[m].writer \in {lock[m].writer, None}
                             /\ lock'[m].rholds = lock[m].rholds
    <3>1. \A m \in Lockables : lock[m] \in LockType
      BY <1>0 DEF TypeOK, LockType
    <3>2. \A m \in Lockables \ {l} : lock'[m] = lock[m]
      BY <1>0, <2>1 DEF WriteUnlocked, TypeOK
    <3>3. lock'[l].writer \in {lock[l].writer, None} /\ lock'[l].rholds = lock[l].rholds
      BY <1>0, <2>1, <3>1 DEF WriteUnlocked, TypeOK, LockType
    <3> QED
      BY <3>2, <3>3
  <2> QED
    BY <1>0, <2>2 DEF ReadersOut, ReadHolds
<1>10. UNCHANGED lock \/ \E t \in Threads :
         \/ ReadLocked(t) \/ WriteLocked(t) \/ Relocked(t) \/ LockableCreated(t)
         \/ NewLocked(t) \/ (\E c \in Contexts : GetReadWrite(t, c))
         \/ \E s \in Slots : RevokeRead(t, s) \/ RevokeWrite(t, s)
  BY DEF Next, Step, RequestSteps, ReadSteps, WriteSteps, RemoveSteps, vars, history, Start,
     Finish, GetReadOnly, Remove, ReadTimedOut, ReadFetched, WriteTimedOut, WriteFetched,
     ContextTaken, ContextCreated, Removed, RemoveTimedOut, LockableDropped, Edit, Overflow
<1> QED
  BY <1>1, <1>2, <1>3, <1>4, <1>5, <1>6, <1>7, <1>8, <1>9, <1>10

-----------------------------------------------------------------------------
LEMMA InitStable == Init => Stable
  BY CacheAssumption DEF Init, Stable, CallStable, PermitStable, NoCall, NoPermit

\* While no LockableContext is replaced: a permit keeps its context and lock or
\* is that of a call; a call keeps its context and lock or has none.
LEMMA SameLockables ==
  ASSUME Stable, TypeOK, NEW t \in Threads, UNCHANGED lockables,
         \A u \in Threads : \A r \in Slots :
           \/ permits'[u][r].kind = "none"
           \/ /\ permits[u][r].kind # "none"
              /\ permits'[u][r].id = permits[u][r].id
              /\ permits'[u][r].lk = permits[u][r].lk
           \/ /\ call[u].lk # None
              /\ permits'[u][r].id = call[u].id
              /\ permits'[u][r].lk = call[u].lk,
         pc' \in [Threads -> Places \ {"rmLock", "rmDrop"}],
         \A u \in Threads :
           /\ \/ call'[u].lk = None
              \/ lockables[call'[u].id] = call'[u].lk
              \/ call'[u].id = call[u].id /\ call'[u].lk = call[u].lk
           /\ pc'[u] = "create" =>
                \/ pc[u] = "create" /\ call'[u].id = call[u].id
                \/ /\ lockables[call'[u].id] = None
                   /\ u \in Creators[call'[u].id]
  PROVE  Stable'
<1>1. ASSUME NEW u \in Threads PROVE CallStable(u)'
  BY DEF Stable, CallStable
<1>2. ASSUME NEW u \in Threads, NEW r \in Slots PROVE PermitStable(u, r)'
  BY DEF Stable, CallStable, PermitStable
<1> QED
  BY <1>1, <1>2 DEF Stable

\* Where pc, call and permits go in a step of thread t.
LEMMA NoRemoval == ASSUME Stable, TypeOK, NEW t \in Threads
                   PROVE  /\ pc \in [Threads -> Places \ {"rmLock", "rmDrop"}]
                          /\ ~RemoveSteps(t)
  BY DEF Stable, CallStable, TypeOK, RemoveSteps, Removed, RemoveTimedOut, LockableDropped

\* A constructor returns the permit of its call, or gives up.
LEMMA GrantStable ==
  ASSUME Stable, BalanceInv, NEW t \in Threads, UNCHANGED lockables,
         call[t].lk # None,
         \/ UNCHANGED permits
         \/ \E s \in Slots : \E p : /\ permits' = [permits EXCEPT ![t][s] = p]
                                   /\ p.id = call[t].id /\ p.lk = call[t].lk,
         pc' = [pc EXCEPT ![t] = "work"],
         call' = [call EXCEPT ![t] = NoCall]
  PROVE  Stable'
<1>1. TypeOK /\ pc \in [Threads -> Places \ {"rmLock", "rmDrop"}]
  BY NoRemoval DEF BalanceInv
<1>2. pc' \in [Threads -> Places \ {"rmLock", "rmDrop"}]
  BY <1>1 DEF Places
<1>3. \A u \in Threads :
        /\ call'[u].lk = None \/ call'[u] = call[u]
        /\ pc'[u] = "create" => pc[u] = "create" /\ call'[u] = call[u]
  BY <1>1 DEF TypeOK, NoCall
<1>4. \A u \in Threads : \A r \in Slots :
        \/ permits'[u][r].kind = "none"
        \/ permits[u][r].kind # "none" /\ permits'[u][r] = permits[u][r]
        \/ /\ call[u].lk # None
           /\ permits'[u][r].id = call[u].id /\ permits'[u][r].lk = call[u].lk
  BY <1>1 DEF TypeOK
<1> QED
  BY <1>1, <1>2, <1>3, <1>4, SameLockables

LEMMA LockableCreatedStable ==
  ASSUME NoRace, Stable, BalanceInv, NEW t \in Threads, LockableCreated(t)
  PROVE  Stable'
<1> DEFINE c == call[t].id
<1>0. TypeOK /\ Shape
  BY DEF BalanceInv
<1>1. PICK l \in Lockables : /\ lockables' = [lockables EXCEPT ![c] = l]
                             /\ call' = [call EXCEPT ![t].lk = l]
  BY DEF LockableCreated
<1>2. /\ pc[t] = "create" /\ pc' = [pc EXCEPT ![t] = "newLock"] /\ UNCHANGED permits
      /\ c \in Contexts /\ lockables[c] = None /\ t \in Creators[c]
  BY <1>0 DEF LockableCreated, Shape, Idle, Stable, CallStable
<1>3. \A d \in Contexts : lockables'[d] = IF d = c THEN l ELSE lockables[d]
  BY <1>0, <1>1 DEF TypeOK
<1>4. ASSUME NEW u \in Threads, NEW r \in Slots
      PROVE  PermitStable(u, r)'
  <2>1. CASE permits[u][r].kind = "none"
    BY <1>2, <2>1 DEF PermitStable
  <2>2. CASE permits[u][r].kind # "none"
    <3>1. /\ permits[u][r].id \in Contexts /\ permits[u][r].lk # None
          /\ lockables[permits[u][r].id] = permits[u][r].lk
      BY <1>0, <2>2, CacheAssumption DEF Shape, Stable, PermitStable, Lockables, Gens
    <3> QED
      BY <1>2, <1>3, <3>1 DEF PermitStable
  <2> QED
    BY <2>1, <2>2
<1>5. ASSUME NEW u \in Threads
      PROVE  CallStable(u)'
  <2>1. CASE u = t
    <3>1. call'[t].id = c /\ call'[t].lk = l /\ pc'[t] = "newLock"
      BY <1>0, <1>1, <1>2 DEF TypeOK, Call
    <3> QED
      BY <1>2, <1>3, <2>1, <3>1 DEF CallStable
  <2>2. CASE u # t
    <3>1. call'[u] = call[u] /\ pc'[u] = pc[u] /\ CallStable(u)
      BY <1>0, <1>1, <1>2, <2>2 DEF TypeOK, Stable
    <3>2. call[u].lk # None => /\ call[u].id \in Contexts \ {c}
                               /\ lockables'[call[u].id] = call[u].lk
      BY <1>0, <1>2, <1>3, <3>1 DEF CallStable, Shape, Idle, NoCall
    <3>3. pc[u] = "create" => /\ call[u].id \in Contexts \ {c}
                              /\ lockables'[call[u].id] = None
      BY <1>0, <1>2, <1>3, <2>2, <3>1 DEF CallStable, Shape, Idle, NoRace
    <3> QED
      BY <3>1, <3>2, <3>3 DEF CallStable
  <2> QED
    BY <2>1, <2>2
<1> QED
  BY <1>4, <1>5 DEF Stable

LEMMA StepStable ==
  ASSUME NoRace, Stable, BalanceInv, [Next]_vars
  PROVE  Stable'
<1> DEFINE Live == Places \ {"rmLock", "rmDrop"}
           PermitsKept == \A u \in Threads : \A r \in Slots :
             \/ permits'[u][r].kind = "none"
             \/ /\ permits[u][r].kind # "none"
                /\ permits'[u][r].id = permits[u][r].id
                /\ permits'[u][r].lk = permits[u][r].lk
           CallsKept == \A u \in Threads :
             /\ \/ call'[u].lk = None
                \/ lockables[call'[u].id] = call'[u].lk
                \/ call'[u].id = call[u].id /\ call'[u].lk = call[u].lk
             /\ pc'[u] = "create" =>
                  \/ pc[u] = "create" /\ call'[u].id = call[u].id
                  \/ /\ lockables[call'[u].id] = None
                     /\ u \in Creators[call'[u].id]
<1>0. TypeOK /\ Shape
  BY DEF BalanceInv
<1>1. ASSUME NEW t \in Threads, UNCHANGED lockables, pc' \in [Threads -> Live],
             PermitsKept, CallsKept
      PROVE  Stable'
  BY <1>0, <1>1, SameLockables
<1>2. ASSUME NEW t \in Threads, NEW c \in Contexts,
             GetReadOnly(t, c) \/ GetReadWrite(t, c)
      PROVE  Stable'
  <2>1. ASSUME NEW q \in Live, NEW n, UNCHANGED <<lockables, permits>>,
               pc' = [pc EXCEPT ![t] = q], call' = [call EXCEPT ![t] = n],
               n.id = c, n.lk \in {None, lockables[c]},
               q = "create" => lockables[c] = None /\ t \in Creators[c]
        PROVE  Stable'
    <3>1. PermitsKept /\ CallsKept
      BY <1>0, <2>1 DEF TypeOK
    <3>2. pc' \in [Threads -> Live]
      BY <1>0, <2>1, NoRemoval
    <3> QED
      BY <1>1, <2>1, <3>1, <3>2
  <2>2. CASE UNCHANGED <<lockables, permits, pc, call>>
    BY <1>1, <1>0, <2>2, NoRemoval
  <2>3. CASE GetReadOnly(t, c) /\ ~UNCHANGED <<lockables, permits, pc, call>>
    <3> DEFINE n == [NoCall EXCEPT !.id = c, !.lk = lockables[c]]
    <3>1. n.id = c /\ n.lk = lockables[c]
      BY DEF NoCall
    <3>2. /\ pc' = [pc EXCEPT ![t] = "rdLock"] /\ call' = [call EXCEPT ![t] = n]
          /\ UNCHANGED <<lockables, permits>>
      BY <2>3 DEF GetReadOnly
    <3> HIDE DEF n
    <3> QED
      BY <2>1, <3>1, <3>2 DEF Places
  <2>4. CASE GetReadWrite(t, c) /\ pc' = [pc EXCEPT ![t] = "wrLock"]
    <3> DEFINE n == [NoCall EXCEPT !.id = c, !.lk = lockables[c],
                                   !.reads = ReadHolds(lockables[c], t)]
    <3>1. n.id = c /\ n.lk = lockables[c]
      BY DEF NoCall
    <3>2. /\ call' = [call EXCEPT ![t] = n] /\ UNCHANGED <<lockables, permits>>
      BY <1>0, <2>4 DEF GetReadWrite, CallCache, TypeOK
    <3> HIDE DEF n
    <3> QED
      BY <2>1, <2>4, <3>1, <3>2 DEF Places
  <2>5. CASE GetReadWrite(t, c) /\ pc' # [pc EXCEPT ![t] = "wrLock"]
    <3> DEFINE n == [NoCall EXCEPT !.id = c]
    <3>1. n.id = c /\ n.lk = None
      BY DEF NoCall
    <3>2. /\ lockables[c] = None /\ t \in Creators[c] /\ UNCHANGED <<lockables, permits>>
          /\ pc' = [pc EXCEPT ![t] = "create"] /\ call' = [call EXCEPT ![t] = n]
      BY <2>5 DEF GetReadWrite
    <3> HIDE DEF n
    <3> QED
      BY <2>1, <3>1, <3>2 DEF Places
  <2> QED
    BY <1>2, <2>2, <2>3, <2>4, <2>5
<1>3. ASSUME NEW t \in Threads, NEW s \in Slots, RevokeRead(t, s) \/ RevokeWrite(t, s)
      PROVE  Stable'
  <2>1. UNCHANGED <<lockables, pc, call>> /\ permits[t][s].kind # "none"
    BY <1>3 DEF RevokeRead, RevokeWrite
  <2>2. permits' \in {[permits EXCEPT ![t][s] = NoPermit],
                      [Refreshed(permits[t][s].lk, permits[t][s].ctx) EXCEPT ![t][s] = NoPermit]}
    BY <1>3 DEF RevokeRead, RevokeWrite
  <2>3. ASSUME NEW u \in Threads, NEW r \in Slots
        PROVE  \/ permits'[u][r] = NoPermit
               \/ permits'[u][r] = permits[u][r]
               \/ permits'[u][r] = [permits[u][r] EXCEPT !.ctx = permits[t][s].ctx]
    <3>1. CASE permits' = [permits EXCEPT ![t][s] = NoPermit]
      BY <1>0, <3>1 DEF TypeOK
    <3>2. CASE permits' = [Refreshed(permits[t][s].lk, permits[t][s].ctx)
                             EXCEPT ![t][s] = NoPermit]
      <4> DEFINE f == Refreshed(permits[t][s].lk, permits[t][s].ctx)
      <4>1. /\ f[u][r] \in {permits[u][r], [permits[u][r] EXCEPT !.ctx = permits[t][s].ctx]}
            /\ f[u] = [q \in Slots |-> f[u][q]] /\ f = [v \in Threads |-> f[v]]
        BY DEF Refreshed
      <4> HIDE DEF f
      <4>2. permits' = [f EXCEPT ![t][s] = NoPermit]
        BY <3>2 DEF f
      <4>3. permits'[u][r] \in {NoPermit, f[u][r]}
        BY <4>1, <4>2
      <4> QED
        BY <4>1, <4>3
    <3> QED
      BY <2>2, <3>1, <3>2
  <2>4. ASSUME NEW u \in Threads, NEW r \in Slots, permits'[u][r] # NoPermit
        PROVE  /\ permits'[u][r].kind = permits[u][r].kind
               /\ permits'[u][r].id = permits[u][r].id
               /\ permits'[u][r].lk = permits[u][r].lk
    <3>1. CASE permits'[u][r] = permits[u][r]
      BY <3>1
    <3>2. CASE permits'[u][r] = [permits[u][r] EXCEPT !.ctx = permits[t][s].ctx]
      BY <1>0, <3>2 DEF TypeOK, Permit
    <3> QED
      BY <2>3, <2>4, <3>1, <3>2
  <2>5. PermitsKept
    BY <2>4 DEF NoPermit
  <2>6. pc' \in [Threads -> Live] /\ CallsKept
    BY <1>0, <2>1, NoRemoval
  <2> QED
    BY <1>1, <2>1, <2>5, <2>6
<1>4. ASSUME NEW t \in Threads,
             \/ Start(t) \/ Finish(t) \/ ReadLocked(t) \/ NewLocked(t) \/ WriteFetched(t)
             \/ WriteLocked(t) /\ writable[call[t].lk] = None
             \/ WriteTimedOut(t) /\ call[t].reads # 0
      PROVE  Stable'
  <2>1. /\ UNCHANGED <<lockables, permits>>
        /\ \E q \in Live \ {"create"} : pc' = [pc EXCEPT ![t] = q]
        /\ UNCHANGED call \/ call' = [call EXCEPT ![t].ctx = cache[call[t].id]]
    BY <1>4 DEF Start, Finish, ReadLocked, NewLocked, WriteFetched, WriteLocked,
       WriteTimedOut, Places
  <2>2. \A u \in Threads : call'[u].id = call[u].id /\ call'[u].lk = call[u].lk
    <3>1. CASE UNCHANGED call
      BY <3>1
    <3>2. CASE call' = [call EXCEPT ![t].ctx = cache[call[t].id]]
      <4>1. call[t] \in Call /\ call \in [Threads -> Call]
        BY <1>0 DEF TypeOK
      <4>2. call' = [call EXCEPT ![t] = [call[t] EXCEPT !.ctx = cache[call[t].id]]]
        BY <3>2
      <4> QED
        BY <4>1, <4>2 DEF Call
    <3> QED
      BY <2>1, <3>1, <3>2
  <2>3. pc' \in [Threads -> Live]
    BY <1>0, <2>1, NoRemoval
  <2>4. \A u \in Threads : pc'[u] = "create" => pc[u] = "create"
    BY <1>0, <2>1 DEF TypeOK
  <2> QED
    BY <1>1, <2>1, <2>2, <2>3, <2>4
<1>5. ASSUME NEW t \in Threads,
             \/ ReadTimedOut(t) \/ ReadFetched(t) \/ Relocked(t)
             \/ ContextTaken(t) \/ ContextCreated(t)
             \/ WriteLocked(t) /\ writable[call[t].lk] # None
             \/ WriteTimedOut(t) /\ call[t].reads = 0
      PROVE  Stable'
  <2>1. /\ UNCHANGED lockables /\ call[t].lk \in Lockables
        /\ pc' = [pc EXCEPT ![t] = "work"] /\ call' = [call EXCEPT ![t] = NoCall]
    BY <1>0, <1>5 DEF ReadTimedOut, ReadFetched, Relocked, ContextTaken, ContextCreated,
       WriteLocked, WriteTimedOut, Take, Grant, GiveUp, Shape, Idle
  <2>2. \/ UNCHANGED permits
        \/ \E s \in Slots : \E p : /\ permits' = [permits EXCEPT ![t][s] = p]
                                  /\ p.id = call[t].id /\ p.lk = call[t].lk
    BY <1>5 DEF ReadTimedOut, ReadFetched, Relocked, ContextTaken, ContextCreated,
       WriteLocked, WriteTimedOut, Take, Grant, GiveUp, WritePermit
  <2>3. call[t].lk # None
    BY <2>1, CacheAssumption DEF Lockables, Gens
  <2> QED
    BY <2>1, <2>2, <2>3, GrantStable
<1>6. CASE UNCHANGED vars \/ (\E t \in Threads : \E s \in Slots : Edit(t, s))
           \/ \E c \in Contexts : Overflow(c)
  BY <1>6 DEF Edit, Overflow, vars, Stable, CallStable, PermitStable
<1>7. ASSUME NEW t \in Threads, NEW c \in Contexts PROVE ~Remove(t, c)
  BY DEF Remove, NoRace
<1> QED
  BY <1>0, <1>2, <1>3, <1>4, <1>5, <1>6, <1>7, LockableCreatedStable, NoRemoval
  DEF Next, Step, RequestSteps, ReadSteps, WriteSteps

-----------------------------------------------------------------------------
LEMMA StableExclusion ==
  ASSUME ExclusionInv, Stable
  PROVE  WriterExclusion
<1>0. TypeOK /\ Shape /\ HoldsBalance /\ ReadersOut
  BY DEF ExclusionInv, BalanceInv
<1> SUFFICES ASSUME NEW t \in Threads, NEW u \in Threads, NEW s \in Slots, NEW r \in Slots,
                    t # u, Writes(t, s), permits[u][r].id = permits[t][s].id
             PROVE  Reads(u, r) /\ Upgrading(u, permits[u][r].lk)
  BY DEF WriterExclusion
<1> DEFINE l == permits[t][s].lk
<1>1. /\ l \in Lockables /\ permits[u][r].lk = l
      /\ permits[u][r].kind \in {"read", "write"}
  BY <1>0, CacheAssumption DEF Shape, Writes, Stable, PermitStable, TypeOK, Permit, NoPermit
<1>2. ASSUME NEW v \in Threads, NEW q \in Slots, permits[v][q].lk = l
      PROVE  Cardinality(PermitsOn(v, l, permits[v][q].kind)) \in Nat \ {0}
  <2>1. q \in PermitsOn(v, l, permits[v][q].kind)
    BY <1>2 DEF PermitsOn
  <2> QED
    BY <2>1, PermitsFinite, FS_EmptySet
<1>3. ASSUME NEW v \in Threads, NEW q \in Slots, permits[v][q].lk = l, Writes(v, q)
      PROVE  lock[l].writer = v
  <2>1. Cardinality(PermitsOn(v, l, "write")) \in Nat \ {0}
    BY <1>2, <1>3 DEF Writes
  <2>2. WriteHolds(l, v) # 0
    BY <1>0, <1>1, <2>1 DEF HoldsBalance, Balanced, Making
  <2> QED
    BY <2>2 DEF WriteHolds
<1>4. lock[l].writer = t /\ ~Writes(u, r)
  BY <1>1, <1>3
<1>5. Reads(u, r)
  BY <1>1, <1>4 DEF Reads, Writes
<1>6. Cardinality(PermitsOn(u, l, "read")) \in Nat \ {0}
  BY <1>1, <1>2, <1>5 DEF Reads
<1>7. ReadHolds(l, u) = 0
  BY <1>0, <1>1, <1>4, CacheAssumption DEF ReadersOut
<1>8. Upgrading(u, l)
  BY <1>0, <1>1, <1>6, <1>7 DEF HoldsBalance, Balanced, Making
<1> QED
  BY <1>1, <1>5, <1>8

\* Where contexts are not deleted and a context has one thread that may be the
\* first to name it, a thread with a write permit to a context is alone with it.
THEOREM WritersExclude ==
  ASSUME NoRace
  PROVE  Spec => []WriterExclusion
<1> DEFINE Inv == ExclusionInv /\ Stable
<1>1. Init => Inv
  BY InitBalance, InitReadersOut, InitStable DEF ExclusionInv
<1>2. Inv /\ [Next]_vars => Inv'
  BY StepBalance, StepReadersOut, StepStable DEF ExclusionInv
<1>3. Inv => WriterExclusion
  BY StableExclusion
<1> HIDE DEF Inv
<1> QED
  BY <1>1, <1>2, <1>3, PTL DEF Spec

-----------------------------------------------------------------------------
(***************************************************************************)
(* No edit of a context is lost, and no context is cached while it is      *)
(* edited: for any number of threads, contexts and permits, under NoRace,  *)
(* for which writers exclude all others.                                   *)
(*                                                                         *)
(* The latest copy of a context is in the writableContext of its           *)
(* LockableContext while a thread has a write permit, and in the Ehcache   *)
(* otherwise.  Only the read permits may be behind, and only during an     *)
(* edit.                                                                   *)
(***************************************************************************)

\* LockableContexts and copies are those of the context they are kept for.
Of(c, o) == o = None \/ o \in {c} \X Gens
Tagged ==
  /\ \A c \in Contexts : Of(c, lockables[c]) /\ Of(c, cache[c])
  /\ \A l \in Lockables : Of(l[1], writable[l])
  /\ \A t \in Threads : Of(call[t].id, call[t].ctx)
  /\ \A t \in Threads : \A s \in Slots : Of(permits[t][s].id, permits[t][s].ctx)

\* A write permit gives the writableContext, which is up to date; it is not cached.
WriteCopy(p) ==
  /\ writable[p.lk] = p.ctx /\ p.ctx \in Instances \ stale
  /\ cache[p.id] = None
WriteCopies == \A t \in Threads : \A s \in Slots : Writes(t, s) => WriteCopy(permits[t][s])

\* There is a writableContext only for a write permit.
Written ==
  \A l \in Lockables : writable[l] # None =>
    \E t \in Threads : \E s \in Slots : Writes(t, s) /\ permits[t][s].lk = l

\* What a thread that takes a context from the cache has found is still true.
Taking(t) ==
  /\ pc[t] \in {"wrFetch", "wrTake"} => writable[call[t].lk] = None
  /\ pc[t] = "wrTake" => /\ call[t].ctx = None <=> cache[call[t].id] = None
                         /\ call[t].ctx \notin stale
AllTaking == \A t \in Threads : Taking(t)

\* A new LockableContext is not among its creator's permits.
Creating(t) == pc[t] = "newLock" => \A s \in Slots : permits[t][s].lk # call[t].lk
AllCreating == \A t \in Threads : Creating(t)

\* The cached copy is up to date, and an edited context has a copy.
HasCopy(c) == cache[c] # None \/ (lockables[c] # None /\ writable[lockables[c]] # None)
Kept(c) == cache[c] \notin stale /\ (c \in edited => HasCopy(c))
AllKept == \A c \in Contexts : Kept(c)

\* A read permit is behind only while its context is written.
ReadCopy(p) == p.kind = "read" /\ Misses(p.id, p.ctx) => writable[p.lk] # None
ReadCopies == \A t \in Threads : \A s \in Slots : ReadCopy(permits[t][s])

Copies == /\ WriteCopies /\ Written /\ AllTaking /\ AllCreating /\ AllKept /\ ReadCopies
EditInv == Tagged /\ Copies
\* What the invariant rests on: exclusion holds before and after the step.
Ground == ExclusionInv /\ Stable

-----------------------------------------------------------------------------
(* Who has the write lock of a context, and what its copies are.           *)

LEMMA Nulls == None \notin Instances /\ None \notin Lockables
  BY CacheAssumption DEF Instances, Lockables, Gens

LEMMA Grounds ==
  ASSUME Ground
  PROVE  TypeOK /\ Shape /\ LockOK /\ HoldsBalance /\ ReadersOut /\ Stable
  BY DEF Ground, ExclusionInv, BalanceInv

\* A thread with a write permit has the write lock, that of the context.
LEMMA PermitOwns ==
  ASSUME Ground, NEW t \in Threads, NEW s \in Slots, Writes(t, s)
  PROVE  /\ permits[t][s].id \in Contexts /\ permits[t][s].lk \in Lockables
         /\ lockables[permits[t][s].id] = permits[t][s].lk
         /\ lock[permits[t][s].lk].writer = t
<1> DEFINE l == permits[t][s].lk
<1>1. /\ permits[t][s].id \in Contexts /\ l \in Lockables
      /\ lockables[permits[t][s].id] = l
  BY Grounds DEF Shape, Writes, Stable, PermitStable
<1>2. s \in PermitsOn(t, l, "write")
  BY DEF PermitsOn, Writes
<1>3. Cardinality(PermitsOn(t, l, "write")) \in Nat \ {0}
  BY <1>2, PermitsFinite, FS_EmptySet
<1>4. WriteHolds(l, t) # 0
  BY <1>1, <1>3, Grounds DEF HoldsBalance, Balanced, Making
<1> QED
  BY <1>1, <1>4 DEF WriteHolds

\* So has a thread that takes the context.
LEMMA CallOwns ==
  ASSUME Ground, NEW t \in Threads, pc[t] \in {"wrFetch", "wrTake"}
  PROVE  /\ call[t].id \in Contexts /\ call[t].lk \in Lockables
         /\ lockables[call[t].id] = call[t].lk
         /\ lock[call[t].lk].writer = t
<1> DEFINE l == call[t].lk
<1>1. /\ call[t].id \in Contexts /\ l \in Lockables /\ lockables[call[t].id] = l
  BY Grounds, Nulls DEF Shape, Idle, Stable, CallStable
<1>2. WriteHolds(l, t) # 0
  BY <1>1, Grounds, PermitsNat DEF HoldsBalance, Balanced, Making
<1> QED
  BY <1>1, <1>2 DEF WriteHolds

\* Two contexts have two LockableContexts.
LEMMA OwnLockable ==
  ASSUME Tagged, NEW c \in Contexts, NEW d \in Contexts,
         lockables[c] = lockables[d], lockables[c] # None
  PROVE  c = d
  BY DEF Tagged, Of

\* Another thread that writes or takes the context is this thread.
LEMMA Alone ==
  ASSUME Ground, NEW t \in Threads, NEW u \in Threads, NEW c \in Contexts,
         WritesContext(t, c) \/ (pc[t] \in {"wrFetch", "wrTake"} /\ call[t].id = c),
         WritesContext(u, c) \/ (pc[u] \in {"wrFetch", "wrTake"} /\ call[u].id = c)
  PROVE  t = u
<1>1. ASSUME NEW v \in Threads,
             WritesContext(v, c) \/ (pc[v] \in {"wrFetch", "wrTake"} /\ call[v].id = c)
      PROVE  lock[lockables[c]].writer = v
  BY <1>1, PermitOwns, CallOwns DEF WritesContext
<1> QED
  BY <1>1

-----------------------------------------------------------------------------
(* The steps that leave the copies alone.                                  *)

LEMMA InitEdit == Init => EditInv
<1> SUFFICES ASSUME Init PROVE EditInv
  OBVIOUS
<1>1. Tagged
  BY CacheAssumption DEF Init, Tagged, Of, NoCall, NoPermit, Lockables, Gens
<1>2. Copies
  BY Nulls DEF Init, Copies, WriteCopies, Written, AllTaking, Taking, AllCreating, Creating,
     AllKept, Kept, ReadCopies, ReadCopy, Writes, NoPermit
<1> QED
  BY <1>1, <1>2 DEF EditInv

\* Threads go on, some drop read permits.
LEMMA QuietEdit ==
  ASSUME Ground, EditInv, UNCHANGED <<lockables, cache, writable, edited, stale>>,
         \A u \in Threads : \A r \in Slots :
           \/ permits'[u][r] = permits[u][r]
           \/ permits'[u][r] = NoPermit /\ permits[u][r].kind = "read",
         \A u \in Threads :
           \/ pc'[u] = pc[u] /\ call'[u] = call[u]
           \/ /\ Of(call'[u].id, call'[u].ctx)
              /\ pc'[u] # "newLock" /\ Taking(u)'
  PROVE  EditInv'
<1>1. Tagged'
  BY DEF EditInv, Tagged, Of, NoPermit
<1>2. WriteCopies'
  BY DEF EditInv, Copies, WriteCopies, WriteCopy, Writes, NoPermit
<1>3. Written'
  <2> SUFFICES ASSUME NEW l \in Lockables, writable[l] # None
               PROVE  \E t \in Threads : \E s \in Slots : (Writes(t, s) /\ permits[t][s].lk = l)'
    BY DEF Written
  <2>1. PICK t \in Threads, s \in Slots : Writes(t, s) /\ permits[t][s].lk = l
    BY DEF EditInv, Copies, Written
  <2>2. permits'[t][s] = permits[t][s]
    BY <2>1 DEF Writes
  <2> QED
    BY <2>1, <2>2 DEF Writes
<1>4. AllTaking'
  BY DEF EditInv, Copies, AllTaking, Taking
<1>5. AllCreating'
  <2> SUFFICES ASSUME NEW u \in Threads, pc'[u] = "newLock", NEW r \in Slots
               PROVE  permits'[u][r].lk # call'[u].lk
    BY DEF AllCreating, Creating
  <2>1. pc[u] = "newLock" /\ call'[u] = call[u]
    OBVIOUS
  <2>2. permits[u][r].lk # call[u].lk /\ call[u].lk # None
    BY <2>1, Grounds, Nulls DEF EditInv, Copies, AllCreating, Creating, Shape, Idle
  <2> QED
    BY <2>1, <2>2 DEF NoPermit
<1>6. AllKept'
  BY DEF EditInv, Copies, AllKept, Kept, HasCopy
<1>7. ReadCopies'
  BY DEF EditInv, Copies, ReadCopies, ReadCopy, Misses, NoPermit
<1> QED
  BY <1>1, <1>2, <1>3, <1>4, <1>5, <1>6, <1>7 DEF EditInv, Copies

-----------------------------------------------------------------------------
(* Permits are granted.                                                    *)

\* A constructor returns a permit for a copy that is there already.
LEMMA GrantEdit ==
  ASSUME Ground, EditInv, UNCHANGED <<lockables, cache, writable, edited, stale>>,
         NEW t \in Threads, NEW s \in Slots, NEW p \in Permit, Grant(t, s, p),
         p.kind = "write" => WriteCopy(p),
         ReadCopy(p), Of(p.id, p.ctx)
  PROVE  EditInv'
<1>1. /\ permits[t][s].kind = "none"
      /\ \A u \in Threads : \A r \in Slots :
           permits'[u][r] = IF u = t /\ r = s THEN p ELSE permits[u][r]
      /\ \A u \in Threads :
           /\ pc'[u] = IF u = t THEN "work" ELSE pc[u]
           /\ call'[u] = IF u = t THEN NoCall ELSE call[u]
  BY Grounds DEF Grant, FreeSlot, TypeOK
<1>2. Tagged'
  BY <1>1 DEF EditInv, Tagged, Of, NoCall
<1>3. WriteCopies'
  BY <1>1 DEF EditInv, Copies, WriteCopies, WriteCopy, Writes
<1>4. Written'
  <2> SUFFICES ASSUME NEW l \in Lockables, writable[l] # None
               PROVE  \E u \in Threads : \E r \in Slots : (Writes(u, r) /\ permits[u][r].lk = l)'
    BY DEF Written
  <2>1. PICK u \in Threads, r \in Slots : Writes(u, r) /\ permits[u][r].lk = l
    BY DEF EditInv, Copies, Written
  <2>2. permits'[u][r] = permits[u][r]
    BY <1>1, <2>1 DEF Writes
  <2> QED
    BY <2>1, <2>2 DEF Writes
<1>5. AllTaking' /\ AllCreating'
  BY <1>1 DEF EditInv, Copies, AllTaking, Taking, AllCreating, Creating
<1>6. AllKept'
  BY DEF EditInv, Copies, AllKept, Kept, HasCopy
<1>7. ReadCopies'
  BY <1>1 DEF EditInv, Copies, ReadCopies, ReadCopy, Misses
<1> QED
  BY <1>2, <1>3, <1>4, <1>5, <1>6, <1>7 DEF EditInv, Copies

LEMMA ReadFetchedEdit ==
  ASSUME Ground, EditInv, NEW t \in Threads, ReadFetched(t)
  PROVE  EditInv'
<1> DEFINE c == call[t].id
           l == call[t].lk
           p == [kind |-> "read", id |-> c, lk |-> l,
                 ctx |-> IF writable[l] # None THEN writable[l] ELSE cache[c]]
<1>1. PICK s \in Slots : Grant(t, s, p)
  BY DEF ReadFetched
<1>2. /\ c \in Contexts /\ l \in Lockables /\ lockables[c] = l
      /\ writable[l] \in Instances \cup {None} /\ cache[c] \in Instances \cup {None}
  BY Grounds, Nulls DEF ReadFetched, Shape, Idle, Stable, CallStable, TypeOK
<1>3. p \in Permit
  BY <1>2 DEF Permit
<1>4. Of(c, p.ctx)
  BY <1>2, Nulls DEF EditInv, Tagged, Of
<1>5. ReadCopy(p)
  BY <1>2 DEF ReadCopy, Misses, EditInv, Copies, AllKept, Kept, HasCopy
<1>6. UNCHANGED <<lockables, cache, writable, edited, stale>>
  BY DEF ReadFetched, history
<1>7. p.kind # "write" /\ p.id = c
  OBVIOUS
<1> HIDE DEF p
<1> QED
  BY <1>1, <1>3, <1>4, <1>5, <1>6, <1>7, GrantEdit

\* A reentrant writer.
LEMMA WriteLockedEdit ==
  ASSUME Ground, EditInv, NEW t \in Threads, WriteLocked(t), writable[call[t].lk] # None
  PROVE  EditInv'
<1> DEFINE c == call[t].id
           l == call[t].lk
           p == WritePermit(t, writable[l])
<1>1. PICK s \in Slots : Grant(t, s, p)
  BY DEF WriteLocked
<1>2. /\ c \in Contexts /\ l \in Lockables /\ lockables[c] = l
      /\ writable[l] \in Instances
  BY Grounds, Nulls DEF WriteLocked, Shape, Idle, Stable, CallStable, TypeOK
<1>3. p \in Permit /\ p.kind = "write" /\ p.id = c /\ p.lk = l /\ p.ctx = writable[l]
  BY <1>2 DEF Permit, WritePermit
<1>4. PICK u \in Threads, r \in Slots : Writes(u, r) /\ permits[u][r].lk = l
  BY <1>2 DEF EditInv, Copies, Written
<1>5. WriteCopy(permits[u][r]) /\ permits[u][r].id = c
  BY <1>2, <1>4, Nulls, PermitOwns, OwnLockable DEF EditInv, Copies, WriteCopies
<1>6. WriteCopy(p) /\ ReadCopy(p)
  BY <1>3, <1>4, <1>5 DEF WriteCopy, ReadCopy
<1>7. Of(c, p.ctx)
  BY <1>2, <1>3, Nulls DEF EditInv, Tagged, Of
<1>8. UNCHANGED <<lockables, cache, writable, edited, stale>>
  BY DEF WriteLocked, history
<1> HIDE DEF p
<1> QED
  BY <1>1, <1>3, <1>6, <1>7, <1>8, GrantEdit

\* The context is taken: the element of the cache or a new one.
LEMMA TakeEdit ==
  ASSUME Ground, EditInv, NEW t \in Threads, pc[t] = "wrTake",
         NEW o \in {call[t].id} \X Gens, Take(t, o), o \notin stale',
         stale' \subseteq stale, UNCHANGED <<lockables, edited>>,
         \A c \in Contexts : cache'[c] = IF c = call[t].id THEN None ELSE cache[c]
  PROVE  EditInv'
<1> DEFINE c == call[t].id
           l == call[t].lk
           p == WritePermit(t, o)
<1>1. PICK s \in Slots : Grant(t, s, p)
  BY DEF Take
<1>2. /\ c \in Contexts /\ l \in Lockables /\ lockables[c] = l /\ lock[l].writer = t
      /\ o \in Instances /\ writable[l] = None
  BY CallOwns DEF EditInv, Copies, AllTaking, Taking, Instances
<1>3. p.kind = "write" /\ p.id = c /\ p.lk = l /\ p.ctx = o
  BY DEF WritePermit
<1>4. /\ permits[t][s].kind = "none"
      /\ \A u \in Threads : \A r \in Slots :
           permits'[u][r] = IF u = t /\ r = s THEN p ELSE permits[u][r]
      /\ \A u \in Threads :
           /\ pc'[u] = IF u = t THEN "work" ELSE pc[u]
           /\ call'[u] = IF u = t THEN NoCall ELSE call[u]
  BY <1>1, Grounds DEF Grant, FreeSlot, TypeOK
<1>5. \A m \in Lockables : writable'[m] = IF m = l THEN o ELSE writable[m]
  BY Grounds DEF Take, TypeOK
<1>6. ASSUME NEW u \in Threads, NEW r \in Slots, Writes(u, r)
      PROVE  /\ permits[u][r].lk \in Lockables \ {l}
             /\ permits[u][r].id \in Contexts \ {c}
             /\ WriteCopy(permits[u][r])
  <2>1. /\ permits[u][r].lk \in Lockables /\ permits[u][r].id \in Contexts
        /\ lockables[permits[u][r].id] = permits[u][r].lk
        /\ WriteCopy(permits[u][r])
    BY <1>6, PermitOwns DEF EditInv, Copies, WriteCopies
  <2> QED
    BY <1>2, <2>1, Nulls DEF WriteCopy
<1> HIDE DEF p
<1>7. Tagged'
  <2>1. \A d \in Contexts : Of(d, lockables[d])' /\ Of(d, cache[d])'
    BY DEF EditInv, Tagged, Of
  <2>2. l[1] = c
    BY <1>2, Nulls DEF EditInv, Tagged, Of
  <2>3. \A m \in Lockables : Of(m[1], writable[m])'
    BY <1>5, <2>2 DEF EditInv, Tagged, Of
  <2>4. \A u \in Threads : Of(call[u].id, call[u].ctx)'
    BY <1>4 DEF EditInv, Tagged, Of, NoCall
  <2>5. \A u \in Threads : \A r \in Slots : Of(permits[u][r].id, permits[u][r].ctx)'
    BY <1>3, <1>4 DEF EditInv, Tagged, Of
  <2> QED
    BY <2>1, <2>3, <2>4, <2>5 DEF Tagged
<1>8. WriteCopies'
  <2> SUFFICES ASSUME NEW u \in Threads, NEW r \in Slots, Writes(u, r)'
               PROVE  WriteCopy(permits[u][r])'
    BY DEF WriteCopies
  <2>1. CASE u = t /\ r = s
    BY <1>2, <1>3, <1>4, <1>5, <2>1 DEF WriteCopy
  <2>2. CASE ~(u = t /\ r = s)
    <3>1. permits'[u][r] = permits[u][r] /\ Writes(u, r)
      BY <1>4, <2>2 DEF Writes
    <3> QED
      BY <1>5, <1>6, <3>1 DEF WriteCopy
  <2> QED
    BY <2>1, <2>2
<1>9. Written'
  <2> SUFFICES ASSUME NEW m \in Lockables, writable'[m] # None
               PROVE  \E u \in Threads : \E r \in Slots : (Writes(u, r) /\ permits[u][r].lk = m)'
    BY DEF Written
  <2>1. CASE m = l
    BY <1>3, <1>4, <2>1 DEF Writes
  <2>2. CASE m # l
    <3>1. PICK u \in Threads, r \in Slots : Writes(u, r) /\ permits[u][r].lk = m
      BY <1>5, <2>2 DEF EditInv, Copies, Written
    <3>2. permits'[u][r] = permits[u][r]
      BY <1>4, <3>1 DEF Writes
    <3> QED
      BY <3>1, <3>2 DEF Writes
  <2> QED
    BY <2>1, <2>2
<1>10. AllTaking'
  <2> SUFFICES ASSUME NEW u \in Threads, pc'[u] \in {"wrFetch", "wrTake"}
               PROVE  Taking(u)'
    BY DEF AllTaking, Taking
  <2>1. u # t /\ pc'[u] = pc[u] /\ call'[u] = call[u]
    BY <1>4
  <2>2. /\ call[u].id \in Contexts /\ call[u].lk \in Lockables \ {l}
        /\ lockables[call[u].id] = call[u].lk
    BY <1>2, <2>1, CallOwns
  <2>3. call[u].id # c
    BY <1>2, <2>2
  <2>4. Taking(u)
    BY DEF EditInv, Copies, AllTaking
  <2> QED
    BY <1>5, <2>1, <2>2, <2>3, <2>4 DEF Taking
<1>11. AllCreating'
  <2> SUFFICES ASSUME NEW u \in Threads, pc'[u] = "newLock" PROVE Creating(u)'
    BY DEF AllCreating, Creating
  <2>1. u # t /\ pc'[u] = pc[u] /\ call'[u] = call[u]
    BY <1>4
  <2> QED
    BY <1>4, <2>1 DEF EditInv, Copies, AllCreating, Creating
<1>12. AllKept'
  <2> SUFFICES ASSUME NEW d \in Contexts PROVE Kept(d)'
    BY DEF AllKept
  <2>1. CASE d = c
    <3>1. cache'[d] \notin stale' /\ writable'[lockables[d]] # None /\ lockables[d] # None
      BY <1>2, <1>5, <2>1, Nulls, Grounds DEF TypeOK
    <3> QED
      BY <3>1 DEF Kept, HasCopy
  <2>2. CASE d # c
    <3>1. cache'[d] = cache[d] /\ Kept(d)
      BY <2>2 DEF EditInv, Copies, AllKept
    <3>2. lockables[d] # None => lockables[d] \in Lockables \ {l}
      BY <1>2, <2>2, Nulls, Grounds, OwnLockable DEF TypeOK, EditInv
    <3> QED
      BY <1>5, <3>1, <3>2 DEF Kept, HasCopy
  <2> QED
    BY <2>1, <2>2
<1>13. ReadCopies'
  <2> SUFFICES ASSUME NEW u \in Threads, NEW r \in Slots, permits'[u][r].kind = "read"
               PROVE  ReadCopy(permits[u][r])'
    BY DEF ReadCopies, ReadCopy
  <2>1. permits'[u][r] = permits[u][r] /\ permits[u][r].lk \in Lockables
    BY <1>3, <1>4, Grounds DEF Shape
  <2>2. ReadCopy(permits[u][r])
    BY DEF EditInv, Copies, ReadCopies
  <2> QED
    BY <1>2, <1>5, <2>1, <2>2, Nulls DEF ReadCopy, Misses
<1> QED
  BY <1>7, <1>8, <1>9, <1>10, <1>11, <1>12, <1>13 DEF EditInv, Copies

LEMMA ContextTakenEdit ==
  ASSUME Ground, EditInv, NEW t \in Threads, ContextTaken(t) \/ ContextCreated(t)
  PROVE  EditInv'
<1> DEFINE c == call[t].id
<1>1. /\ pc[t] = "wrTake" /\ c \in Contexts /\ lockables[c] = call[t].lk
      /\ Taking(t) /\ Of(c, call[t].ctx)
  BY CallOwns DEF ContextTaken, ContextCreated, EditInv, Copies, AllTaking, Tagged
<1>2. CASE ContextTaken(t)
  <2>1. /\ call[t].ctx \in {c} \X Gens /\ call[t].ctx \notin stale
        /\ Take(t, call[t].ctx) /\ UNCHANGED <<lockables, edited, stale>>
    BY <1>1, <1>2 DEF ContextTaken, Taking, Of, history
  <2>2. \A d \in Contexts : cache'[d] = IF d = c THEN None ELSE cache[d]
    BY <1>2, Grounds DEF ContextTaken, TypeOK
  <2> QED
    BY <1>1, <2>1, <2>2, TakeEdit
<1>3. CASE ContextCreated(t)
  <2>1. c \notin edited
    BY <1>1, <1>3 DEF ContextCreated, Taking, EditInv, Copies, AllKept, Kept, HasCopy
  <2>2. PICK o \in {c} \X Gens : Take(t, o) /\ stale' = stale \ {o}
    BY <1>3, <2>1 DEF ContextCreated, NewInstance
  <2>3. \A d \in Contexts : cache'[d] = IF d = c THEN None ELSE cache[d]
    BY <1>1, <1>3 DEF ContextCreated, Taking
  <2>4. UNCHANGED <<lockables, edited>>
    BY <1>3 DEF ContextCreated
  <2>5. o \notin stale' /\ stale' \subseteq stale
    BY <2>2
  <2> QED
    BY <1>1, <2>2, <2>3, <2>4, <2>5, TakeEdit
<1> QED
  BY <1>2, <1>3

-----------------------------------------------------------------------------
(* Permits to write are revoked.                                           *)

LEMMA RevokeWriteEdit ==
  ASSUME Ground, EditInv, NEW t \in Threads, NEW s \in Slots, RevokeWrite(t, s)
  PROVE  EditInv'
<1> DEFINE p == permits[t][s]
           c == permits[t][s].id
           l == permits[t][s].lk
           o == permits[t][s].ctx
<1>1. /\ pc[t] = "work" /\ Writes(t, s) /\ UNCHANGED <<lockables, pc, call, edited, stale>>
      /\ c \in Contexts /\ l \in Lockables /\ lockables[c] = l /\ lock[l].writer = t
      /\ WriteCopy(p)
  BY PermitOwns DEF RevokeWrite, history, Writes, EditInv, Copies, WriteCopies
<1>2. o \in Instances \ stale /\ writable[l] = o /\ Of(c, o) /\ c = l[1]
  BY <1>1, Nulls DEF WriteCopy, EditInv, Tagged, Of
<1>3. ASSUME NEW u \in Threads, NEW r \in Slots, permits[u][r].kind # "none"
      PROVE  /\ permits[u][r].id \in Contexts /\ permits[u][r].lk \in Lockables
             /\ lockables[permits[u][r].id] = permits[u][r].lk
             /\ permits[u][r].lk = l <=> permits[u][r].id = c
             /\ Writes(u, r) /\ permits[u][r].lk = l => u = t
  <2>1. /\ permits[u][r].id \in Contexts /\ permits[u][r].lk \in Lockables
        /\ lockables[permits[u][r].id] = permits[u][r].lk
    BY <1>3, Grounds DEF Shape, Stable, PermitStable
  <2>2. permits[u][r].lk = l <=> permits[u][r].id = c
    BY <1>1, <2>1, Nulls, OwnLockable DEF EditInv
  <2> QED
    BY <1>1, <2>1, <2>2, PermitOwns
<1>4. CASE WriteHolds(l, t) = 1
  <2>1. /\ \A m \in Lockables : writable'[m] = IF m = l THEN None ELSE writable[m]
        /\ \A d \in Contexts : cache'[d] = IF d = c THEN o ELSE cache[d]
    BY <1>1, <1>4, Grounds DEF RevokeWrite, TypeOK
  <2>2. ASSUME NEW u \in Threads, NEW r \in Slots
        PROVE  permits'[u][r] = IF u = t /\ r = s THEN NoPermit
                                ELSE IF permits[u][r].kind = "read" /\ permits[u][r].lk = l
                                THEN [permits[u][r] EXCEPT !.ctx = o] ELSE permits[u][r]
    <3> DEFINE f == Refreshed(l, o)
    <3>1. /\ f[u][r] = IF permits[u][r].kind = "read" /\ permits[u][r].lk = l
                       THEN [permits[u][r] EXCEPT !.ctx = o] ELSE permits[u][r]
          /\ f[u] = [q \in Slots |-> f[u][q]] /\ f = [v \in Threads |-> f[v]]
          /\ f[t] = [q \in Slots |-> f[t][q]]
      BY DEF Refreshed
    <3>2. permits' = [f EXCEPT ![t][s] = NoPermit]
      BY <1>4 DEF RevokeWrite
    <3> HIDE DEF f
    <3>3. permits'[u][r] = IF u = t /\ r = s THEN NoPermit ELSE f[u][r]
      BY <3>1, <3>2
    <3> QED
      BY <3>1, <3>3
  <2>3. ASSUME NEW u \in Threads, NEW r \in Slots
        PROVE  \/ permits'[u][r] = NoPermit
               \/ /\ permits[u][r].kind # "none" /\ permits'[u][r].kind = permits[u][r].kind
                  /\ permits'[u][r].id = permits[u][r].id
                  /\ permits'[u][r].lk = permits[u][r].lk
                  /\ permits'[u][r].ctx \in {o, permits[u][r].ctx}
                  /\ permits[u][r].lk = l /\ permits[u][r].kind = "read"
                       => permits'[u][r].ctx = o
                  /\ permits[u][r].lk # l => permits'[u][r] = permits[u][r]
    <3>1. permits[u][r] \in Permit /\ (permits[u][r].kind = "none" => permits[u][r] = NoPermit)
      BY Grounds DEF TypeOK, Shape
    <3>2. CASE u = t /\ r = s
      BY <2>2, <3>2
    <3>3. CASE ~(u = t /\ r = s) /\ permits[u][r].kind = "read" /\ permits[u][r].lk = l
      <4>1. permits'[u][r] = [permits[u][r] EXCEPT !.ctx = o]
        BY <2>2, <3>3
      <4> QED
        BY <3>1, <3>3, <4>1 DEF Permit
    <3>4. CASE ~(u = t /\ r = s) /\ ~(permits[u][r].kind = "read" /\ permits[u][r].lk = l)
      <4>1. permits'[u][r] = permits[u][r]
        BY <2>2, <3>4
      <4> QED
        BY <3>1, <3>4, <4>1
    <3> QED
      BY <3>2, <3>3, <3>4
  <2>4. ASSUME NEW u \in Threads, NEW r \in Slots, Writes(u, r)'
        PROVE  /\ permits'[u][r] = permits[u][r] /\ Writes(u, r)
               /\ permits[u][r].lk \in Lockables \ {l} /\ permits[u][r].id \in Contexts \ {c}
    <3>1. /\ permits[u][r].kind = "write" /\ ~(u = t /\ r = s)
          /\ permits'[u][r] = permits[u][r]
      <4>1. permits'[u][r].kind = "write" /\ permits'[u][r] # NoPermit
        BY <2>4 DEF Writes, NoPermit
      <4>2. permits[u][r].kind = "write" /\ ~(u = t /\ r = s)
        BY <2>2, <2>3, <4>1
      <4> QED
        BY <2>2, <4>2
    <3>2. permits[u][r].lk # l
      <4> SUFFICES ASSUME permits[u][r].lk = l PROVE FALSE
        OBVIOUS
      <4>1. u = t /\ r # s
        BY <1>3, <3>1 DEF Writes
      <4>2. {r, s} \subseteq PermitsOn(t, l, "write")
        BY <1>1, <3>1, <4>1 DEF PermitsOn, Writes
      <4>3. Cardinality({r, s}) = 2
        <5>1. IsFiniteSet({s}) /\ Cardinality({s}) = 1
          BY FS_Singleton
        <5>2. Cardinality({s} \cup {r}) = 1 + 1
          BY <4>1, <5>1, FS_AddElement
        <5>3. {s} \cup {r} = {r, s}
          OBVIOUS
        <5> QED
          BY <5>2, <5>3
      <4>4. Cardinality(PermitsOn(t, l, "write")) >= 2
        BY <4>2, <4>3, PermitsFinite, FS_Subset
      <4>5. WriteHolds(l, t) = Cardinality(PermitsOn(t, l, "write"))
        BY <1>1, Grounds, PermitsNat DEF HoldsBalance, Balanced, Making
      <4> QED
        BY <1>4, <4>4, <4>5, PermitsNat
    <3> QED
      BY <1>3, <3>1, <3>2 DEF Writes
  <2>5. Tagged'
    <3>1. \A d \in Contexts : Of(d, lockables[d])' /\ Of(d, cache[d])'
      BY <1>1, <1>2, <2>1 DEF EditInv, Tagged, Of
    <3>2. \A m \in Lockables : Of(m[1], writable[m])'
      BY <2>1 DEF EditInv, Tagged, Of
    <3>3. \A u \in Threads : Of(call[u].id, call[u].ctx)'
      BY <1>1 DEF EditInv, Tagged, Of
    <3>4. ASSUME NEW u \in Threads, NEW r \in Slots
          PROVE  Of(permits[u][r].id, permits[u][r].ctx)'
      <4>1. Of(permits[u][r].id, permits[u][r].ctx)
        BY DEF EditInv, Tagged
      <4> QED
        BY <1>2, <1>3, <2>3, <4>1 DEF Of, NoPermit
    <3> QED
      BY <3>1, <3>2, <3>3, <3>4 DEF Tagged
  <2>6. WriteCopies'
    BY <1>1, <2>1, <2>4 DEF EditInv, Copies, WriteCopies, WriteCopy
  <2>7. Written'
    <3> SUFFICES ASSUME NEW m \in Lockables, writable'[m] # None
                 PROVE  \E u \in Threads : \E r \in Slots : (Writes(u, r) /\ permits[u][r].lk = m)'
      BY DEF Written
    <3>1. m # l
      BY <2>1
    <3>2. PICK u \in Threads, r \in Slots : Writes(u, r) /\ permits[u][r].lk = m
      BY <2>1, <3>1 DEF EditInv, Copies, Written
    <3>3. permits'[u][r] = permits[u][r]
      BY <2>2, <3>1, <3>2
    <3> QED
      BY <3>2, <3>3 DEF Writes
  <2>8. AllTaking'
    <3> SUFFICES ASSUME NEW u \in Threads, pc[u] \in {"wrFetch", "wrTake"} PROVE Taking(u)'
      BY <1>1 DEF AllTaking, Taking
    <3>1. Taking(u) /\ call[u].lk \in Lockables /\ call[u].id \in Contexts
          /\ lock[call[u].lk].writer = u /\ lockables[call[u].id] = call[u].lk
      BY CallOwns DEF EditInv, Copies, AllTaking
    <3>2. call[u].lk # l /\ call[u].id # c
      BY <1>1, <3>1
    <3> QED
      BY <1>1, <2>1, <3>1, <3>2 DEF Taking
  <2>9. AllCreating'
    <3> SUFFICES ASSUME NEW u \in Threads, pc[u] = "newLock", NEW r \in Slots
                 PROVE  permits'[u][r].lk # call[u].lk
      BY <1>1 DEF AllCreating, Creating
    <3>1. permits[u][r].lk # call[u].lk /\ call[u].lk # None
      BY Grounds, Nulls DEF EditInv, Copies, AllCreating, Creating, Shape, Idle
    <3> QED
      BY <2>3, <3>1 DEF NoPermit
  <2>10. AllKept'
    <3> SUFFICES ASSUME NEW d \in Contexts PROVE Kept(d)'
      BY DEF AllKept
    <3>1. CASE d = c
      BY <1>1, <1>2, <2>1, <3>1, Nulls DEF Kept, HasCopy
    <3>2. CASE d # c
      <4>1. cache'[d] = cache[d] /\ Kept(d)
        BY <2>1, <3>2 DEF EditInv, Copies, AllKept
      <4>2. lockables[d] # None => lockables[d] \in Lockables \ {l}
        BY <1>1, <3>2, Nulls, Grounds, OwnLockable DEF TypeOK, EditInv
      <4> QED
        BY <1>1, <2>1, <4>1, <4>2 DEF Kept, HasCopy
    <3> QED
      BY <3>1, <3>2
  <2>11. ReadCopies'
    <3> SUFFICES ASSUME NEW u \in Threads, NEW r \in Slots, permits'[u][r].kind = "read"
                 PROVE  ReadCopy(permits[u][r])'
      BY DEF ReadCopies, ReadCopy
    <3>1. ReadCopy(permits[u][r])
      BY DEF EditInv, Copies, ReadCopies
    <3>2. permits'[u][r] # NoPermit
      BY DEF NoPermit
    <3>3. CASE permits[u][r].lk = l
      <4>1. permits'[u][r].ctx = o
        BY <2>3, <3>2, <3>3
      <4> QED
        BY <1>1, <1>2, <4>1, Nulls DEF ReadCopy, Misses
    <3>4. CASE permits[u][r].lk # l
      <4>1. permits'[u][r] = permits[u][r] /\ permits[u][r].lk \in Lockables
        BY <1>3, <2>3, <3>2, <3>4
      <4> QED
        BY <1>1, <2>1, <3>1, <3>4, <4>1 DEF ReadCopy, Misses
    <3> QED
      BY <3>3, <3>4
  <2> QED
    BY <2>5, <2>6, <2>7, <2>8, <2>9, <2>10, <2>11 DEF EditInv, Copies
<1>5. CASE WriteHolds(l, t) # 1
  <2>1. /\ UNCHANGED <<writable, cache>>
        /\ \A u \in Threads : \A r \in Slots :
             permits'[u][r] = IF u = t /\ r = s THEN NoPermit ELSE permits[u][r]
    BY <1>5, Grounds DEF RevokeWrite, TypeOK
  <2>2. PICK q \in Slots \ {s} : permits[t][q].kind = "write" /\ permits[t][q].lk = l
    <3> SUFFICES ASSUME \A q \in Slots \ {s} : q \notin PermitsOn(t, l, "write")
                 PROVE  FALSE
      BY DEF PermitsOn
    <3>1. PermitsOn(t, l, "write") = {s}
      BY <1>1 DEF PermitsOn, Writes
    <3>2. Cardinality({s}) = 1
      BY FS_Singleton
    <3>3. WriteHolds(l, t) = 1
      <4>1. WriteHolds(l, t) = Cardinality(PermitsOn(t, l, "write"))
        BY <1>1, Grounds, PermitsNat DEF HoldsBalance, Balanced, Making
      <4> QED
        BY <3>1, <3>2, <4>1
    <3> QED
      BY <1>5, <3>3
  <2>3. Tagged'
    BY <1>1, <2>1 DEF EditInv, Tagged, Of, NoPermit
  <2>4. WriteCopies'
    BY <1>1, <2>1 DEF EditInv, Copies, WriteCopies, WriteCopy, Writes, NoPermit
  <2>5. Written'
    <3> SUFFICES ASSUME NEW m \in Lockables, writable[m] # None
                 PROVE  \E u \in Threads : \E r \in Slots : (Writes(u, r) /\ permits[u][r].lk = m)'
      BY <2>1 DEF Written
    <3>1. CASE m = l
      BY <2>1, <2>2, <3>1 DEF Writes
    <3>2. CASE m # l
      <4>1. PICK u \in Threads, r \in Slots : Writes(u, r) /\ permits[u][r].lk = m
        BY DEF EditInv, Copies, Written
      <4>2. permits'[u][r] = permits[u][r]
        BY <2>1, <3>2, <4>1
      <4> QED
        BY <4>1, <4>2 DEF Writes
    <3> QED
      BY <3>1, <3>2
  <2>6. AllTaking' /\ AllKept'
    BY <1>1, <2>1 DEF EditInv, Copies, AllTaking, Taking, AllKept, Kept, HasCopy
  <2>7. AllCreating'
    <3> SUFFICES ASSUME NEW u \in Threads, pc[u] = "newLock", NEW r \in Slots
                 PROVE  permits'[u][r].lk # call[u].lk
      BY <1>1 DEF AllCreating, Creating
    <3>1. permits[u][r].lk # call[u].lk /\ call[u].lk # None
      BY Grounds, Nulls DEF EditInv, Copies, AllCreating, Creating, Shape, Idle
    <3> QED
      BY <2>1, <3>1 DEF NoPermit
  <2>8. ReadCopies'
    BY <1>1, <2>1 DEF EditInv, Copies, ReadCopies, ReadCopy, Misses, NoPermit
  <2> QED
    BY <2>3, <2>4, <2>5, <2>6, <2>7, <2>8 DEF EditInv, Copies
<1> QED
  BY <1>4, <1>5

-----------------------------------------------------------------------------
(* New LockableContexts, edits and overflow.                               *)

LEMMA LockableCreatedEdit ==
  ASSUME Ground, EditInv, NEW t \in Threads, LockableCreated(t)
  PROVE  EditInv'
<1> DEFINE c == call[t].id
<1>1. PICK l \in Lockables :
        /\ NewLockable(c, l) /\ lockables' = [lockables EXCEPT ![c] = l]
        /\ call' = [call EXCEPT ![t].lk = l] /\ writable' = [writable EXCEPT ![l] = None]
  BY DEF LockableCreated
<1>2. /\ pc[t] = "create" /\ c \in Contexts /\ lockables[c] = None
      /\ UNCHANGED <<cache, permits, edited, stale>>
  BY Grounds DEF LockableCreated, Shape, Idle, Stable, CallStable, history
<1>3. /\ l \in {c} \X Gens
      /\ \A d \in Contexts : lockables[d] # l
      /\ \A u \in Threads : call[u].lk # l
      /\ \A u \in Threads : \A r \in Slots : permits[u][r].lk # l
  BY <1>1 DEF NewLockable, LockableInUse
<1>4. /\ \A d \in Contexts : lockables'[d] = IF d = c THEN l ELSE lockables[d]
      /\ \A m \in Lockables : writable'[m] = IF m = l THEN None ELSE writable[m]
  BY <1>1, Grounds DEF TypeOK
<1>5. \A u \in Threads :
        /\ call'[u].ctx = call[u].ctx /\ call'[u].id = call[u].id
        /\ u # t => call'[u] = call[u] /\ pc'[u] = pc[u]
        /\ u = t => call'[u].lk = l /\ pc'[u] = "newLock"
  BY <1>1, Grounds DEF TypeOK, Call, LockableCreated
<1>6. ASSUME NEW u \in Threads, NEW r \in Slots, permits[u][r].kind # "none"
      PROVE  permits[u][r].lk \in Lockables \ {l}
  BY <1>3, <1>6, Grounds DEF Shape
<1>7. Tagged'
  BY <1>2, <1>3, <1>4, <1>5 DEF EditInv, Tagged, Of
<1>8. WriteCopies'
  BY <1>2, <1>4, <1>6 DEF EditInv, Copies, WriteCopies, WriteCopy, Writes
<1>9. Written'
  BY <1>2, <1>4 DEF EditInv, Copies, Written, Writes
<1>10. AllTaking'
  <2> SUFFICES ASSUME NEW u \in Threads, pc'[u] \in {"wrFetch", "wrTake"} PROVE Taking(u)'
    BY DEF AllTaking, Taking
  <2>1. u # t /\ call'[u] = call[u] /\ pc'[u] = pc[u] /\ Taking(u)
    BY <1>5 DEF EditInv, Copies, AllTaking
  <2>2. call[u].lk \in Lockables \ {l}
    BY <1>3, <2>1, CallOwns
  <2> QED
    BY <1>2, <1>4, <2>1, <2>2 DEF Taking
<1>11. AllCreating'
  BY <1>2, <1>3, <1>5 DEF EditInv, Copies, AllCreating, Creating
<1>12. AllKept'
  <2> SUFFICES ASSUME NEW d \in Contexts PROVE Kept(d)'
    BY DEF AllKept
  <2>1. Kept(d)
    BY DEF EditInv, Copies, AllKept
  <2>2. CASE d = c
    BY <1>2, <2>1, <2>2 DEF Kept, HasCopy
  <2>3. CASE d # c
    <3>1. lockables'[d] = lockables[d]
          /\ (lockables[d] # None => lockables[d] \in Lockables \ {l})
      BY <1>3, <1>4, <2>3, Grounds DEF TypeOK
    <3> QED
      BY <1>2, <1>4, <2>1, <3>1 DEF Kept, HasCopy
  <2> QED
    BY <2>2, <2>3
<1>13. ReadCopies'
  BY <1>2, <1>4, <1>6 DEF EditInv, Copies, ReadCopies, ReadCopy, Misses
<1> QED
  BY <1>7, <1>8, <1>9, <1>10, <1>11, <1>12, <1>13 DEF EditInv, Copies

\* An edit leaves behind the copies of readers only: nothing is cached or taken.
LEMMA EditEdit ==
  ASSUME Ground, EditInv, NEW t \in Threads, NEW s \in Slots, Edit(t, s)
  PROVE  EditInv'
<1> DEFINE p == permits[t][s]
           c == permits[t][s].id
           l == permits[t][s].lk
<1>1. /\ pc[t] = "work" /\ Writes(t, s) /\ WritesContext(t, c)
      /\ UNCHANGED <<lockables, cache, writable, permits, pc, call>>
      /\ c \in Contexts /\ l \in Lockables /\ lockables[c] = l /\ lock[l].writer = t
      /\ WriteCopy(p) /\ edited' = edited \cup {c}
  BY PermitOwns DEF Edit, Writes, WritesContext, EditInv, Copies, WriteCopies
<1>2. \A x : x \in stale' => x \in stale \/ (x \in {c} \X Gens /\ x # p.ctx)
  BY DEF Edit
<1>3. Tagged'
  BY <1>1 DEF EditInv, Tagged, Of
<1>4. WriteCopies'
  <2> SUFFICES ASSUME NEW u \in Threads, NEW r \in Slots, Writes(u, r)
               PROVE  WriteCopy(permits[u][r])'
    BY <1>1 DEF WriteCopies, Writes
  <2>1. /\ WriteCopy(permits[u][r]) /\ Of(permits[u][r].id, permits[u][r].ctx)
        /\ permits[u][r].id \in Contexts
        /\ lockables[permits[u][r].id] = permits[u][r].lk
    BY PermitOwns DEF EditInv, Copies, WriteCopies, Tagged
  <2>2. permits[u][r].ctx \in {permits[u][r].id} \X Gens
    BY <2>1, Nulls DEF WriteCopy, Of
  <2>3. permits[u][r].id = c => permits[u][r].ctx = p.ctx
    BY <1>1, <2>1 DEF WriteCopy
  <2>4. permits[u][r].ctx \notin stale'
    BY <1>2, <2>1, <2>2, <2>3 DEF WriteCopy
  <2> QED
    BY <1>1, <2>1, <2>4 DEF WriteCopy
<1>5. Written'
  BY <1>1 DEF EditInv, Copies, Written, Writes
<1>6. AllTaking'
  <2> SUFFICES ASSUME NEW u \in Threads, pc[u] \in {"wrFetch", "wrTake"} PROVE Taking(u)'
    BY <1>1 DEF AllTaking, Taking
  <2>1. Taking(u) /\ Of(call[u].id, call[u].ctx) /\ call[u].id # c
    BY <1>1, Alone DEF EditInv, Copies, AllTaking, Tagged
  <2>2. pc[u] = "wrTake" => call[u].ctx \notin stale'
    <3>1. call[u].ctx \notin {c} \X Gens
      BY <1>1, <2>1, CacheAssumption DEF Of, Gens
    <3> QED
      BY <1>2, <2>1, <3>1 DEF Taking
  <2> QED
    BY <1>1, <2>1, <2>2 DEF Taking
<1>7. AllCreating'
  BY <1>1 DEF EditInv, Copies, AllCreating, Creating
<1>8. AllKept'
  <2> SUFFICES ASSUME NEW d \in Contexts PROVE Kept(d)'
    BY DEF AllKept
  <2>1. Kept(d) /\ Of(d, cache[d])
    BY DEF EditInv, Copies, AllKept, Tagged
  <2>2. CASE d = c
    <3>1. cache[d] = None /\ writable[l] # None /\ l # None
      BY <1>1, <2>2, Nulls DEF WriteCopy
    <3>2. cache[d] \notin stale'
      BY <1>1, <1>2, <2>1, <3>1, CacheAssumption DEF Kept, Gens
    <3> QED
      BY <1>1, <2>2, <3>1, <3>2 DEF Kept, HasCopy
  <2>3. CASE d # c
    <3>1. cache[d] \notin {c} \X Gens
      BY <1>1, <2>1, <2>3, CacheAssumption DEF Of, Gens
    <3> QED
      BY <1>1, <1>2, <2>1, <2>3, <3>1 DEF Kept, HasCopy
  <2> QED
    BY <2>2, <2>3
<1>9. ReadCopies'
  <2> SUFFICES ASSUME NEW u \in Threads, NEW r \in Slots, permits[u][r].kind = "read"
               PROVE  ReadCopy(permits[u][r])'
    BY <1>1 DEF ReadCopies, ReadCopy
  <2>1. /\ ReadCopy(permits[u][r]) /\ Of(permits[u][r].id, permits[u][r].ctx)
        /\ lockables[permits[u][r].id] = permits[u][r].lk
    BY Grounds DEF EditInv, Copies, ReadCopies, Tagged, Stable, PermitStable
  <2>2. CASE permits[u][r].id = c
    BY <1>1, <2>1, <2>2, Nulls DEF ReadCopy, WriteCopy
  <2>3. CASE permits[u][r].id # c
    BY <1>1, <1>2, <2>1, <2>3 DEF ReadCopy, Misses, Of
  <2> QED
    BY <2>2, <2>3
<1> QED
  BY <1>3, <1>4, <1>5, <1>6, <1>7, <1>8, <1>9 DEF EditInv, Copies

LEMMA OverflowEdit ==
  ASSUME Ground, EditInv, NEW c \in Contexts, Overflow(c)
  PROVE  EditInv'
<1>1. PICK o \in Instances : NewInstance(c, o) /\ cache' = [cache EXCEPT ![c] = o]
                             /\ stale' = stale \ {o}
  BY DEF Overflow, EditInv, Copies, AllKept, Kept
<1>2. /\ cache[c] # None /\ o # None /\ o \in {c} \X Gens
      /\ UNCHANGED <<lockables, writable, permits, pc, call, edited>>
  BY <1>1, Nulls DEF Overflow, NewInstance
<1>3. \A d \in Contexts : cache'[d] = IF d = c THEN o ELSE cache[d]
  BY <1>1, Grounds DEF TypeOK
<1>4. Tagged'
  BY <1>2, <1>3 DEF EditInv, Tagged, Of
<1>5. WriteCopies'
  <2> SUFFICES ASSUME NEW u \in Threads, NEW r \in Slots, Writes(u, r)
               PROVE  WriteCopy(permits[u][r])'
    BY <1>2 DEF WriteCopies, Writes
  <2>1. WriteCopy(permits[u][r]) /\ permits[u][r].id \in Contexts
    BY PermitOwns DEF EditInv, Copies, WriteCopies
  <2> QED
    BY <1>1, <1>2, <1>3, <2>1 DEF WriteCopy
<1>6. Written'
  BY <1>2 DEF EditInv, Copies, Written, Writes
<1>7. AllTaking'
  <2> SUFFICES ASSUME NEW u \in Threads, pc[u] \in {"wrFetch", "wrTake"} PROVE Taking(u)'
    BY <1>2 DEF AllTaking, Taking
  <2>1. Taking(u) /\ call[u].id \in Contexts
    BY CallOwns DEF EditInv, Copies, AllTaking
  <2> QED
    BY <1>1, <1>2, <1>3, <2>1 DEF Taking
<1>8. AllCreating'
  BY <1>2 DEF EditInv, Copies, AllCreating, Creating
<1>9. AllKept'
  BY <1>1, <1>2, <1>3 DEF EditInv, Copies, AllKept, Kept, HasCopy
<1>10. ReadCopies'
  BY <1>1, <1>2 DEF EditInv, Copies, ReadCopies, ReadCopy, Misses
<1> QED
  BY <1>4, <1>5, <1>6, <1>7, <1>8, <1>9, <1>10 DEF EditInv, Copies

-----------------------------------------------------------------------------
(* The other steps, and the theorems.                                      *)

\* A thread goes on to a place where it has taken nothing, or finds what it takes.
LEMMA GoesOn ==
  ASSUME Ground, EditInv, NEW t \in Threads, NEW q \in Places \ {"newLock"}, NEW d \in Call,
         UNCHANGED <<lockables, cache, writable, permits, edited, stale>>,
         pc' = [pc EXCEPT ![t] = q], call' = [call EXCEPT ![t] = d],
         Of(d.id, d.ctx),
         q \in {"wrFetch", "wrTake"} => writable[d.lk] = None,
         q = "wrTake" => d.ctx = cache[d.id] /\ d.id \in Contexts
  PROVE  EditInv'
<1>1. \A u \in Threads : /\ pc'[u] = IF u = t THEN q ELSE pc[u]
                         /\ call'[u] = IF u = t THEN d ELSE call[u]
  BY Grounds DEF TypeOK
<1>2. Taking(t)'
  BY <1>1 DEF Taking, EditInv, Copies, AllKept, Kept
<1>3. \A u \in Threads :
        \/ pc'[u] = pc[u] /\ call'[u] = call[u]
        \/ Of(call'[u].id, call'[u].ctx) /\ pc'[u] # "newLock" /\ Taking(u)'
  BY <1>1, <1>2
<1> QED
  BY <1>3, QuietEdit

LEMMA BeginEdit ==
  ASSUME Ground, EditInv, NEW t \in Threads, NEW c \in Contexts,
         GetReadOnly(t, c) \/ GetReadWrite(t, c)
  PROVE  EditInv'
<1>1. UNCHANGED <<lockables, cache, writable, permits, edited, stale>>
      /\ lockables[c] \in Lockables \cup {None}
  BY Grounds DEF GetReadOnly, GetReadWrite, history, TypeOK
<1>2. CASE UNCHANGED <<pc, call>>
  BY <1>1, <1>2, QuietEdit
<1>3. ASSUME NEW n \in Nat, NEW l \in Lockables \cup {None},
             NEW q \in {"rdLock", "wrLock", "create"},
             pc' = [pc EXCEPT ![t] = q],
             call' = [call EXCEPT ![t] = [id |-> c, lk |-> l, ctx |-> None, reads |-> n]]
      PROVE  EditInv'
  <2> DEFINE d == [id |-> c, lk |-> l, ctx |-> None, reads |-> n]
  <2>1. d \in Call /\ Of(d.id, d.ctx) /\ q \in Places \ {"newLock"}
    BY DEF Call, Of, Places
  <2> QED
    BY <1>1, <1>3, <2>1, GoesOn
<1>4. CASE GetReadOnly(t, c) /\ ~UNCHANGED <<pc, call>>
  <2>1. /\ pc' = [pc EXCEPT ![t] = "rdLock"]
        /\ call' = [call EXCEPT ![t] = [id |-> c, lk |-> lockables[c], ctx |-> None, reads |-> 0]]
    BY <1>4 DEF GetReadOnly, NoCall
  <2> QED
    BY <1>1, <1>3, <2>1
<1>5. CASE GetReadWrite(t, c) /\ lockables[c] # None
  <2> DEFINE n == ReadHolds(lockables[c], t)
  <2>1. n \in Nat
    BY <1>1, <1>5, Grounds DEF ReadHolds, TypeOK
  <2>2. /\ pc' = [pc EXCEPT ![t] = "wrLock"]
        /\ call' = [call EXCEPT ![t] = [id |-> c, lk |-> lockables[c], ctx |-> None, reads |-> n]]
    BY <1>5 DEF GetReadWrite, NoCall
  <2> HIDE DEF n
  <2> QED
    BY <1>1, <1>3, <2>1, <2>2
<1>6. CASE GetReadWrite(t, c) /\ lockables[c] = None
  <2>1. /\ pc' = [pc EXCEPT ![t] = "create"]
        /\ call' = [call EXCEPT ![t] = [id |-> c, lk |-> None, ctx |-> None, reads |-> 0]]
    BY <1>6 DEF GetReadWrite, NoCall
  <2> QED
    BY <1>3, <2>1
<1> QED
  BY <1>2, <1>4, <1>5, <1>6

\* A creator that gets its new lock finds no copy there: nobody writes, and it did not.
LEMMA NewLockedEdit ==
  ASSUME Ground, EditInv, NEW t \in Threads, NewLocked(t)
  PROVE  EditInv'
<1> DEFINE l == call[t].lk
<1>1. /\ pc[t] = "newLock" /\ l \in Lockables /\ CanWrite(l, t)
      /\ UNCHANGED <<lockables, cache, writable, permits, call, edited, stale>>
      /\ call[t] \in Call
  BY Grounds DEF NewLocked, Shape, Idle, history, TypeOK
<1>2. writable[l] = None
  <2> SUFFICES ASSUME writable[l] # None PROVE FALSE
    OBVIOUS
  <2>1. PICK u \in Threads, r \in Slots : Writes(u, r) /\ permits[u][r].lk = l
    BY <1>1 DEF EditInv, Copies, Written
  <2>2. lock[l].writer = u
    BY <2>1, PermitOwns
  <2>3. u = t
    BY <1>1, <2>2, CacheAssumption DEF CanWrite
  <2> QED
    BY <1>1, <2>1, <2>3 DEF EditInv, Copies, AllCreating, Creating
<1>3. pc' = [pc EXCEPT ![t] = "wrFetch"] /\ call' = [call EXCEPT ![t] = call[t]]
  BY <1>1, Grounds DEF NewLocked, TypeOK
<1>4. Of(call[t].id, call[t].ctx)
  BY DEF EditInv, Tagged
<1> QED
  BY <1>1, <1>2, <1>3, <1>4, GoesOn DEF Places

LEMMA RevokeReadEdit ==
  ASSUME Ground, EditInv, NEW t \in Threads, NEW s \in Slots, RevokeRead(t, s)
  PROVE  EditInv'
<1>1. /\ UNCHANGED <<lockables, cache, writable, pc, call, edited, stale>>
      /\ permits[t][s].kind = "read"
      /\ \A u \in Threads : \A r \in Slots :
           permits'[u][r] = IF u = t /\ r = s THEN NoPermit ELSE permits[u][r]
  BY Grounds DEF RevokeRead, history, TypeOK
<1> QED
  BY <1>1, QuietEdit

LEMMA GoesOnEdit ==
  ASSUME Ground, EditInv, NEW t \in Threads,
         \/ Start(t) \/ Finish(t) \/ ReadLocked(t) \/ ReadTimedOut(t) \/ WriteTimedOut(t)
         \/ Relocked(t) \/ WriteFetched(t)
         \/ WriteLocked(t) /\ writable[call[t].lk] = None
  PROVE  EditInv'
<1> DEFINE fetched == [call[t] EXCEPT !.ctx = cache[call[t].id]]
<1>1. /\ UNCHANGED <<lockables, cache, writable, permits, edited, stale>>
      /\ call[t] \in Call /\ Of(call[t].id, call[t].ctx)
      /\ UNCHANGED call => call' = [call EXCEPT ![t] = call[t]]
  BY Grounds DEF Start, Finish, ReadLocked, ReadTimedOut, WriteTimedOut, Relocked, WriteFetched,
     WriteLocked, GiveUp, history, TypeOK, EditInv, Tagged
<1>2. CASE UNCHANGED call /\ \E q \in {"idle", "work", "rdFetch", "relock"} :
             pc' = [pc EXCEPT ![t] = q]
  <2>1. PICK q \in {"idle", "work", "rdFetch", "relock"} : pc' = [pc EXCEPT ![t] = q]
    BY <1>2
  <2>2. q \in Places \ {"newLock", "wrFetch", "wrTake"}
    BY DEF Places
  <2> QED
    BY <1>1, <1>2, <2>1, <2>2, GoesOn
<1>3. CASE GiveUp(t)
  <2>1. NoCall \in Call /\ Of(NoCall.id, NoCall.ctx)
    BY DEF NoCall, Call, Of
  <2> QED
    BY <1>1, <1>3, <2>1, GoesOn DEF GiveUp, Places
<1>4. CASE WriteLocked(t) /\ writable[call[t].lk] = None
  <2>1. pc' = [pc EXCEPT ![t] = "wrFetch"] /\ UNCHANGED call
    BY <1>4 DEF WriteLocked
  <2> QED
    BY <1>1, <1>4, <2>1, GoesOn DEF Places
<1>5. CASE WriteFetched(t)
  <2>1. /\ pc[t] = "wrFetch" /\ pc' = [pc EXCEPT ![t] = "wrTake"]
        /\ call[t].id \in Contexts /\ writable[call[t].lk] = None
        /\ cache[call[t].id] \in Instances \cup {None} /\ Of(call[t].id, cache[call[t].id])
    BY <1>5, Grounds, CallOwns
    DEF WriteFetched, EditInv, Copies, AllTaking, Taking, Tagged, TypeOK
  <2>2. call' = [call EXCEPT ![t] = fetched]
    BY <1>5, Grounds DEF WriteFetched, TypeOK
  <2>3. /\ fetched \in Call /\ fetched.id = call[t].id /\ fetched.lk = call[t].lk
        /\ fetched.ctx = cache[call[t].id]
    BY <1>1, <2>1 DEF Call
  <2> HIDE DEF fetched
  <2> QED
    BY <1>1, <2>1, <2>2, <2>3, GoesOn DEF Places
<1> QED
  BY <1>2, <1>3, <1>4, <1>5
  DEF Start, Finish, ReadLocked, ReadTimedOut, WriteTimedOut, Relocked

LEMMA StepEdit ==
  ASSUME NoRace, Ground, EditInv, [Next]_vars
  PROVE  EditInv'
<1>1. ASSUME NEW t \in Threads, ReadSteps(t) \/ WriteSteps(t) \/ Start(t)
      PROVE  EditInv'
  BY <1>1, GoesOnEdit, ReadFetchedEdit, WriteLockedEdit, LockableCreatedEdit, NewLockedEdit,
     ContextTakenEdit DEF ReadSteps, WriteSteps
<1>2. ASSUME NEW t \in Threads, RequestSteps(t)
      PROVE  EditInv'
  <2>1. \A c \in Contexts : ~Remove(t, c)
    BY DEF Remove, NoRace
  <2> QED
    BY <1>2, <2>1, BeginEdit, RevokeReadEdit, RevokeWriteEdit, GoesOnEdit DEF RequestSteps
<1>3. CASE UNCHANGED vars
  <2>1. UNCHANGED <<lockables, cache, writable, permits, pc, call, edited, stale>>
    BY <1>3 DEF vars
  <2> QED
    BY <2>1, QuietEdit
<1> QED
  BY <1>1, <1>2, <1>3, NoRemoval, Grounds, EditEdit, OverflowEdit DEF Next, Step

LEMMA EditsKept ==
  ASSUME Ground, EditInv
  PROVE  NoLostEdit /\ TakenWhileWritten
<1>1. TakenWhileWritten
  BY DEF TakenWhileWritten, WritesContext, EditInv, Copies, WriteCopies, WriteCopy
<1>2. \A c \in Contexts : cache[c] # None => cache[c] \notin stale
  BY DEF EditInv, Copies, AllKept, Kept
<1>3. ASSUME NEW t \in Threads, NEW s \in Slots, permits[t][s].kind # "none",
             Misses(permits[t][s].id, permits[t][s].ctx)
      PROVE  /\ permits[t][s].kind = "read"
             /\ WritesContext(t, permits[t][s].id) \/ Upgrading(t, permits[t][s].lk)
  <2> DEFINE c == permits[t][s].id
             l == permits[t][s].lk
  <2>1. permits[t][s].kind = "read" /\ l \in Lockables /\ lockables[c] = l /\ c \in Contexts
    BY <1>3, Grounds, Nulls
    DEF EditInv, Copies, WriteCopies, WriteCopy, Writes, Misses, Shape, Stable, PermitStable,
        TypeOK, Permit
  <2>2. writable[l] # None
    BY <1>3, <2>1 DEF EditInv, Copies, ReadCopies, ReadCopy
  <2>3. PICK u \in Threads, r \in Slots : Writes(u, r) /\ permits[u][r].lk = l
    BY <2>1, <2>2 DEF EditInv, Copies, Written
  <2>4. permits[u][r].id = c
    BY <2>1, <2>3, PermitOwns, OwnLockable, Nulls DEF EditInv
  <2>5. CASE u = t
    BY <2>1, <2>3, <2>4, <2>5 DEF WritesContext
  <2>6. CASE u # t
    BY <2>1, <2>3, <2>4, <2>6, StableExclusion DEF Ground, WriterExclusion
  <2> QED
    BY <2>1, <2>5, <2>6
<1> QED
  BY <1>1, <1>2, <1>3 DEF NoLostEdit

LEMMA EditsInvariant ==
  ASSUME NoRace
  PROVE  Spec => [](Ground /\ EditInv)
<1>1. Init => Ground /\ EditInv
  BY InitBalance, InitReadersOut, InitStable, InitEdit DEF Ground, ExclusionInv
<1>2. (Ground /\ EditInv) /\ [Next]_vars => (Ground /\ EditInv)'
  <2> SUFFICES ASSUME Ground, EditInv, [Next]_vars PROVE Ground' /\ EditInv'
    OBVIOUS
  <2>1. Ground'
    BY StepBalance, StepReadersOut, StepStable DEF Ground, ExclusionInv
  <2> QED
    BY <2>1, StepEdit
<1> QED
  BY <1>1, <1>2, PTL DEF Spec

\* Every edit made under a write permit is in the copy that the cache keeps and that later
\* permits give, however requests interleave, time out and upgrade.
THEOREM EditsAreKept ==
  ASSUME NoRace
  PROVE  Spec => []NoLostEdit
<1>1. Ground /\ EditInv => NoLostEdit
  BY EditsKept
<1> QED
  BY <1>1, EditsInvariant, PTL

\* A context is never in the cache while a thread has a write permit to it.
THEOREM TakenForWriting ==
  ASSUME NoRace
  PROVE  Spec => []TakenWhileWritten
<1>1. Ground /\ EditInv => TakenWhileWritten
  BY EditsKept
<1> QED
  BY <1>1, EditsInvariant, PTL
=============================================================================
