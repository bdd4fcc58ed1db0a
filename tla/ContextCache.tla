---------------------------- MODULE ContextCache ----------------------------
(***************************************************************************)
(* Permits to the cluster contexts of the Influent server:                 *)
(* influent.server.clustering.utils.ClusterContextCache.                   *)
(*                                                                         *)
(* Each request thread takes read and write permits to contexts, edits the *)
(* contexts it holds write permits to, and revokes every permit before it  *)
(* ends.  A context is in the Ehcache while nobody edits it and in the     *)
(* writableContext field of its LockableContext while somebody does.  The  *)
(* map "lockables" gives the LockableContext of a context id; it is not    *)
(* guarded by the locks it holds, so its reads and writes are steps of     *)
(* their own.                                                              *)
(*                                                                         *)
(* Identities.  The LockableContexts and the ColumnContext objects of one  *)
(* context are the pairs <<context, generation>>; an identity is fresh when *)
(* nothing refers to it, as after a garbage collection.                    *)
(***************************************************************************)
EXTENDS Integers, FiniteSets

CONSTANTS
  Threads,     \* request threads of the servlet container
  Contexts,    \* context ids (columns and files)
  MaxGen,      \* bound: identities 0..MaxGen per context
  MaxSlots,    \* bound: permits one request holds at a time
  MaxCalls,    \* bound: calls of the cache one request makes
  Preloaded,   \* contexts that exist at the start
  Creators,    \* Creators[c]: threads whose request may be the first to name c
  Removers,    \* threads whose requests may delete contexts
  Tracked,     \* contexts whose edits, and copies on disk, are followed
  None         \* null

ASSUME CacheAssumption ==
  /\ MaxGen \in Nat /\ MaxSlots \in Nat /\ MaxCalls \in Nat
  /\ IsFiniteSet(Threads)
  /\ Preloaded \subseteq Contexts /\ Tracked \subseteq Contexts
  /\ Creators \in [Contexts -> SUBSET Threads]
  /\ Removers \subseteq Threads
  /\ None \notin Threads
  /\ None \notin Contexts
  /\ None \notin Contexts \X (0..MaxGen)

Gens      == 0..MaxGen
Slots     == 1..MaxSlots
Lockables == Contexts \X Gens       \* LockableContext objects
Instances == Contexts \X Gens       \* ColumnContext objects
NoLock    == [writer |-> None, wholds |-> 0, rholds |-> [t \in Threads |-> 0]]

Permit == [kind : {"none", "read", "write"}, id : Contexts \cup {None},
           lk : Lockables \cup {None}, ctx : Instances \cup {None}]
NoPermit == [kind |-> "none", id |-> None, lk |-> None, ctx |-> None]

\* A constructor or remove() in progress: its id, its LockableContext, the
\* context found so far, and the read locks it gave up.
Call   == [id : Contexts \cup {None}, lk : Lockables \cup {None},
           ctx : Instances \cup {None}, reads : Nat]
NoCall == [id |-> None, lk |-> None, ctx |-> None, reads |-> 0]

Places == {"idle", "work", "rdLock", "rdFetch", "wrLock", "relock", "create",
           "newLock", "wrFetch", "wrTake", "rmLock", "rmDrop"}

VARIABLES
  lockables,   \* context id -> its LockableContext or None
  cache,       \* context id -> the ColumnContext in the Ehcache or None
  lock,        \* LockableContext -> state of its ReentrantReadWriteLock
  writable,    \* LockableContext -> its writableContext or None
  permits,     \* thread -> slot -> permit
  pc,          \* thread -> where it is
  call,        \* thread -> its constructor or remove() in progress
  calls,       \* thread -> calls its request has made
  edited,      \* history: contexts edited since they were created
  stale        \* history: ColumnContexts that lack an edit of their context

vars == <<lockables, cache, lock, writable, permits, pc, call, calls,
          edited, stale>>
history == <<edited, stale>>

-----------------------------------------------------------------------------
(* ReentrantReadWriteLock, as its callers see it.                          *)

WriteHolds(l, t) == IF lock[l].writer = t THEN lock[l].wholds ELSE 0
ReadHolds(l, t)  == lock[l].rholds[t]

CanRead(l, t)  == lock[l].writer \in {None, t}
CanWrite(l, t) == \/ lock[l].writer = t
                  \/ /\ lock[l].writer = None
                     /\ \A u \in Threads : ReadHolds(l, u) = 0

\* A reader also queues behind a writer that waits.
ReadContended(l, t) ==
  \/ ~CanRead(l, t)
  \/ \E u \in Threads \ {t} : pc[u] \in {"wrLock", "newLock", "rmLock"} /\ call[u].lk = l

SetReads(l, t, n) == [lock EXCEPT ![l].rholds[t] = n]
WithWriteLock(l, t, n) ==  \* the write lock once more, and n read locks again
  [lock EXCEPT ![l] = [writer |-> t, wholds |-> WriteHolds(l, t) + 1,
                       rholds |-> [@.rholds EXCEPT ![t] = n]]]
WriteUnlocked(l) ==
  [lock EXCEPT ![l].writer = IF lock[l].wholds = 1 THEN None ELSE @,
               ![l].wholds = @ - 1]

-----------------------------------------------------------------------------
(* Identities in use.                                                      *)

LockableInUse(l) ==
  \/ \E c \in Contexts : lockables[c] = l
  \/ \E t \in Threads : call[t].lk = l \/ \E s \in Slots : permits[t][s].lk = l
InstanceInUse(o) ==
  \/ \E c \in Contexts : cache[c] = o
  \/ \E l \in Lockables : writable[l] = o
  \/ \E t \in Threads : call[t].ctx = o \/ \E s \in Slots : permits[t][s].ctx = o

\* A new object; which of the unused identities it gets makes no difference.
NewLockable(c, l) == /\ l \in {c} \X Gens
                     /\ ~LockableInUse(l)
                     /\ \A g \in Gens : g < l[2] => LockableInUse(<<c, g>>)
NewInstance(c, o) == /\ o \in {c} \X Gens
                     /\ ~InstanceInUse(o)
                     /\ \A g \in Gens : g < o[2] => InstanceInUse(<<c, g>>)

FreeSlot(t, s) == /\ permits[t][s].kind = "none"
                  /\ \A r \in Slots : r < s => permits[t][r].kind # "none"

\* Back to the request, with the permit the constructor made.
Grant(t, s, p) ==
  /\ FreeSlot(t, s)
  /\ permits' = [permits EXCEPT ![t][s] = p]
  /\ pc' = [pc EXCEPT ![t] = "work"]
  /\ call' = [call EXCEPT ![t] = NoCall]

\* Back to the request with a null context and nothing locked.
GiveUp(t) ==
  /\ pc' = [pc EXCEPT ![t] = "work"]
  /\ call' = [call EXCEPT ![t] = NoCall]

-----------------------------------------------------------------------------
(* A request begins, calls the cache, and ends holding nothing.            *)

Start(t) ==
  /\ pc[t] = "idle"
  /\ pc' = [pc EXCEPT ![t] = "work"]
  /\ UNCHANGED <<lockables, cache, lock, writable, permits, call, calls, history>>

Finish(t) ==
  /\ pc[t] = "work"
  /\ \A s \in Slots : permits[t][s].kind = "none"
  /\ pc' = [pc EXCEPT ![t] = "idle"]
  /\ calls' = [calls EXCEPT ![t] = 0]
  /\ UNCHANGED <<lockables, cache, lock, writable, permits, call, history>>

\* What every call of the cache begins with.
CallCache(t) ==
  /\ pc[t] = "work"
  /\ calls[t] < MaxCalls
  /\ calls' = [calls EXCEPT ![t] = @ + 1]

-----------------------------------------------------------------------------
(* getReadOnly                                                             *)

GetReadOnly(t, c) ==
  /\ CallCache(t)
  /\ \E s \in Slots : FreeSlot(t, s)
  /\ IF lockables[c] = None
     THEN UNCHANGED <<pc, call>>        \* "non-existent context": null
     ELSE /\ pc' = [pc EXCEPT ![t] = "rdLock"]
          /\ call' = [call EXCEPT ![t] = [NoCall EXCEPT !.id = c, !.lk = lockables[c]]]
  /\ UNCHANGED <<lockables, cache, lock, writable, permits, history>>

ReadLocked(t) ==
  /\ pc[t] = "rdLock"
  /\ CanRead(call[t].lk, t)
  /\ lock' = SetReads(call[t].lk, t, ReadHolds(call[t].lk, t) + 1)
  /\ pc' = [pc EXCEPT ![t] = "rdFetch"]
  /\ UNCHANGED <<lockables, cache, writable, permits, call, calls, history>>

ReadTimedOut(t) ==
  /\ pc[t] = "rdLock"
  /\ ReadContended(call[t].lk, t)
  /\ GiveUp(t)
  /\ UNCHANGED <<lockables, cache, lock, writable, permits, calls, history>>

\* The copy being written first, otherwise the cached one.
ReadFetched(t) ==
  /\ pc[t] = "rdFetch"
  /\ \E s \in Slots :
       Grant(t, s, [kind |-> "read", id |-> call[t].id, lk |-> call[t].lk,
                    ctx |-> IF writable[call[t].lk] # None
                            THEN writable[call[t].lk] ELSE cache[call[t].id]])
  /\ UNCHANGED <<lockables, cache, lock, writable, calls, history>>

-----------------------------------------------------------------------------
(* getReadWrite                                                            *)

\* Own read locks are given up before the write lock is asked for.
GetReadWrite(t, c) ==
  /\ CallCache(t)
  /\ \E s \in Slots : FreeSlot(t, s)
  /\ LET l == lockables[c] IN
     \/ /\ l # None
        /\ pc' = [pc EXCEPT ![t] = "wrLock"]
        /\ call' = [call EXCEPT ![t] = [NoCall EXCEPT !.id = c, !.lk = l,
                                                      !.reads = ReadHolds(l, t)]]
        /\ lock' = SetReads(l, t, 0)
     \/ /\ l = None
        /\ t \in Creators[c]
        /\ pc' = [pc EXCEPT ![t] = "create"]
        /\ call' = [call EXCEPT ![t] = [NoCall EXCEPT !.id = c]]
        /\ UNCHANGED lock
  /\ UNCHANGED <<lockables, cache, writable, permits, history>>

WritePermit(t, o) == [kind |-> "write", id |-> call[t].id, lk |-> call[t].lk, ctx |-> o]

\* Mutant of WriteLocked: the read locks given up are not taken back.
WriteLockedBare(t) ==
  /\ pc[t] = "wrLock"
  /\ CanWrite(call[t].lk, t)
  /\ lock' = WithWriteLock(call[t].lk, t, 0)
  /\ IF writable[call[t].lk] # None
     THEN \E s \in Slots : Grant(t, s, WritePermit(t, writable[call[t].lk]))
     ELSE /\ pc' = [pc EXCEPT ![t] = "wrFetch"]
          /\ UNCHANGED <<permits, call>>
  /\ UNCHANGED <<lockables, cache, writable, calls, history>>

\* A reentrant writer finds its copy in writableContext.
WriteLocked(t) ==
  /\ pc[t] = "wrLock"
  /\ CanWrite(call[t].lk, t)
  /\ lock' = WithWriteLock(call[t].lk, t, call[t].reads)
  /\ IF writable[call[t].lk] # None
     THEN \E s \in Slots : Grant(t, s, WritePermit(t, writable[call[t].lk]))
     ELSE /\ pc' = [pc EXCEPT ![t] = "wrFetch"]
          /\ UNCHANGED <<permits, call>>
  /\ UNCHANGED <<lockables, cache, writable, calls, history>>

\* Mutant of WriteTimedOut: the timeout is only logged.
WriteTimeoutIgnored(t) ==
  /\ pc[t] = "wrLock"
  /\ ~CanWrite(call[t].lk, t)
  /\ pc' = [pc EXCEPT ![t] = "wrFetch"]
  /\ UNCHANGED <<lockables, cache, lock, writable, permits, call, calls, history>>

\* Mutant of WriteTimedOut: tryLock is called again.
WriteRetried(t) == pc[t] = "wrLock" /\ ~CanWrite(call[t].lk, t) /\ UNCHANGED vars

\* After the timeout the read locks are taken back, without a timeout.
WriteTimedOut(t) ==
  /\ pc[t] = "wrLock"
  /\ ~CanWrite(call[t].lk, t)
  /\ IF call[t].reads = 0
     THEN GiveUp(t)
     ELSE /\ pc' = [pc EXCEPT ![t] = "relock"]
          /\ UNCHANGED call
  /\ UNCHANGED <<lockables, cache, lock, writable, permits, calls, history>>

Relocked(t) ==
  /\ pc[t] = "relock"
  /\ CanRead(call[t].lk, t)
  /\ lock' = SetReads(call[t].lk, t, call[t].reads)
  /\ GiveUp(t)
  /\ UNCHANGED <<lockables, cache, writable, permits, calls, history>>

\* lockables.put comes before the new lock is taken.
LockableCreated(t) ==
  /\ pc[t] = "create"
  /\ \E l \in Lockables :
       /\ NewLockable(call[t].id, l)
       /\ lockables' = [lockables EXCEPT ![call[t].id] = l]
       /\ call' = [call EXCEPT ![t].lk = l]
       /\ lock' = [lock EXCEPT ![l] = NoLock]
       /\ writable' = [writable EXCEPT ![l] = None]
  /\ pc' = [pc EXCEPT ![t] = "newLock"]
  /\ UNCHANGED <<cache, permits, calls, history>>

NewLocked(t) ==
  /\ pc[t] = "newLock"
  /\ CanWrite(call[t].lk, t)
  /\ lock' = WithWriteLock(call[t].lk, t, ReadHolds(call[t].lk, t))
  /\ pc' = [pc EXCEPT ![t] = "wrFetch"]
  /\ UNCHANGED <<lockables, cache, writable, permits, call, calls, history>>

WriteFetched(t) ==
  /\ pc[t] = "wrFetch"
  /\ call' = [call EXCEPT ![t].ctx = cache[call[t].id]]
  /\ pc' = [pc EXCEPT ![t] = "wrTake"]
  /\ UNCHANGED <<lockables, cache, lock, writable, permits, calls, history>>

\* The element found is taken out of the cache; without one, a new context.
Take(t, o) ==
  /\ writable' = [writable EXCEPT ![call[t].lk] = o]
  /\ \E s \in Slots : Grant(t, s, WritePermit(t, o))

\* Mutant of ContextTaken: the element stays in the cache.
ContextShared(t) ==
  /\ pc[t] = "wrTake"
  /\ call[t].ctx # None
  /\ Take(t, call[t].ctx)
  /\ UNCHANGED <<lockables, cache, lock, calls, history>>

ContextTaken(t) ==
  /\ pc[t] = "wrTake"
  /\ call[t].ctx # None
  /\ cache' = [cache EXCEPT ![call[t].id] = None]
  /\ Take(t, call[t].ctx)
  /\ UNCHANGED <<lockables, lock, calls, history>>

ContextCreated(t) ==
  /\ pc[t] = "wrTake"
  /\ call[t].ctx = None
  /\ \E o \in Instances :
       /\ NewInstance(call[t].id, o)
       /\ Take(t, o)
       /\ stale' = IF call[t].id \in edited THEN stale \cup {o} ELSE stale \ {o}
  /\ UNCHANGED <<lockables, cache, lock, calls, edited>>

-----------------------------------------------------------------------------
(* Edits under a write permit, and the revocation of permits.              *)

Edit(t, s) ==
  /\ pc[t] = "work"
  /\ permits[t][s].kind = "write"
  /\ permits[t][s].id \in Tracked
  /\ edited' = edited \cup {permits[t][s].id}
  /\ stale' = stale \cup {o \in {permits[t][s].id} \X Gens :
                            InstanceInUse(o) /\ o # permits[t][s].ctx}
  /\ UNCHANGED <<lockables, cache, lock, writable, permits, pc, call, calls>>

RevokeRead(t, s) ==
  /\ pc[t] = "work"
  /\ permits[t][s].kind = "read"
  /\ lock' = SetReads(permits[t][s].lk, t, ReadHolds(permits[t][s].lk, t) - 1)
  /\ permits' = [permits EXCEPT ![t][s] = NoPermit]
  /\ UNCHANGED <<lockables, cache, writable, pc, call, calls, history>>

\* The permits in lc.reads are the read permits with that LockableContext.
Refreshed(l, o) ==
  [u \in Threads |-> [r \in Slots |->
     IF permits[u][r].kind = "read" /\ permits[u][r].lk = l
     THEN [permits[u][r] EXCEPT !.ctx = o] ELSE permits[u][r]]]

\* Mutant of RevokeWrite: the read permits are not refreshed.
RevokeWriteUnseen(t, s) ==
  LET p == permits[t][s] IN
  /\ pc[t] = "work"
  /\ p.kind = "write"
  /\ lock' = WriteUnlocked(p.lk)
  /\ permits' = [permits EXCEPT ![t][s] = NoPermit]
  /\ IF WriteHolds(p.lk, t) = 1
     THEN /\ writable' = [writable EXCEPT ![p.lk] = None]
          /\ cache' = [cache EXCEPT ![p.id] = p.ctx]
     ELSE UNCHANGED <<writable, cache>>
  /\ UNCHANGED <<lockables, pc, call, calls, history>>

RevokeWrite(t, s) ==
  LET p == permits[t][s] IN
  /\ pc[t] = "work"
  /\ p.kind = "write"
  /\ lock' = WriteUnlocked(p.lk)
  /\ IF WriteHolds(p.lk, t) = 1
     THEN /\ writable' = [writable EXCEPT ![p.lk] = None]
          /\ cache' = [cache EXCEPT ![p.id] = p.ctx]
          /\ permits' = [Refreshed(p.lk, p.ctx) EXCEPT ![t][s] = NoPermit]
     ELSE /\ permits' = [permits EXCEPT ![t][s] = NoPermit]
          /\ UNCHANGED <<writable, cache>>
  /\ UNCHANGED <<lockables, pc, call, calls, history>>

-----------------------------------------------------------------------------
(* remove                                                                  *)

\* Its one caller, ModifyContextResource.delete, holds no read permit.
Remove(t, c) ==
  /\ t \in Removers
  /\ \A s \in Slots : permits[t][s].kind # "read"
  /\ CallCache(t)
  /\ IF lockables[c] = None
     THEN UNCHANGED <<pc, call>>
     ELSE /\ pc' = [pc EXCEPT ![t] = "rmLock"]
          /\ call' = [call EXCEPT ![t] = [NoCall EXCEPT !.id = c, !.lk = lockables[c]]]
  /\ UNCHANGED <<lockables, cache, lock, writable, permits, history>>

\* tryLock, cache.remove and unlock: one step, nothing sees the lock between.
Removed(t) ==
  /\ pc[t] = "rmLock"
  /\ CanWrite(call[t].lk, t)
  /\ cache' = [cache EXCEPT ![call[t].id] = None]
  /\ edited' = edited \ {call[t].id}
  /\ pc' = [pc EXCEPT ![t] = "rmDrop"]
  /\ UNCHANGED <<lockables, lock, writable, permits, call, calls, stale>>

\* Mutant of RemoveTimedOut: tryLock is called again.
RemoveRetried(t) == pc[t] = "rmLock" /\ ~CanWrite(call[t].lk, t) /\ UNCHANGED vars

RemoveTimedOut(t) ==
  /\ pc[t] = "rmLock"
  /\ ~CanWrite(call[t].lk, t)
  /\ pc' = [pc EXCEPT ![t] = "rmDrop"]
  /\ UNCHANGED <<lockables, cache, lock, writable, permits, call, calls, history>>

\* The finally block drops the LockableContext whether or not it was locked.
LockableDropped(t) ==
  /\ pc[t] = "rmDrop"
  /\ lockables' = [lockables EXCEPT ![call[t].id] = None]
  /\ GiveUp(t)
  /\ UNCHANGED <<cache, lock, writable, permits, calls, history>>

-----------------------------------------------------------------------------
\* Ehcache moves an element to disk; the next get is a copy of it.
Overflow(c) ==
  /\ c \in Tracked
  /\ cache[c] # None
  /\ \E o \in Instances :
       /\ NewInstance(c, o)
       /\ cache' = [cache EXCEPT ![c] = o]
       /\ stale' = IF cache[c] \in stale THEN stale \cup {o} ELSE stale \ {o}
  /\ UNCHANGED <<lockables, lock, writable, permits, pc, call, calls, edited>>

Init ==
  /\ lockables = [c \in Contexts |-> IF c \in Preloaded THEN <<c, 0>> ELSE None]
  /\ cache = [c \in Contexts |-> IF c \in Preloaded THEN <<c, 0>> ELSE None]
  /\ lock = [l \in Lockables |-> NoLock]
  /\ writable = [l \in Lockables |-> None]
  /\ permits = [t \in Threads |-> [s \in Slots |-> NoPermit]]
  /\ pc = [t \in Threads |-> "idle"]
  /\ call = [t \in Threads |-> NoCall]
  /\ calls = [t \in Threads |-> 0]
  /\ edited = {}
  /\ stale = {}

ReadSteps(t)  == ReadLocked(t) \/ ReadTimedOut(t) \/ ReadFetched(t)
WriteSteps(t) == \/ WriteLocked(t) \/ WriteTimedOut(t) \/ Relocked(t)
                 \/ LockableCreated(t) \/ NewLocked(t)
                 \/ WriteFetched(t) \/ ContextTaken(t) \/ ContextCreated(t)
RemoveSteps(t) == Removed(t) \/ RemoveTimedOut(t) \/ LockableDropped(t)
RequestSteps(t) ==
  \/ \E c \in Contexts : GetReadOnly(t, c) \/ GetReadWrite(t, c) \/ Remove(t, c)
  \/ \E s \in Slots : RevokeRead(t, s) \/ RevokeWrite(t, s)
  \/ Finish(t)

Step(t) == RequestSteps(t) \/ ReadSteps(t) \/ WriteSteps(t) \/ RemoveSteps(t)

Next == \/ \E t \in Threads : Start(t) \/ Step(t)
        \/ \E t \in Threads : \E s \in Slots : Edit(t, s)
        \/ \E c \in Contexts : Overflow(c)

Spec == Init /\ [][Next]_vars

\* A request that runs is scheduled and does not edit for ever; timed waits end; the queue of the
\* ReentrantReadWriteLock is first-in first-out, so an untimed wait for a lock
\* that keeps becoming free ends too.
Fairness == \A t \in Threads : /\ WF_vars(Step(t))
                               /\ SF_vars(Relocked(t))
                               /\ SF_vars(NewLocked(t))
LiveSpec == Spec /\ Fairness

-----------------------------------------------------------------------------
(* Properties                                                              *)

\* Every variable stays in its type.
TypeOK ==
  /\ lockables \in [Contexts -> Lockables \cup {None}]
  /\ cache \in [Contexts -> Instances \cup {None}]
  /\ lock \in [Lockables -> [writer : Threads \cup {None}, wholds : Nat,
                             rholds : [Threads -> Nat]]]
  /\ writable \in [Lockables -> Instances \cup {None}]
  /\ permits \in [Threads -> [Slots -> Permit]]
  /\ pc \in [Threads -> Places]
  /\ call \in [Threads -> Call]
  /\ calls \in [Threads -> 0..MaxCalls]
  /\ edited \subseteq Contexts
  /\ stale \subseteq Instances

Reads(t, s)  == permits[t][s].kind = "read"
Writes(t, s) == permits[t][s].kind = "write"
\* A thread in getReadWrite gives up its read locks until it has the write lock
\* or has taken them back.
Upgrading(t, l) == pc[t] \in {"wrLock", "relock"} /\ call[t].lk = l

\* While a thread has a write permit to a context, no other thread has a write
\* permit to it, nor a read permit that is in force.
WriterExclusion ==
  \A t, u \in Threads : \A s, r \in Slots :
    /\ t # u
    /\ Writes(t, s)
    /\ permits[u][r].id = permits[t][s].id
    => Reads(u, r) /\ Upgrading(u, permits[u][r].lk)

WritesContext(t, c) == \E s \in Slots : Writes(t, s) /\ permits[t][s].id = c

\* What a permit gives access to, and what the cache keeps, has every edit ever
\* made to the context; a thread's own read permits catch up when it revokes
\* its write permit, and those of a thread in an upgrade when the writer does.
Misses(c, o) == IF o = None THEN c \in edited ELSE o \in stale
NoLostEdit ==
  /\ \A c \in Contexts : cache[c] # None => cache[c] \notin stale
  /\ \A t \in Threads : \A s \in Slots :
       LET p == permits[t][s] IN
       p.kind # "none" /\ Misses(p.id, p.ctx)
         => p.kind = "read" /\ (WritesContext(t, p.id) \/ Upgrading(t, p.lk))

\* A context is taken out of the cache for editing: it is never cached and
\* edited at once.
TakenWhileWritten ==
  \A t \in Threads : \A c \in Contexts : WritesContext(t, c) => cache[c] = None

PermitsOn(t, l, kind) ==
  {s \in Slots : permits[t][s].kind = kind /\ permits[t][s].lk = l}
Making(t, l, states) == IF pc[t] \in states /\ call[t].lk = l THEN 1 ELSE 0

Balanced(t, l) ==
  /\ WriteHolds(l, t) = Cardinality(PermitsOn(t, l, "write"))
                        + Making(t, l, {"wrFetch", "wrTake"})
  /\ IF Upgrading(t, l)
     THEN /\ ReadHolds(l, t) = 0
          /\ call[t].reads = Cardinality(PermitsOn(t, l, "read"))
     ELSE ReadHolds(l, t) = Cardinality(PermitsOn(t, l, "read"))
                            + Making(t, l, {"rdFetch"})

\* Every hold of a lock belongs to a permit (or to the constructor about to
\* return one) and every permit to a hold, so that a request that revoked its
\* permits holds no lock, whatever timed out.
HoldsBalance == \A t \in Threads : \A l \in Lockables : Balanced(t, l)

\* Every request ends, whatever it waits for and whoever waits for it.
RequestEnds == \A t \in Threads : pc[t] # "idle" ~> pc[t] = "idle"
=============================================================================
