------------------------ MODULE RequestQueue_proofs ------------------------
(***************************************************************************)
(* Proofs about RequestQueue, for any contexts and any number of requests: *)
(* its invariants, and that each of its steps is one of SerialRequests.    *)
(***************************************************************************)
EXTENDS RequestQueue, FiniteSetTheorems, TLAPS

\* Requests are numbered without gaps, and those in the queue are those whose callback
\* did not return.
Counted == Cardinality(Made) \in Nat /\ Made = 1..Cardinality(Made)
InQueue == requestQueue = Made \ (answered \ threw)

Inv == TypeOK /\ Counted /\ InQueue /\ LockHeld /\ InTurn

\* What a step does that makes the requests of "new": none or one.
Grows(new) ==
  /\ new \subseteq {NextNumber} /\ new \subseteq Numbers
  /\ Made' = Made \cup new
  /\ \A n \in Made : request'[n] = request[n]
  /\ \A n \in new : request'[n] \in Requests

-----------------------------------------------------------------------------
LEMMA WithGrows ==
  ASSUME TypeOK, Counted, NEW c \in Contexts, NEW queued \in BOOLEAN,
         NextNumber \in Numbers, request' = With(c, queued)
  PROVE  Grows({NextNumber})
<1> DEFINE N == NextNumber
<1>1. N \notin Made
  BY DEF Counted, NextNumber
<1>2. Made' = Made \cup {N}
  BY DEF With, Made
<1>3. \A n \in Made : request'[n] = request[n]
  BY <1>1, <1>2 DEF With
<1>4. request'[N] = [contextId |-> c, immediate |-> capture \/ ~queued]
  BY <1>2 DEF With
<1>5. (capture \/ ~queued) \in BOOLEAN
  OBVIOUS
<1>6. request'[N] \in Requests
  BY <1>4, <1>5 DEF Requests
<1> QED
  BY <1>2, <1>3, <1>6 DEF Grows

LEMMA CallbackGrows ==
  ASSUME TypeOK, Counted, NEW more \in Mores, Callback(more)
  PROVE  Grows(more)
<1>1. CASE more = {} /\ UNCHANGED request
  BY <1>1 DEF Grows, Made
<1>2. CASE /\ NextNumber \in Numbers /\ more = {NextNumber}
           /\ \E c \in Contexts, queued \in BOOLEAN : request' = With(c, queued)
  BY <1>2, WithGrows
<1> QED
  BY <1>1, <1>2 DEF Callback

\* The numbers stay without gaps.
LEMMA GrowsCounted ==
  ASSUME Counted, NEW new, Grows(new)
  PROVE  Counted' /\ new \cap Made = {} /\ (\A n \in new, m \in Made : m < n)
<1> DEFINE k == Cardinality(Made)
<1>1. k \in Nat /\ Made = 1..k /\ NextNumber = k + 1
  BY DEF Counted, NextNumber
<1>2. CASE new = {}
  BY <1>1, <1>2 DEF Counted, Grows
<1>3. CASE new = {k + 1}
  <2>1. Made' = 1..(k + 1)
    BY <1>1, <1>3 DEF Grows
  <2>2. Cardinality(1..(k + 1)) = k + 1
    BY <1>1, FS_Interval
  <2> QED
    BY <1>1, <1>3, <2>1, <2>2 DEF Counted
<1> QED
  BY <1>1, <1>2, <1>3 DEF Grows

LEMMA GrowsQueued ==
  ASSUME NEW new, Grows(new), NEW c \in Contexts, NEW n \in Made
  PROVE  n \in Made' /\ (Queued(n, c)' <=> Queued(n, c))
BY DEF Grows, Queued


-----------------------------------------------------------------------------
\* A step that grows and sends nothing keeps the turns.
LEMMA GrowsInTurn ==
  ASSUME Inv, NEW new, Grows(new), sent' = sent, answered \ threw \subseteq answered' \ threw'
  PROVE  Counted' /\ InTurn'
<1>1. sent \subseteq Made /\ sent' = sent
  BY DEF Inv, TypeOK
<1>2. Counted' /\ new \cap Made = {} /\ (\A n \in new, m \in Made : m < n)
  BY GrowsCounted DEF Inv
<1>3. \A c \in Contexts, n \in Made : Queued(n, c)' <=> Queued(n, c)
  BY GrowsQueued
<1>4. InTurn'
  <2> SUFFICES ASSUME NEW c \in Contexts, NEW m \in Numbers, NEW n \in Numbers,
                      m < n, Queued(m, c)', Queued(n, c)', n \in sent'
               PROVE  m \in answered' \ threw'
    BY DEF InTurn, Numbers, Queued
  <2>1. n \in Made /\ Queued(n, c)
    BY <1>1, <1>3
  <2>2. m \in Made
    <3>1. m \in Made \cup new
      BY DEF Queued, Grows
    <3>2. m \in new => n < m
      BY <1>2, <2>1
    <3> QED
      BY <3>1, <3>2, m < n DEF Numbers
  <2> QED
    BY <1>1, <1>3, <2>1, <2>2 DEF Inv, InTurn
<1> QED
  BY <1>2, <1>4

\* One that also removes nothing from the queue keeps the locks.
LEMMA GrowsLockHeld ==
  ASSUME Inv, NEW new, Grows(new), sent' = sent,
         requestQueue' = requestQueue \cup new, contextLock' = contextLock
  PROVE  LockHeld'
<1>1. sent \subseteq Made /\ sent' = sent
  BY DEF Inv, TypeOK
<1>2. new \cap Made = {}
  BY GrowsCounted DEF Inv
<1>3. \A c \in Contexts, n \in Made : Queued(n, c)' <=> Queued(n, c)
  BY GrowsQueued
<1> SUFFICES ASSUME NEW c \in Contexts, NEW n \in Numbers
             PROVE  contextLock'[c] = n <=> Queued(n, c)' /\ n \in sent' \cap requestQueue'
  BY DEF LockHeld, Numbers, Queued
<1>4. contextLock[c] = n <=> Queued(n, c) /\ n \in sent \cap requestQueue
  BY DEF Inv, LockHeld
<1>5. CASE n \in Made
  BY <1>1, <1>2, <1>3, <1>4, <1>5
<1>6. CASE n \notin Made
  BY <1>1, <1>4, <1>6 DEF Queued
<1> QED
  BY <1>5, <1>6

LEMMA GrowsRequests ==
  ASSUME TypeOK, NEW new, Grows(new)
  PROVE  Made' \subseteq Numbers /\ (\A n \in Made' : request'[n] \in Requests)
BY DEF TypeOK, Grows

-----------------------------------------------------------------------------
LEMMA InvInit == QueueAssumption /\ Init => Inv
<1> SUFFICES ASSUME QueueAssumption, Init PROVE Inv
  OBVIOUS
<1>1. Made = {}
  BY DEF Init, Made
<1>2. Cardinality(Made) = 0 /\ 1..0 = {}
  BY <1>1, FS_EmptySet
<1>3. TypeOK
  BY <1>1 DEF Init, TypeOK
<1>4. Counted /\ InQueue
  BY <1>1, <1>2 DEF Init, Counted, InQueue
<1>5. LockHeld
  BY QueueAssumption DEF Init, LockHeld, Numbers, QueueAssumption
<1>6. InTurn
  BY DEF Init, InTurn
<1> QED
  BY <1>3, <1>4, <1>5, <1>6 DEF Inv

LEMMA InvRequest ==
  ASSUME Inv, NEW c \in Contexts, NEW queued \in BOOLEAN, Request(c, queued)
  PROVE  Inv'
<1> DEFINE new == {NextNumber}
<1>1. Grows(new)
  BY WithGrows DEF Inv, Request
<1>2. /\ requestQueue' = requestQueue \cup new
      /\ UNCHANGED <<capture, sent, answered, threw, contextLock, overlayVars, pageVars>>
  BY DEF Request
<1>3. Counted' /\ LockHeld' /\ InTurn'
  BY <1>1, <1>2, GrowsInTurn, GrowsLockHeld
<1>4. TypeOK'
  <2>1. Made' \subseteq Numbers /\ (\A n \in Made' : request'[n] \in Requests) /\ Made' = Made \cup new
    BY <1>1, GrowsRequests DEF Inv, Grows
  <2> QED
    BY <1>2, <2>1 DEF Inv, TypeOK, overlayVars, pageVars
<1>5. InQueue'
  BY <1>1, <1>2, GrowsCounted DEF Inv, TypeOK, InQueue, Grows
<1> QED
  BY <1>3, <1>4, <1>5 DEF Inv

\* Of the requests of c that wait for its lock at most one is first.
LEMMA OneFirst ==
  ASSUME TypeOK, NEW c \in Contexts, NEW m \in First(c), NEW n \in First(c)
  PROVE  m = n
BY DEF First, Waiting, TypeOK, Numbers

LEMMA InvPump == ASSUME QueueAssumption, Inv, Pump PROVE Inv'
<1>0. /\ request' = request /\ requestQueue' = requestQueue /\ sent' = sent \cup Sending
      /\ UNCHANGED <<capture, answered, threw, pageVars>>
  BY DEF Pump
<1>1. Made' = Made /\ (\A n \in Made, c \in Contexts : Queued(n, c)' <=> Queued(n, c))
  BY <1>0 DEF Made, Queued
<1>2. Sending \subseteq requestQueue /\ requestQueue \subseteq Made /\ Made \subseteq Numbers
  BY DEF Sending, Locking, First, Waiting, Inv, TypeOK
<1>3. ASSUME NEW c \in Contexts
      PROVE  contextLock'[c] = IF contextLock[c] = None /\ First(c) # {}
                               THEN CHOOSE n \in First(c) : TRUE ELSE contextLock[c]
  BY DEF Pump
<1>4. ASSUME NEW c \in Contexts, NEW n \in Numbers, Queued(n, c)
      PROVE  n \in Sending <=> contextLock[c] = None /\ n \in First(c)
  <2>1. n \in Sending <=> \E d \in Contexts : contextLock[d] = None /\ n \in First(d)
    BY <1>4 DEF Sending, Locking, Queued
  <2>2. \A d \in Contexts : n \in First(d) => d = c
    BY <1>4 DEF First, Waiting, Queued
  <2> QED
    BY <2>1, <2>2
<1>5. \A c \in Contexts : \A n \in First(c) : Queued(n, c) /\ n \in requestQueue
  BY <1>2 DEF First, Waiting, Queued
<1>6. LockHeld'
  <2> SUFFICES ASSUME NEW c \in Contexts, NEW n \in Numbers
               PROVE  contextLock'[c] = n <=> Queued(n, c)' /\ n \in sent' \cap requestQueue'
    BY DEF LockHeld, Numbers, Queued
  <2>1. contextLock[c] = n <=> Queued(n, c) /\ n \in sent \cap requestQueue
    BY DEF Inv, LockHeld
  <2>2. Queued(n, c)' <=> Queued(n, c)
    BY <1>1 DEF Queued
  <2>3. None # n
    BY QueueAssumption DEF QueueAssumption, Numbers
  <2>4. CASE contextLock[c] # None
    BY <1>0, <1>3, <1>4, <2>1, <2>2, <2>4
  <2>5. CASE contextLock[c] = None /\ First(c) = {}
    BY <1>0, <1>3, <1>4, <2>1, <2>2, <2>3, <2>5
  <2>6. CASE contextLock[c] = None /\ First(c) # {}
    <3>1. contextLock'[c] \in First(c)
      BY <1>3, <2>6
    <3>2. contextLock'[c] = n <=> n \in First(c)
      BY <3>1, OneFirst DEF Inv
    <3> QED
      BY <1>0, <1>4, <1>5, <2>1, <2>2, <2>3, <2>6, <3>2
  <2> QED
    BY <2>4, <2>5, <2>6
<1>7. InTurn'
  <2> SUFFICES ASSUME NEW c \in Contexts, NEW m \in Numbers, NEW n \in Numbers,
                      m < n, Queued(m, c)', Queued(n, c)', n \in sent'
               PROVE  m \in answered' \ threw'
    BY DEF InTurn, Numbers, Queued
  <2>1. Queued(m, c) /\ Queued(n, c) /\ m \in Made
    BY <1>1 DEF Queued
  <2>2. CASE n \in sent
    BY <1>0, <2>1, <2>2 DEF Inv, InTurn
  <2>3. CASE n \in First(c)
    <3>1. m \notin Waiting(c)
      BY <2>3 DEF First, Numbers
    <3>2. m \notin requestQueue
      BY <2>1, <3>1 DEF Waiting, Queued
    <3> QED
      BY <1>0, <2>1, <3>2 DEF Inv, InQueue
  <2> QED
    BY <1>0, <1>4, <2>1, <2>2, <2>3
<1>8. TypeOK'
  <2>1. \A n \in Made' : request'[n] \in Requests
    BY <1>0, <1>1 DEF Inv, TypeOK
  <2>2. contextLock' \in [Contexts -> Numbers \cup {None}]
    <3>1. \A c \in Contexts : First(c) \subseteq Numbers
      BY <1>2, <1>5
    <3>2. \A c \in Contexts : contextLock'[c] \in Numbers \cup {None}
      BY <1>3, <3>1 DEF Inv, TypeOK
    <3> QED
      BY <3>2 DEF Pump
  <2>3. overlay' \in [Contexts -> {"none", "armed", "fired"}] /\ fading' \subseteq Contexts
    BY DEF Pump, Inv, TypeOK
  <2> QED
    BY <1>0, <1>1, <1>2, <2>1, <2>2, <2>3 DEF Inv, TypeOK, pageVars
<1> QED
  BY <1>0, <1>1, <1>6, <1>7, <1>8 DEF Inv, Counted, InQueue

\* The requests that a callback makes keep the types.
LEMMA CallbackTypes ==
  ASSUME Inv, NEW more \in Mores, Callback(more)
  PROVE  /\ Made' = Made \cup more /\ more \cap Made = {}
         /\ Made' \subseteq Numbers /\ (\A n \in Made' : request'[n] \in Requests)
<1>1. Grows(more)
  BY CallbackGrows DEF Inv
<1> QED
  BY <1>1, GrowsRequests, GrowsCounted DEF Inv, Grows

LEMMA InvRespond ==
  ASSUME QueueAssumption, Inv, NEW n \in Numbers, Respond(n)
  PROVE  Inv'
<1>0. /\ n \in sent \ answered /\ answered' = answered \cup {n}
      /\ UNCHANGED <<capture, sent, threw, overlayVars, listening, loaded>>
      /\ announced' = (announced \/ (listening /\ requestQueue' = {}))
  BY DEF Respond
<1>1. PICK more \in Mores : Callback(more) /\ requestQueue' = (requestQueue \cup more) \ {n}
  BY DEF Respond
<1>2. \A c \in Contexts : contextLock'[c] =
        IF c = request[n].contextId /\ contextLock[c] = n THEN None ELSE contextLock[c]
  BY DEF Respond
<1>3. n \in Made /\ n \notin threw /\ n \in requestQueue /\ sent \subseteq Made
  BY <1>0 DEF Inv, InQueue, TypeOK
<1>4. /\ Made' = Made \cup more /\ more \cap Made = {}
      /\ Made' \subseteq Numbers /\ (\A i \in Made' : request'[i] \in Requests)
  BY <1>1, CallbackTypes
<1>5. Grows(more)
  BY <1>1, CallbackGrows DEF Inv
<1>6. Counted' /\ InTurn'
  BY <1>0, <1>5, GrowsInTurn
<1>7. LockHeld'
  <2> SUFFICES ASSUME NEW c \in Contexts, NEW i \in Numbers
               PROVE  contextLock'[c] = i <=> Queued(i, c)' /\ i \in sent' \cap requestQueue'
    BY DEF LockHeld, Numbers, Queued
  <2>1. contextLock[c] = i <=> Queued(i, c) /\ i \in sent \cap requestQueue
    BY DEF Inv, LockHeld
  <2>2. None # i
    BY QueueAssumption DEF QueueAssumption, Numbers
  <2>3. CASE i = n
    BY <1>1, <1>2, <2>1, <2>2, <2>3 DEF Queued
  <2>4. CASE i # n /\ i \in Made
    <3>1. Queued(i, c)' <=> Queued(i, c)
      BY <1>5, <2>4, GrowsQueued
    <3> QED
      BY <1>0, <1>1, <1>2, <1>4, <2>1, <2>2, <2>4, <3>1
  <2>5. CASE i # n /\ i \notin Made
    BY <1>0, <1>2, <1>3, <2>1, <2>2, <2>5 DEF Queued
  <2> QED
    BY <2>3, <2>4, <2>5
<1>8. TypeOK'
  <2>1. contextLock' \in [Contexts -> Numbers \cup {None}]
    BY DEF Respond, Inv, TypeOK
  <2>2. requestQueue' \subseteq Made' /\ sent' \subseteq Made'
    BY <1>0, <1>1, <1>4 DEF Inv, TypeOK
  <2>3. answered' \subseteq sent' /\ threw' \subseteq answered'
    BY <1>0 DEF Inv, TypeOK
  <2>4. announced' \in BOOLEAN
    BY <1>0 DEF Inv, TypeOK
  <2> QED
    BY <1>0, <1>4, <2>1, <2>2, <2>3, <2>4 DEF Inv, TypeOK, overlayVars
<1>9. InQueue'
  BY <1>0, <1>1, <1>3, <1>4 DEF Inv, InQueue, TypeOK
<1> QED
  BY <1>6, <1>7, <1>8, <1>9 DEF Inv

LEMMA InvRespondThrowing ==
  ASSUME Inv, NEW n \in Numbers, RespondThrowing(n)
  PROVE  Inv'
<1>0. /\ n \in sent \ answered /\ answered' = answered \cup {n} /\ threw' = threw \cup {n}
      /\ UNCHANGED <<capture, sent, contextLock, overlayVars, pageVars>>
  BY DEF RespondThrowing
<1>1. PICK more \in Mores : Callback(more) /\ requestQueue' = requestQueue \cup more
  BY DEF RespondThrowing
<1>2. answered' \ threw' = answered \ threw
  BY <1>0
<1>3. /\ Made' = Made \cup more /\ more \cap Made = {}
      /\ Made' \subseteq Numbers /\ (\A i \in Made' : request'[i] \in Requests)
  BY <1>1, CallbackTypes
<1>4. Grows(more)
  BY <1>1, CallbackGrows DEF Inv
<1>5. Counted' /\ InTurn' /\ LockHeld'
  BY <1>0, <1>1, <1>2, <1>4, GrowsInTurn, GrowsLockHeld
<1>6. TypeOK'
  <2>1. requestQueue' \subseteq Made' /\ sent' \subseteq Made'
    BY <1>0, <1>1, <1>3 DEF Inv, TypeOK
  <2>2. answered' \subseteq sent' /\ threw' \subseteq answered'
    BY <1>0 DEF Inv, TypeOK
  <2> QED
    BY <1>0, <1>3, <2>1, <2>2 DEF Inv, TypeOK, overlayVars, pageVars
<1>7. InQueue'
  BY <1>1, <1>2, <1>3 DEF Inv, InQueue, TypeOK
<1> QED
  BY <1>5, <1>6, <1>7 DEF Inv

\* Timers, the load event and stuttering leave the queue alone.
LEMMA InvUnqueued ==
  ASSUME Inv, UNCHANGED queueVars, TypeOK'
  PROVE  Inv'
<1>1. Made' = Made /\ request' = request
  BY DEF queueVars, Made
<1>2. LockHeld' /\ InTurn'
  BY <1>1 DEF Inv, LockHeld, InTurn, Queued, queueVars
<1> QED
  BY <1>1, <1>2 DEF Inv, Counted, InQueue, queueVars

LEMMA InvTimers ==
  ASSUME Inv, \/ \E c \in Contexts : FadeIn(c) \/ FadeOut(c)
              \/ Load
              \/ UNCHANGED vars
  PROVE  Inv'
<1>1. UNCHANGED queueVars
  BY DEF FadeIn, FadeOut, Load, vars
<1>2. Made' = Made
  BY <1>1 DEF queueVars, Made
<1>3. TypeOK'
  <2>1. CASE \E c \in Contexts : FadeIn(c) \/ FadeOut(c)
    BY <1>1, <1>2, <2>1 DEF Inv, TypeOK, FadeIn, FadeOut, queueVars, pageVars
  <2>2. CASE Load
    BY <1>1, <1>2, <2>2 DEF Inv, TypeOK, Load, queueVars, overlayVars
  <2>3. CASE UNCHANGED vars
    BY <1>2, <2>3 DEF Inv, TypeOK, vars, queueVars, overlayVars, pageVars
  <2> QED
    BY <2>1, <2>2, <2>3
<1> QED
  BY <1>1, <1>3, InvUnqueued

LEMMA InvNext == QueueAssumption /\ Inv /\ [Next]_vars => Inv'
<1> SUFFICES ASSUME QueueAssumption, Inv, [Next]_vars PROVE Inv'
  OBVIOUS
<1>1. ASSUME NEW c \in Contexts, NEW queued \in BOOLEAN, Request(c, queued) PROVE Inv'
  BY <1>1, InvRequest
<1>2. CASE Pump
  BY <1>2, InvPump
<1>3. ASSUME NEW n \in Numbers, Respond(n) PROVE Inv'
  BY <1>3, InvRespond
<1>4. ASSUME NEW n \in Numbers, RespondThrowing(n) PROVE Inv'
  BY <1>4, InvRespondThrowing
<1>5. CASE (\E c \in Contexts : FadeIn(c) \/ FadeOut(c)) \/ Load \/ UNCHANGED vars
  BY <1>5, InvTimers
<1> QED
  BY <1>1, <1>2, <1>3, <1>4, <1>5 DEF Next

-----------------------------------------------------------------------------
\* The inductive invariant holds in every state of every behaviour.
THEOREM Invariant == QueueAssumption /\ Spec => []Inv
<1> SUFFICES ASSUME QueueAssumption PROVE Spec => []Inv
  OBVIOUS
<1>1. Init => Inv
  BY InvInit
<1>2. Inv /\ [Next]_vars => Inv'
  BY InvNext
<1> QED
  BY <1>1, <1>2, PTL DEF Spec

\* Requests are answered once, after they were sent, and the state keeps its shape.
THEOREM TypeCorrect == QueueAssumption /\ Spec => []TypeOK
<1>1. Inv => TypeOK
  BY DEF Inv
<1> QED
  BY <1>1, Invariant, PTL

\* A context's lock and its request in flight are the same thing, for any number of
\* contexts and requests.
THEOREM LocksHeld == QueueAssumption /\ Spec => []LockHeld
<1>1. Inv => LockHeld
  BY DEF Inv
<1> QED
  BY <1>1, Invariant, PTL

\* The requests of a context are sent in the order they were made, each after the
\* callback of the one before it returned.
THEOREM InOrder == QueueAssumption /\ Spec => []InTurn
<1>1. Inv => InTurn
  BY DEF Inv
<1> QED
  BY <1>1, Invariant, PTL

-----------------------------------------------------------------------------
(* The steps of the queue are steps of SerialRequests, or none. *)
last == Cardinality(Made)
waiting == [c \in Contexts |-> {n \in requestQueue \ sent : Queued(n, c)}]
broken == {c \in Contexts : Stuck(c)}

LEMMA RefinesInit == QueueAssumption /\ Init => Serial!Init
<1> SUFFICES ASSUME QueueAssumption, Init PROVE Serial!Init
  OBVIOUS
<1>1. last = 0
  BY FS_EmptySet DEF Init, Made, last
<1>2. waiting = [c \in Contexts |-> {}]
  BY DEF Init, waiting
<1>3. broken = {}
  BY DEF Init, Stuck, broken
<1> QED
  BY <1>1, <1>2, <1>3 DEF Init, Serial!Init, last, waiting, broken

\* A step that makes requests and takes from the queue only such as were sent asks.
LEMMA GrowsAsks ==
  ASSUME Inv, NEW new, Grows(new), sent' = sent,
         requestQueue' \subseteq requestQueue \cup new,
         (requestQueue \cup new) \ requestQueue' \subseteq sent
  PROVE  /\ Serial!MayAsk
         /\ Serial!Ask \/ (last' = last /\ waiting' = waiting)
<1> DEFINE N == NextNumber
<1>0. Counted' /\ new \cap Made = {} /\ sent \subseteq Made /\ requestQueue \subseteq Made
  BY GrowsCounted DEF Inv, TypeOK
<1>1. \A c \in Contexts, n \in Made : Queued(n, c)' <=> Queued(n, c)
  BY GrowsQueued
<1>2. \A c \in Contexts : waiting'[c] = waiting[c] \cup {n \in new : Queued(n, c)'}
  BY <1>0, <1>1 DEF waiting
<1>3. CASE new = {}
  <2>1. Made' = Made
    BY <1>3 DEF Grows
  <2>2. waiting' = waiting
    BY <1>2, <1>3 DEF waiting
  <2> QED
    BY <2>1, <2>2 DEF Serial!MayAsk, last, waiting
<1>4. CASE new = {N}
  <2>1. last' = N /\ N \in Numbers /\ N > last
    <3>1. N \in Nat /\ N = last + 1 /\ last \in Nat /\ Made = 1..last
      BY <1>4 DEF Inv, Counted, NextNumber, last
    <3>2. Made' = 1..N /\ N \in Numbers
      BY <1>4, <3>1 DEF Grows
    <3>3. Cardinality(1..N) = N
      BY <3>1, FS_Interval
    <3>4. last' = N
      BY <3>2, <3>3 DEF last
    <3> QED
      BY <3>1, <3>2, <3>4
  <2>2. N \in Made' /\ request'[N] \in Requests
    BY <1>4 DEF Grows
  <2>3. CASE request'[N].immediate
    <3>1. waiting' = waiting
      BY <1>2, <1>4, <2>3 DEF waiting, Queued
    <3> QED
      BY <2>1, <3>1 DEF Serial!Ask, Serial!MayAsk, last, waiting
  <2>4. CASE ~request'[N].immediate
    <3> DEFINE d == request'[N].contextId
    <3>1. d \in Contexts
      BY <2>2 DEF Requests
    <3>2. waiting' = [waiting EXCEPT ![d] = @ \cup {last'}]
      <4>0. \A c \in Contexts : \A n \in {N} : Queued(n, c)' <=> c = d
        BY <2>2, <2>4 DEF Queued
      <4>1. \A c \in Contexts : waiting'[c] = IF c = d THEN waiting[c] \cup {last'} ELSE waiting[c]
        <5> SUFFICES ASSUME NEW c \in Contexts
                     PROVE  waiting'[c] = IF c = d THEN waiting[c] \cup {last'} ELSE waiting[c]
          OBVIOUS
        <5>1. {n \in new : Queued(n, c)'} = IF c = d THEN {last'} ELSE {}
          BY <1>4, <2>1, <4>0
        <5> QED
          BY <1>2, <5>1
      <4> QED
        BY <3>1, <4>1 DEF waiting
    <3> QED
      BY <2>1, <3>1, <3>2 DEF Serial!Ask, Serial!MayAsk, last, waiting
  <2> QED
    BY <2>3, <2>4
<1> QED
  BY <1>3, <1>4 DEF Grows

\* One that leaves the locks alone, and breaks none, does no more than ask.
LEMMA AsksOnly ==
  ASSUME Serial!Ask \/ (last' = last /\ waiting' = waiting),
         contextLock' = contextLock, broken' = broken
  PROVE  [Serial!Next]_(Serial!vars)
BY DEF Serial!Next, Serial!vars, last, waiting, broken

LEMMA RefinesRequest ==
  ASSUME Inv, NEW c \in Contexts, NEW queued \in BOOLEAN, Request(c, queued)
  PROVE  [Serial!Next]_(Serial!vars)
<1>1. Grows({NextNumber})
  BY WithGrows DEF Inv, Request
<1>2. /\ requestQueue' = requestQueue \cup {NextNumber}
      /\ sent' = sent /\ threw' = threw /\ contextLock' = contextLock
  BY DEF Request
<1>3. broken' = broken
  BY <1>2 DEF broken, Stuck
<1>4. Serial!Ask \/ (last' = last /\ waiting' = waiting)
  BY <1>1, <1>2, GrowsAsks
<1> QED
  BY <1>2, <1>3, <1>4, AsksOnly

\* The context whose lock an answered request holds.
LEMMA Holder ==
  ASSUME QueueAssumption, Inv, NEW n \in sent \ answered
  PROVE  /\ n \in Numbers /\ n \in requestQueue /\ n # None
         /\ request[n].immediate => \A c \in Contexts : contextLock[c] # n
         /\ ~request[n].immediate =>
              /\ request[n].contextId \in Contexts
              /\ \A c \in Contexts : contextLock[c] = n <=> c = request[n].contextId
<1>1. n \in Made /\ n \in Numbers /\ request[n] \in Requests /\ n \in requestQueue
  BY DEF Inv, TypeOK, InQueue
<1>2. \A c \in Contexts : contextLock[c] = n <=> Queued(n, c)
  BY <1>1 DEF Inv, LockHeld
<1>3. n # None
  BY <1>1 DEF QueueAssumption, Numbers
<1> QED
  BY <1>1, <1>2, <1>3 DEF Queued, Requests

LEMMA NoneThrew == ASSUME QueueAssumption, Inv PROVE None \notin threw
<1>1. threw \subseteq Numbers
  BY DEF Inv, TypeOK
<1>2. Numbers \subseteq Nat
  BY DEF Numbers
<1> QED
  BY <1>1, <1>2 DEF QueueAssumption

LEMMA RefinesRespond ==
  ASSUME QueueAssumption, Inv, NEW n \in Numbers, Respond(n)
  PROVE  [Serial!Next]_(Serial!vars)
<1>0. n \in sent \ answered /\ sent' = sent /\ threw' = threw /\ n \notin threw
  BY DEF Respond, Inv, TypeOK
<1>1. contextLock' = [c \in Contexts |->
        IF c = request[n].contextId /\ contextLock[c] = n THEN None ELSE contextLock[c]]
  BY DEF Respond
<1>2. PICK more \in Mores : Callback(more) /\ requestQueue' = (requestQueue \cup more) \ {n}
  BY DEF Respond
<1>3. Grows(more)
  BY <1>2, CallbackGrows DEF Inv
<1>4. Serial!MayAsk /\ (Serial!Ask \/ (last' = last /\ waiting' = waiting))
  BY <1>0, <1>2, <1>3, GrowsAsks
<1>5. contextLock \in [Contexts -> Numbers \cup {None}]
  BY DEF Inv, TypeOK
<1>6. CASE request[n].immediate
  <2>1. contextLock' = contextLock
    BY <1>0, <1>1, <1>5, <1>6, Holder
  <2> QED
    BY <1>0, <1>4, <2>1, AsksOnly DEF broken, Stuck
<1>7. CASE ~request[n].immediate
  <2> DEFINE d == request[n].contextId
  <2>1. d \in Contexts /\ contextLock[d] = n /\ n # None
    BY <1>0, <1>7, Holder
  <2>2. contextLock' = [contextLock EXCEPT ![d] = None]
    BY <1>1, <1>5, <2>1
  <2>3. d \notin broken /\ broken' = broken
    BY <1>0, <1>5, <2>1, <2>2, NoneThrew DEF broken, Stuck
  <2>4. Serial!Finish(d)
    BY <1>4, <2>1, <2>2, <2>3 DEF Serial!Finish, broken
  <2> QED
    BY <2>1, <2>4 DEF Serial!Next
<1> QED
  BY <1>6, <1>7

LEMMA RefinesRespondThrowing ==
  ASSUME QueueAssumption, Inv, NEW n \in Numbers, RespondThrowing(n)
  PROVE  [Serial!Next]_(Serial!vars)
<1>0. /\ n \in sent \ answered /\ sent' = sent /\ contextLock' = contextLock
      /\ threw' = threw \cup {n} /\ n \notin threw
  BY DEF RespondThrowing, Inv, TypeOK
<1>1. PICK more \in Mores : Callback(more) /\ requestQueue' = requestQueue \cup more
  BY DEF RespondThrowing
<1>2. Grows(more)
  BY <1>1, CallbackGrows DEF Inv
<1>3. Serial!MayAsk /\ (Serial!Ask \/ (last' = last /\ waiting' = waiting))
  BY <1>0, <1>1, <1>2, GrowsAsks
<1>4. CASE request[n].immediate
  <2>1. broken' = broken
    BY <1>0, <1>4, Holder DEF broken, Stuck
  <2> QED
    BY <1>0, <1>3, <2>1, AsksOnly
<1>5. CASE ~request[n].immediate
  <2> DEFINE d == request[n].contextId
  <2>1. d \in Contexts /\ contextLock[d] = n /\ n # None
    BY <1>0, <1>5, Holder
  <2>2. d \notin broken /\ broken' = broken \cup {d}
    BY <1>0, <1>5, <2>1, Holder DEF broken, Stuck
  <2>3. Serial!Break(d)
    BY <1>0, <1>3, <2>1, <2>2 DEF Serial!Break, broken
  <2> QED
    BY <2>1, <2>3 DEF Serial!Next
<1> QED
  BY <1>4, <1>5

LEMMA RefinesPump == ASSUME QueueAssumption, Inv, Pump PROVE [Serial!Next]_(Serial!vars)
<1> DEFINE ready == {c \in Contexts : contextLock[c] = None /\ First(c) # {}}
           W(c) == {n \in requestQueue \ sent : Queued(n, c)}
<1>0. /\ request' = request /\ requestQueue' = requestQueue /\ sent' = sent \cup Sending
      /\ threw' = threw /\ threw \subseteq sent /\ requestQueue \subseteq Made /\ Made \subseteq Nat
  BY DEF Pump, Inv, TypeOK, Numbers
<1>1. last' = last /\ (\A n, c : Queued(n, c)' <=> Queued(n, c))
  BY <1>0 DEF last, Made, Queued
<1>2. ASSUME NEW c \in Contexts, contextLock[c] = None
      PROVE  Waiting(c) = W(c)
  <2>1. \A n \in requestQueue : Queued(n, c) => n \notin sent
    BY <1>0, <1>2, QueueAssumption DEF Inv, LockHeld, TypeOK, QueueAssumption, Numbers
  <2>2. \A n \in requestQueue : n \in Waiting(c) <=> Queued(n, c)
    BY <1>0 DEF Waiting, Queued
  <2> QED
    BY <2>1, <2>2 DEF Waiting
<1>3. ASSUME NEW c \in Contexts, NEW n \in requestQueue, Queued(n, c)
      PROVE  n \in Sending <=> contextLock[c] = None /\ n \in First(c)
  <2>1. n \in Sending <=> \E d \in Contexts : contextLock[d] = None /\ n \in First(d)
    BY <1>3 DEF Sending, Locking, Queued
  <2>2. \A d \in Contexts : n \in First(d) => d = c
    BY <1>3 DEF First, Waiting, Queued
  <2> QED
    BY <2>1, <2>2
<1>4. ASSUME NEW c \in ready
      PROVE  /\ Serial!Earliest(c) \in First(c) /\ First(c) = {Serial!Earliest(c)}
             /\ contextLock'[c] = Serial!Earliest(c) /\ contextLock[c] = None
             /\ W(c) # {} /\ Serial!Earliest(c) \notin sent
  <2>1. Waiting(c) = W(c) /\ contextLock[c] = None
    BY <1>2
  <2>2. First(c) = {n \in W(c) : \A m \in W(c) : n <= m}
    BY <2>1 DEF First
  <2>3. Serial!Earliest(c) = CHOOSE n \in W(c) : \A m \in W(c) : n <= m
    BY DEF Serial!Earliest
  <2>4. Serial!Earliest(c) \in First(c)
    BY <2>2, <2>3
  <2>5. First(c) = {Serial!Earliest(c)}
    BY <2>4, OneFirst DEF Inv
  <2>6. contextLock'[c] = CHOOSE n \in First(c) : TRUE
    BY <2>1 DEF Pump
  <2> QED
    BY <2>1, <2>2, <2>4, <2>5, <2>6
<1>5. ASSUME NEW c \in Contexts, c \notin ready
      PROVE  contextLock'[c] = contextLock[c]
  BY <1>5 DEF Pump
<1>6. ASSUME NEW c \in Contexts
      PROVE  W(c)' = IF c \in ready THEN W(c) \ {Serial!Earliest(c)} ELSE W(c)
  <2>1. W(c)' = W(c) \ Sending
    BY <1>0, <1>1
  <2>2. \A n \in W(c) : n \in Sending <=> c \in ready /\ n \in First(c)
    BY <1>3
  <2> QED
    BY <1>4, <2>1, <2>2
<1>7. broken' = broken
  <2>1. ASSUME NEW c \in Contexts PROVE contextLock'[c] \in threw <=> contextLock[c] \in threw
    BY <1>0, <1>4, <1>5, NoneThrew
  <2> QED
    BY <1>0, <2>1 DEF broken, Stuck
<1>8. /\ contextLock' = [c \in Contexts |->
           IF c \in ready THEN Serial!Earliest(c) ELSE contextLock[c]]
      /\ waiting' = [c \in Contexts |->
           IF c \in ready THEN waiting[c] \ {Serial!Earliest(c)} ELSE waiting[c]]
  <2>1. contextLock' = [c \in Contexts |-> contextLock'[c]]
    BY DEF Pump
  <2>2. waiting' = [c \in Contexts |-> W(c)'] /\ waiting = [c \in Contexts |-> W(c)]
    BY DEF waiting
  <2> QED
    BY <1>4, <1>5, <1>6, <2>1, <2>2
<1>9. CASE ready = {}
  <2>1. contextLock \in [Contexts -> Numbers \cup {None}]
    BY DEF Inv, TypeOK
  <2>2. contextLock' = contextLock /\ waiting' = waiting
    BY <1>8, <1>9, <2>1 DEF waiting
  <2> QED
    BY <1>1, <1>7, <2>2, AsksOnly
<1>10. CASE ready # {}
  <2>1. ready \subseteq Serial!Ready
    BY <1>4 DEF Serial!Ready
  <2>2. Serial!Start(ready)
    BY <1>1, <1>7, <1>8, <1>10, <2>1 DEF Serial!Start, last, waiting, broken
  <2> QED
    BY <2>2 DEF Serial!Next
<1> QED
  BY <1>9, <1>10

LEMMA RefinesNext == QueueAssumption /\ Inv /\ [Next]_vars => [Serial!Next]_(Serial!vars)
<1> SUFFICES ASSUME QueueAssumption, Inv, [Next]_vars PROVE [Serial!Next]_(Serial!vars)
  OBVIOUS
<1>1. ASSUME NEW c \in Contexts, NEW queued \in BOOLEAN, Request(c, queued)
      PROVE  [Serial!Next]_(Serial!vars)
  BY <1>1, RefinesRequest
<1>2. CASE Pump
  BY <1>2, RefinesPump
<1>3. ASSUME NEW n \in Numbers, Respond(n) PROVE [Serial!Next]_(Serial!vars)
  BY <1>3, RefinesRespond
<1>4. ASSUME NEW n \in Numbers, RespondThrowing(n) PROVE [Serial!Next]_(Serial!vars)
  BY <1>4, RefinesRespondThrowing
<1>5. CASE (\E c \in Contexts : FadeIn(c) \/ FadeOut(c)) \/ Load \/ UNCHANGED vars
  <2>1. UNCHANGED queueVars
    BY <1>5 DEF FadeIn, FadeOut, Load, vars
  <2> QED
    BY <2>1 DEF queueVars, Serial!vars, Made, Queued, Stuck
<1> QED
  BY <1>1, <1>2, <1>3, <1>4, <1>5 DEF Next

\* Every step of the queue serves the requests as SerialRequests does: of a context one
\* at a time and in order, whatever the callbacks ask for and whichever of them throws.
\* Its fairness is left to TLC (ImplementsSerial).
THEOREM ServesSerially ==
  QueueAssumption /\ Spec => Serial!Init /\ [][Serial!Next]_(Serial!vars)
<1> SUFFICES ASSUME QueueAssumption PROVE Spec => Serial!Init /\ [][Serial!Next]_(Serial!vars)
  OBVIOUS
<1>1. Init => Serial!Init
  BY RefinesInit
<1>2. Inv /\ [Next]_vars => [Serial!Next]_(Serial!vars)
  BY RefinesNext
<1>3. Spec => []Inv
  BY Invariant
<1> QED
  BY <1>1, <1>2, <1>3, PTL DEF Spec
=============================================================================
