---------------------------- MODULE RequestQueue ----------------------------
(***************************************************************************)
(* The queue through which the Influent client sends its requests:         *)
(* scripts/modules/infRest.js.  Four kinds of request wait their turn      *)
(* behind a lock per context, the others are sent at the next tick.        *)
(* JavaScript runs each handler to its end, so a tick, an answer with its  *)
(* callback and a timer are one step each.                                 *)
(*                                                                         *)
(* Requests are numbered as they are made.  push appends and splice keeps  *)
(* the order, so the array requestQueue is the set of the numbers in it.   *)
(***************************************************************************)
EXTENDS Naturals, FiniteSets

CONSTANTS
  Contexts,     \* context ids
  Unnamed,      \* those of them that are undefined or 'null': no column to cover
  MaxRequests,  \* bounds the requests made
  None

ASSUME QueueAssumption ==
  MaxRequests \in Nat /\ Unnamed \subseteq Contexts /\ None \notin Nat

VARIABLES
  capture,       \* the client runs in a capture process: every request is immediate
  request,       \* number -> the request of that number
  requestQueue,  \* numbers in the queue
  sent,          \* requests that were sent
  answered,      \* requests whose answer came
  threw,         \* requests whose callback threw
  contextLock,   \* context -> the request that holds it
  overlay,       \* context -> its entry in overlayTimers: not there, armed or fired
  fading,        \* contexts whose fadeOutOverlay is due
  listening,     \* the workspace waits for the queue to empty
  loaded,        \* the page's load event came
  announced      \* callPhantom was called

queueVars == <<capture, request, requestQueue, sent, answered, threw, contextLock>>
overlayVars == <<overlay, fading>>
pageVars == <<listening, loaded, announced>>
vars == <<queueVars, overlayVars, pageVars>>

Numbers == 1..MaxRequests
Requests == [contextId : Contexts, immediate : BOOLEAN]
Made == DOMAIN request

Init ==
  /\ capture \in BOOLEAN
  /\ request = [n \in {} |-> None]
  /\ requestQueue = {} /\ sent = {} /\ answered = {} /\ threw = {}
  /\ contextLock = [c \in Contexts |-> None]
  /\ overlay = [c \in Contexts |-> "none"]
  /\ fading = {}
  /\ listening = FALSE /\ loaded = FALSE /\ announced = FALSE

\* The next request, of context c and for a resource that waits (queued) or not.
NextNumber == Cardinality(Made) + 1
With(c, queued) ==
  [i \in Made \cup {NextNumber} |->
     IF i = NextNumber THEN [contextId |-> c, immediate |-> capture \/ ~queued]
     ELSE request[i]]

\* A view makes a request: it is put in the queue.
Request(c, queued) ==
  /\ NextNumber \in Numbers
  /\ request' = With(c, queued)
  /\ requestQueue' = requestQueue \cup {NextNumber}
  /\ UNCHANGED <<capture, sent, answered, threw, contextLock, overlayVars, pageVars>>

\* The requests in the queue that need the lock of c.
Waiting(c) == {n \in requestQueue : ~request[n].immediate /\ request[n].contextId = c}
\* Mutant: the latest request is taken.
FirstLast(c) == {n \in Waiting(c) : \A i \in Waiting(c) : i <= n}

First(c) == {n \in Waiting(c) : \A i \in Waiting(c) : n <= i}
\* The requests that take a lock at this tick.
Locking == UNION {First(c) : c \in {d \in Contexts : contextLock[d] = None}}
\* Mutant: the lock is ignored.
SendingAll == requestQueue

Sending == {n \in requestQueue : request[n].immediate} \cup Locking

\* Every PUMP_INTERVAL: each request that may be sent is sent, and the overlay of
\* a context that is not locked is to go.  A fadeOutOverlay, due at once, comes
\* before the next tick.
Pump ==
  /\ fading = {}
  /\ contextLock' = [c \in Contexts |->
       IF contextLock[c] = None /\ First(c) # {} THEN CHOOSE n \in First(c) : TRUE
       ELSE contextLock[c]]
  /\ sent' = sent \cup Sending
  /\ overlay' = [c \in Contexts |->
       IF /\ overlay[c] = "none" /\ c \notin Unnamed
          /\ \E n \in Locking \ sent : request[n].contextId = c
       THEN "armed" ELSE overlay[c]]
  /\ fading' = {c \in Contexts : overlay'[c] # "none" /\ contextLock'[c] = None}
  /\ UNCHANGED <<capture, request, requestQueue, answered, threw, pageVars>>

\* LOCK_COLUMN_AFTER the request was sent: the column is covered.
FadeIn(c) ==
  /\ overlay[c] = "armed"
  /\ overlay' = [overlay EXCEPT ![c] = "fired"]
  /\ UNCHANGED <<queueVars, fading, pageVars>>

\* Mutant: the entry of the timer is kept.
FadeOutKept(c) ==
  /\ c \in fading
  /\ fading' = fading \ {c}
  /\ UNCHANGED <<queueVars, overlay, pageVars>>

FadeOut(c) ==
  /\ c \in fading
  /\ overlay' = [overlay EXCEPT ![c] = "none"]
  /\ fading' = fading \ {c}
  /\ UNCHANGED <<queueVars, pageVars>>

\* The callback of an answered request makes the requests of "more": none or one.
Callback(more) ==
  \/ more = {} /\ UNCHANGED request
  \/ /\ NextNumber \in Numbers /\ more = {NextNumber}
     /\ \E c \in Contexts, queued \in BOOLEAN : request' = With(c, queued)
Mores == {{}, {NextNumber}}

\* Mutant: the lock is kept.
RespondLocked(n) ==
  /\ n \in sent \ answered
  /\ answered' = answered \cup {n}
  /\ \E more \in Mores : Callback(more) /\ requestQueue' = (requestQueue \cup more) \ {n}
  /\ announced' = (announced \/ (listening /\ requestQueue' = {}))
  /\ UNCHANGED <<capture, sent, threw, contextLock, overlayVars, listening, loaded>>

\* Mutant: the listener is told before the request leaves the queue.
RespondTold(n) ==
  /\ n \in sent \ answered
  /\ answered' = answered \cup {n}
  /\ \E more \in Mores : Callback(more) /\ requestQueue' = (requestQueue \cup more) \ {n}
  /\ contextLock' = [c \in Contexts |->
       IF c = request[n].contextId /\ contextLock[c] = n THEN None ELSE contextLock[c]]
  /\ announced' = (announced \/ (listening /\ requestQueue = {}))
  /\ UNCHANGED <<capture, sent, threw, overlayVars, listening, loaded>>

\* The answer to n, good or bad, comes: its callback runs, n leaves the queue and
\* gives up its lock, and the workspace's listener is told.  That stays for ever:
\* where it removes itself, "this" is not the function.
Respond(n) ==
  /\ n \in sent \ answered
  /\ answered' = answered \cup {n}
  /\ \E more \in Mores : Callback(more) /\ requestQueue' = (requestQueue \cup more) \ {n}
  /\ contextLock' = [c \in Contexts |->
       IF c = request[n].contextId /\ contextLock[c] = n THEN None ELSE contextLock[c]]
  /\ announced' = (announced \/ (listening /\ requestQueue' = {}))
  /\ UNCHANGED <<capture, sent, threw, overlayVars, listening, loaded>>

\* The callback of n throws: nothing after it happens.
RespondThrowing(n) ==
  /\ n \in sent \ answered
  /\ answered' = answered \cup {n}
  /\ threw' = threw \cup {n}
  /\ \E more \in Mores : Callback(more) /\ requestQueue' = requestQueue \cup more
  /\ UNCHANGED <<capture, sent, contextLock, overlayVars, pageVars>>

\* The page has loaded, in a capture process: callPhantom is called when no request
\* is pending, which getPendingRequests tells by 0 or else NaN.
Load ==
  /\ capture /\ ~loaded
  /\ loaded' = TRUE
  /\ listening' = (requestQueue # {})
  /\ announced' = (requestQueue = {})
  /\ UNCHANGED <<queueVars, overlayVars>>

Next ==
  \/ \E c \in Contexts : \/ \E queued \in BOOLEAN : Request(c, queued)
                         \/ FadeIn(c)
                         \/ FadeOut(c)
  \/ Pump
  \/ \E n \in Numbers : Respond(n) \/ RespondThrowing(n)
  \/ Load

Spec == Init /\ [][Next]_vars

\* The interval and the timers run, and every request that is sent gets its answer
\* or the browser's error.
Fairness ==
  /\ WF_vars(Pump)
  /\ \A c \in Contexts : WF_vars(FadeIn(c)) /\ WF_vars(FadeOut(c))
  /\ \A n \in Numbers : WF_vars(Respond(n) \/ RespondThrowing(n))
FairSpec == Spec /\ Fairness

-----------------------------------------------------------------------------
\* Shapes; in particular, requests are answered after they are sent, once.
TypeOK ==
  /\ capture \in BOOLEAN
  /\ Made \subseteq Numbers /\ \A n \in Made : request[n] \in Requests
  /\ requestQueue \subseteq Made /\ sent \subseteq Made
  /\ answered \subseteq sent /\ threw \subseteq answered
  /\ contextLock \in [Contexts -> Numbers \cup {None}]
  /\ overlay \in [Contexts -> {"none", "armed", "fired"}]
  /\ fading \subseteq Contexts
  /\ listening \in BOOLEAN /\ loaded \in BOOLEAN /\ announced \in BOOLEAN

Queued(n, c) == n \in Made /\ ~request[n].immediate /\ request[n].contextId = c

\* The lock of a context is held by the one request of it that was sent and still is in
\* the queue (_processRestRequests, _handleRestResponse): no request is in flight
\* without the lock, and no lock outlives its request.
LockHeld ==
  \A c \in Contexts, n \in Numbers :
    contextLock[c] = n <=> Queued(n, c) /\ n \in sent \cap requestQueue

\* A request that waits is sent after all earlier ones of its context were answered, and
\* their callbacks returned.
InTurn ==
  \A c \in Contexts : \A m, n \in Numbers :
    m < n /\ Queued(m, c) /\ Queued(n, c) /\ n \in sent => m \in answered \ threw

\* A context whose lock nobody will give up: the callback of its owner threw.
Stuck(c) == contextLock[c] \in threw

\* A column that is covered, or soon will be, is uncovered.
OverlayLifts == \A c \in Contexts : overlay[c] # "none" ~> overlay[c] = "none" \/ Stuck(c)

\* A capture process is told that the page is ready (infWorkspace _init): the requests
\* made before and after its load event do not keep it waiting for ever.
Announced == loaded ~> announced \/ threw # {}

\* The queue serves each context's requests one by one, in order.
Serial == INSTANCE SerialRequests WITH
  last <- Cardinality(Made),
  waiting <- [c \in Contexts |-> {n \in requestQueue \ sent : Queued(n, c)}],
  serving <- contextLock,
  broken <- {c \in Contexts : Stuck(c)}
ImplementsSerial == Serial!Spec
=============================================================================
