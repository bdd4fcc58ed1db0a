----------------------------- MODULE PhantomPool -----------------------------
(***************************************************************************)
(* Image capture by a pool of PhantomJS processes: oculus.aperture.capture.*)
(* phantom.impl.{PhantomRendererPool, PhantomRenderer, PhantomTaskResource,*)
(* PhantomCommandLineCapture} and the scripts the processes run,           *)
(* rasterize.js and requestTask.html.                                      *)
(*                                                                         *)
(* A capture request (client) takes a renderer from the pool, hands it its *)
(* task and waits for the result.  Each renderer has a process, whose page *)
(* keeps asking the server for tasks; a server thread (poller) that answers*)
(* in one long response, the stream; and a thread (gobbler) that reads the *)
(* process's standard output and hands over results.  The synchronous      *)
(* queues between them hold nothing: both sides step together.             *)
(*                                                                         *)
(* A task is named by its client, and so is the temporary file it names.   *)
(***************************************************************************)
EXTENDS Integers, Sequences, FiniteSets, SequencesExt

CONSTANTS
  Clients,     \* capture requests, each served once
  Sources,     \* what can be captured
  Jobs,        \* what a client may ask for
  Renderers,   \* the renderers ever made: bounds how often a pool is made
  PoolSize,    \* aperture.imagecapture.phantomjs.poolsize
  Started,     \* those started on startup (PhantomStartRequestHandler), if any
  Calling,     \* sources whose page calls callPhantom
  Bad,         \* sources that may not load
  Lossy,       \* renderers whose connection may be lost
  Mortal,      \* renderers whose process may end by itself
  MaxSize,     \* MAX_MESSAGE_SIZE, a task being of size 1
  Blank, None, Reconnect

Job == [source : Sources, stored : BOOLEAN, reload : BOOLEAN]

ASSUME PoolAssumption ==
  /\ Jobs \subseteq Job /\ Started \subseteq Renderers
  /\ Calling \subseteq Sources /\ Bad \subseteq Sources
  /\ Lossy \subseteq Renderers /\ Mortal \subseteq Renderers
  /\ PoolSize \in Nat \ {0} /\ MaxSize \in Nat
  /\ IsFiniteSet(Clients) /\ IsFiniteSet(Renderers)
  /\ Cardinality(Started) \in {0, PoolSize}
  /\ {Blank, None, Reconnect} \cap (Clients \cup Sources \cup Renderers) = {}
  /\ None \notin {Blank, Reconnect}

Pools == 0..(Cardinality(Clients) + 1)   \* the values "available" has had; 0 is null
Image == Sources \cup {Blank}            \* what a file shows; a new file is blank
Page == [shows : Image \cup {None},      \* exportPage: None, still loading (Blank) or loaded
         url : Sources \cup {None},
         task : Clients \cup {None},
         timers : SUBSET {"current", "stray"},  \* timeoutTask, and one nobody can clear
         calls : BOOLEAN]                \* the loaded page has yet to call callPhantom
NoPage == [shows |-> None, url |-> None, task |-> None, timers |-> {}, calls |-> FALSE]
Gobbler == [at : {"read", "clear", "respond", "put", "ended"},
            task : Clients \cup {None, Reconnect}, ok : BOOLEAN,
            result : Image \cup {None}]
Reading == [at |-> "read", task |-> None, ok |-> FALSE, result |-> None]

VARIABLES
  available,   \* the queue of the pool in use
  queue,       \* pool -> renderers in its queue
  lookup,      \* renderers by worker id
  listening,   \* renderers with a shutdown listener
  pc, job,     \* client -> where its thread is, what it asks for
  pool,        \* client -> the queue it takes from or puts to
  renderer,    \* client -> the renderer it makes or holds
  left,        \* client -> renderers it has still to make
  got,         \* client -> its result
  file,        \* client -> content of its temporary file
  poller,      \* renderer -> where the thread of its task request is
  message,     \* renderer -> what that thread is to write
  inProgress, resetMessage, messageSize,   \* renderer -> fields of PhantomRenderer
  stream,      \* renderer -> written and not yet read by the page
  conn,        \* renderer -> its connection
  proc,        \* renderer -> its process
  page,        \* renderer -> state of rasterize.js
  out,         \* renderer -> lines on standard output not yet read
  gobbler      \* renderer -> its StreamGobbler

poolVars == <<available, queue, lookup, listening>>
clientVars == <<pc, job, pool, renderer, left, got>>
pollVars == <<poller, message, inProgress, resetMessage, messageSize>>
procVars == <<stream, conn, proc, page, out>>
vars == <<poolVars, clientVars, file, pollVars, procVars, gobbler>>

Go(c, place) == pc' = [pc EXCEPT ![c] = place]
At(c, place) == pc[c] = place

-----------------------------------------------------------------------------
(* PhantomRendererPool.init                                                *)

AlreadyInitialized(c) ==
  /\ At(c, "init") /\ lookup # {}
  /\ Go(c, "check")
  /\ UNCHANGED <<poolVars, job, pool, renderer, left, got, file, pollVars, procVars, gobbler>>

StartPool(c) ==
  /\ At(c, "init") /\ lookup = {}
  /\ available' = available + 1
  /\ left' = [left EXCEPT ![c] = PoolSize]
  /\ Go(c, "make")
  /\ UNCHANGED <<queue, lookup, listening, job, pool, renderer, got, file, pollVars, procVars,
                 gobbler>>

\* The constructor starts the process.
MakeRenderer(c, r) ==
  /\ At(c, "make") /\ left[c] > 0
  /\ proc[r] = "new"
  /\ proc' = [proc EXCEPT ![r] = "up"]
  /\ renderer' = [renderer EXCEPT ![c] = r]
  /\ Go(c, "listen")
  /\ UNCHANGED <<poolVars, job, pool, left, got, file, pollVars, stream, conn, page, out, gobbler>>

Listen(c) ==
  /\ At(c, "listen")
  /\ listening' = listening \cup {renderer[c]}
  /\ Go(c, "add")
  /\ UNCHANGED <<available, queue, lookup, job, pool, renderer, left, got, file, pollVars, procVars,
                 gobbler>>

\* The field is read anew; a full queue makes add throw.
AddRenderer(c) ==
  /\ At(c, "add")
  /\ IF Len(queue[available]) < PoolSize
     THEN /\ queue' = [queue EXCEPT ![available] = Append(@, renderer[c])]
          /\ Go(c, "list")
     ELSE /\ Go(c, "failed")
          /\ UNCHANGED queue
  /\ UNCHANGED <<available, lookup, listening, job, pool, renderer, left, got, file, pollVars,
                 procVars, gobbler>>

ListRenderer(c) ==
  /\ At(c, "list")
  /\ lookup' = lookup \cup {renderer[c]}
  /\ left' = [left EXCEPT ![c] = @ - 1]
  /\ renderer' = [renderer EXCEPT ![c] = None]
  /\ Go(c, "make")
  /\ UNCHANGED <<available, queue, listening, job, pool, got, file, pollVars, procVars, gobbler>>

PoolMade(c) ==
  /\ At(c, "make") /\ left[c] = 0
  /\ Go(c, "check")
  /\ UNCHANGED <<poolVars, job, pool, renderer, left, got, file, pollVars, procVars, gobbler>>

-----------------------------------------------------------------------------
(* storedImageRender and inlineImageRender, of the pool and the renderer   *)

\* Without a renderer the request fails; otherwise it waits at the queue in use now.
CheckPool(c) ==
  /\ At(c, "check")
  /\ IF lookup = {} THEN Go(c, "failed") /\ UNCHANGED pool
                    ELSE Go(c, "take") /\ pool' = [pool EXCEPT ![c] = available]
  /\ UNCHANGED <<poolVars, job, renderer, left, got, file, pollVars, procVars, gobbler>>

\* Mutant: the renderer is looked at, not taken.
TakeRendererPeeked(c) ==
  LET q == queue[pool[c]]
      r == Head(q) IN
  /\ At(c, "take") /\ q # <<>>
  /\ renderer' = [renderer EXCEPT ![c] = r]
  /\ resetMessage' = [resetMessage EXCEPT ![r] = FALSE]
  /\ Go(c, IF resetMessage[r] THEN "reset" ELSE "offer")
  /\ UNCHANGED <<poolVars, job, pool, left, got, file, poller, message, inProgress, messageSize,
                 procVars, gobbler>>

\* The task follows a reconnect message if one is due.
TakeRenderer(c) ==
  LET q == queue[pool[c]]
      r == Head(q) IN
  /\ At(c, "take") /\ q # <<>>
  /\ queue' = [queue EXCEPT ![pool[c]] = Tail(q)]
  /\ renderer' = [renderer EXCEPT ![c] = r]
  /\ resetMessage' = [resetMessage EXCEPT ![r] = FALSE]
  /\ Go(c, IF resetMessage[r] THEN "reset" ELSE "offer")
  /\ UNCHANGED <<available, lookup, listening, job, pool, left, got, file, poller, message,
                 inProgress, messageSize, procVars, gobbler>>

ReadQueue(c) ==
  /\ At(c, "return")
  /\ pool' = [pool EXCEPT ![c] = available]
  /\ Go(c, "put")
  /\ UNCHANGED <<poolVars, job, renderer, left, got, file, pollVars, procVars, gobbler>>

\* put waits while the queue is full.
PutBack(c) ==
  /\ At(c, "put")
  /\ Len(queue[pool[c]]) < PoolSize
  /\ queue' = [queue EXCEPT ![pool[c]] = Append(@, renderer[c])]
  /\ renderer' = [renderer EXCEPT ![c] = None]
  /\ Go(c, "done")
  /\ UNCHANGED <<available, lookup, listening, job, pool, left, got, file, pollVars, procVars,
                 gobbler>>

-----------------------------------------------------------------------------
(* The task request: PhantomTaskResource.getTask and write, nextTask        *)

Polling(r) == poller[r] \in {"wait", "now"}
Offering(c, r) == renderer[c] = r /\ pc[c] \in {"reset", "offer"}

\* The page asks for tasks; a worker nobody knows is told to shut down.
Ask(r) ==
  /\ proc[r] = "up" /\ conn[r] = "closed" /\ poller[r] = "none"
  /\ IF r \in lookup
     THEN /\ conn' = [conn EXCEPT ![r] = "open"]
          /\ poller' = [poller EXCEPT ![r] = "wait"]
          /\ UNCHANGED <<proc, out>>
     ELSE /\ proc' = [proc EXCEPT ![r] = "down"]
          /\ out' = [out EXCEPT ![r] = Append(@, "shutdown")]
          /\ UNCHANGED <<conn, poller>>
  /\ UNCHANGED <<poolVars, clientVars, file, message, inProgress, resetMessage, messageSize, stream,
                 page, gobbler>>

\* evaluateMessageSize
Evaluated(r, size) ==
  /\ messageSize' = [messageSize EXCEPT ![r] = size]
  /\ resetMessage' = [resetMessage EXCEPT ![r] = @ \/ size > MaxSize]

PollTask(r, c) ==
  /\ Polling(r) /\ Offering(c, r)
  /\ message' = [message EXCEPT ![r] = IF At(c, "reset") THEN Reconnect ELSE c]
  /\ Evaluated(r, IF At(c, "reset") THEN 0
                  ELSE IF messageSize[r] > MaxSize THEN messageSize[r] ELSE messageSize[r] + 1)
  /\ poller' = [poller EXCEPT ![r] = "took"]
  /\ Go(c, IF At(c, "reset") THEN "offer" ELSE "await")
  /\ UNCHANGED <<poolVars, job, pool, renderer, left, got, file, inProgress, procVars, gobbler>>

PollTimeout(r) ==
  /\ Polling(r) /\ ~\E c \in Clients : Offering(c, r)
  /\ message' = [message EXCEPT ![r] = Reconnect]
  /\ Evaluated(r, 0)
  /\ poller' = [poller EXCEPT ![r] = "write"]
  /\ UNCHANGED <<poolVars, clientVars, file, inProgress, procVars, gobbler>>

SetInProgress(r) ==
  /\ poller[r] = "took"
  /\ inProgress' = [inProgress EXCEPT ![r] = message[r]]
  /\ poller' = [poller EXCEPT ![r] = "write"]
  /\ UNCHANGED <<poolVars, clientVars, file, message, resetMessage, messageSize, procVars, gobbler>>

\* After a task the same response goes on, without waiting for the next; after
\* a reconnect message it ends.  What is written to a lost connection may seem
\* to be sent.
Write(r) ==
  /\ poller[r] = "write" /\ conn[r] \in {"open", "lost"}
  /\ stream' = [stream EXCEPT ![r] = IF conn[r] = "open" THEN Append(@, message[r]) ELSE @]
  /\ poller' = [poller EXCEPT ![r] = IF message[r] = Reconnect THEN "none" ELSE "now"]
  /\ message' = [message EXCEPT ![r] = None]
  /\ UNCHANGED <<poolVars, clientVars, file, inProgress, resetMessage, messageSize, conn, proc, page,
                 out, gobbler>>

\* reofferCurrent waits for a poll that only another task request can make.
WriteFails(r) ==
  /\ poller[r] = "write" /\ conn[r] = "lost"
  /\ poller' = [poller EXCEPT ![r] = IF inProgress[r] = None THEN "none" ELSE "reoffer"]
  /\ message' = [message EXCEPT ![r] = None]
  /\ UNCHANGED <<poolVars, clientVars, file, inProgress, resetMessage, messageSize, procVars, gobbler>>

-----------------------------------------------------------------------------
(* The process: requestTask.html and rasterize.js                          *)

Up(r) == proc[r] = "up" /\ conn[r] # "lost"
Heads(r, m) == Up(r) /\ stream[r] # <<>> /\ Head(stream[r]) = m
Says(r, line) == out' = [out EXCEPT ![r] = Append(@, line)]

\* render writes whatever the page shows by now to the file of the latest task.
Rendered(r, p) ==
  /\ file' = [file EXCEPT ![p.task] = p.shows]
  /\ page' = [page EXCEPT ![r] = [p EXCEPT !.timers = @ \ {"current"}]]
  /\ Says(r, "success")

ReadReconnect(r) ==
  /\ Heads(r, Reconnect)
  /\ stream' = [stream EXCEPT ![r] = Tail(@)]
  /\ conn' = [conn EXCEPT ![r] = "closed"]
  /\ UNCHANGED <<poolVars, clientVars, file, pollVars, proc, page, out, gobbler>>

\* Mutant: whatever page is shown is used again.
ReusableAny(r, c) == page[r].shows # None /\ ~job[c].reload

\* The page shown is used again for the source it was loaded from.
Reusable(r, c) ==
  /\ page[r].shows # None
  /\ ~job[c].reload
  /\ page[r].url = job[c].source

ReadTask(r, c) ==
  /\ Heads(r, c)
  /\ stream' = [stream EXCEPT ![r] = Tail(@)]
  /\ IF Reusable(r, c)
     THEN Rendered(r, [page[r] EXCEPT !.task = c])
     ELSE /\ page' = [page EXCEPT ![r] =
                        [NoPage EXCEPT !.shows = Blank, !.task = c, !.timers = page[r].timers]]
          /\ UNCHANGED <<file, out>>
  /\ UNCHANGED <<poolVars, clientVars, pollVars, conn, proc, gobbler>>

Loading(r) == Up(r) /\ page[r].shows = Blank

\* A timer that is pending already can no longer be cleared.
Loaded(r) ==
  LET source == job[page[r].task].source IN
  /\ Loading(r)
  /\ page' = [page EXCEPT
       ![r] = [@ EXCEPT !.shows = source, !.url = source, !.calls = source \in Calling,
                        !.timers = {"current"} \cup (IF page[r].timers = {} THEN {} ELSE {"stray"})]]
  /\ UNCHANGED <<poolVars, clientVars, file, pollVars, stream, conn, proc, out, gobbler>>

\* Mutant: the page is not released.
LoadFailedKept(r) ==
  /\ Loading(r)
  /\ job[page[r].task].source \in Bad
  /\ "error" \notin ToSet(out[r])
  /\ Says(r, "error")
  /\ UNCHANGED <<poolVars, clientVars, file, pollVars, stream, conn, proc, page, gobbler>>

LoadFailed(r) ==
  /\ Loading(r)
  /\ job[page[r].task].source \in Bad
  /\ page' = [page EXCEPT ![r].shows = None]
  /\ Says(r, "error")
  /\ UNCHANGED <<poolVars, clientVars, file, pollVars, stream, conn, proc, gobbler>>

\* renderDelay is over.  With no page left render fails before it has done anything.
TimerFires(r, k) ==
  LET p == [page[r] EXCEPT !.timers = @ \ {k}] IN
  /\ Up(r) /\ k \in page[r].timers
  /\ IF p.shows # None
     THEN Rendered(r, p)
     ELSE /\ page' = [page EXCEPT ![r] = p]
          /\ UNCHANGED <<file, out>>
  /\ UNCHANGED <<poolVars, clientVars, pollVars, stream, conn, proc, gobbler>>

\* The page calls callPhantom: before the timer fires, or after.
PageCalls(r) ==
  /\ Up(r) /\ page[r].calls
  /\ Rendered(r, [page[r] EXCEPT !.calls = FALSE])
  /\ UNCHANGED <<poolVars, clientVars, pollVars, stream, conn, proc, gobbler>>

ConnectionLost(r) ==
  /\ r \in Lossy /\ conn[r] = "open"
  /\ conn' = [conn EXCEPT ![r] = "lost"]
  /\ stream' = [stream EXCEPT ![r] = <<>>]
  /\ UNCHANGED <<poolVars, clientVars, file, pollVars, proc, page, out, gobbler>>

\* The request ended without a reconnect message.
ShutDown(r) ==
  /\ proc[r] = "up" /\ conn[r] = "lost"
  /\ proc' = [proc EXCEPT ![r] = "down"]
  /\ Says(r, "shutdown")
  /\ UNCHANGED <<poolVars, clientVars, file, pollVars, stream, conn, page, gobbler>>

ProcessExits(r) ==
  /\ r \in Mortal /\ proc[r] = "up"
  /\ proc' = [proc EXCEPT ![r] = "down"]
  /\ conn' = [conn EXCEPT ![r] = IF @ = "open" THEN "lost" ELSE @]
  /\ stream' = [stream EXCEPT ![r] = <<>>]
  /\ UNCHANGED <<poolVars, clientVars, file, pollVars, page, out, gobbler>>

-----------------------------------------------------------------------------
(* StreamGobbler.run and PhantomRenderer.putResponse                       *)

ReadLine(r) ==
  /\ gobbler[r].at = "read" /\ out[r] # <<>>
  /\ Head(out[r]) # "shutdown"
  /\ out' = [out EXCEPT ![r] = Tail(@)]
  /\ gobbler' = [gobbler EXCEPT ![r] = [at |-> "clear", task |-> inProgress[r],
                                        ok |-> Head(out[r]) = "success", result |-> None]]
  /\ UNCHANGED <<poolVars, clientVars, file, pollVars, stream, conn, proc, page>>

\* The shutdown listener forgets the renderer, unless it is not there yet.
ReadShutdown(r) ==
  /\ gobbler[r].at = "read" /\ out[r] # <<>>
  /\ Head(out[r]) = "shutdown"
  /\ out' = [out EXCEPT ![r] = Tail(@)]
  /\ gobbler' = [gobbler EXCEPT ![r].at = "ended"]
  /\ IF r \in listening
     THEN /\ queue' = [queue EXCEPT ![available] = RemoveFirst(@, r)]
          /\ lookup' = lookup \ {r}
     ELSE UNCHANGED <<queue, lookup>>
  /\ UNCHANGED <<available, listening, clientVars, file, pollVars, stream, conn, proc, page>>

OutputEnds(r) ==
  /\ gobbler[r].at = "read" /\ out[r] = <<>> /\ proc[r] = "down"
  /\ gobbler' = [gobbler EXCEPT ![r].at = "ended"]
  /\ UNCHANGED <<poolVars, clientVars, file, pollVars, procVars>>

\* Mutant: inProgress is not cleared.
ClearForgotten(r) ==
  /\ gobbler[r].at = "clear"
  /\ gobbler' = [gobbler EXCEPT ![r] =
       IF gobbler[r].task = None THEN Reading
       ELSE [@ EXCEPT !.at = IF gobbler[r].task = Reconnect THEN "ended" ELSE "respond"]]
  /\ UNCHANGED <<poolVars, clientVars, file, pollVars, procVars>>

\* inProgress is cleared in a statement of its own.  Without a task nothing is
\* answered; a reconnect message has none of the entries of a task, and the
\* exception ends the thread.
ClearInProgress(r) ==
  /\ gobbler[r].at = "clear"
  /\ inProgress' = [inProgress EXCEPT ![r] = None]
  /\ gobbler' = [gobbler EXCEPT ![r] =
       IF gobbler[r].task = None THEN Reading
       ELSE [@ EXCEPT !.at = IF gobbler[r].task = Reconnect THEN "ended" ELSE "respond"]]
  /\ UNCHANGED <<poolVars, clientVars, file, poller, message, resetMessage, messageSize, procVars>>

Responding(r, result) ==
  /\ gobbler' = [gobbler EXCEPT ![r] = [@ EXCEPT !.at = "put", !.result = result]]
  /\ UNCHANGED <<poolVars, clientVars, pollVars, procVars>>

\* The file is read and deleted, and the image handed over or stored.
Respond(r) ==
  LET client == gobbler[r].task IN
  /\ gobbler[r].at = "respond"
  /\ Responding(r, file[client])
  /\ gobbler[r].ok
  /\ file' = [file EXCEPT ![client] = Blank]

\* No capture, or it cannot be read or stored.
RespondNone(r) ==
  /\ gobbler[r].at = "respond"
  /\ Responding(r, None)
  /\ ~gobbler[r].ok \/ job[gobbler[r].task].source \in Bad
  /\ UNCHANGED file

\* imageResult and cmsResult are queues of their own.
Deliver(r, c) ==
  /\ gobbler[r].at = "put"
  /\ At(c, "await") /\ renderer[c] = r
  /\ job[c].stored = job[gobbler[r].task].stored
  /\ got' = [got EXCEPT ![c] = gobbler[r].result]
  /\ gobbler' = [gobbler EXCEPT ![r] = Reading]
  /\ Go(c, "return")
  /\ UNCHANGED <<poolVars, job, pool, renderer, left, file, pollVars, procVars>>

-----------------------------------------------------------------------------
Init ==
  /\ available = IF Started = {} THEN 0 ELSE 1
  /\ queue = [p \in Pools |-> IF p = 1 THEN SetToSeq(Started) ELSE <<>>]
  /\ lookup = Started
  /\ listening = Started
  /\ pc = [c \in Clients |-> "init"]
  /\ job \in [Clients -> Jobs]
  /\ pool = [c \in Clients |-> 0]
  /\ renderer = [c \in Clients |-> None]
  /\ left = [c \in Clients |-> 0]
  /\ got = [c \in Clients |-> None]
  /\ file = [c \in Clients |-> Blank]
  /\ poller = [r \in Renderers |-> "none"]
  /\ message = [r \in Renderers |-> None]
  /\ inProgress = [r \in Renderers |-> None]
  /\ resetMessage = [r \in Renderers |-> FALSE]
  /\ messageSize = [r \in Renderers |-> 0]
  /\ stream = [r \in Renderers |-> <<>>]
  /\ conn = [r \in Renderers |-> "closed"]
  /\ proc = [r \in Renderers |-> IF r \in Started THEN "up" ELSE "new"]
  /\ page = [r \in Renderers |-> NoPage]
  /\ out = [r \in Renderers |-> <<>>]
  /\ gobbler = [r \in Renderers |-> Reading]

Client(c) ==
  \/ AlreadyInitialized(c) \/ StartPool(c) \/ (\E r \in Renderers : MakeRenderer(c, r))
  \/ Listen(c) \/ AddRenderer(c) \/ ListRenderer(c) \/ PoolMade(c)
  \/ CheckPool(c) \/ TakeRenderer(c) \/ ReadQueue(c) \/ PutBack(c)
Poll(r) ==
  \/ (\E c \in Clients : PollTask(r, c)) \/ PollTimeout(r)
  \/ SetInProgress(r) \/ Write(r) \/ WriteFails(r)
Work(r) ==
  \/ Ask(r) \/ ReadReconnect(r) \/ (\E c \in Clients : ReadTask(r, c))
  \/ Loaded(r) \/ LoadFailed(r) \/ ShutDown(r)
  \/ \E k \in {"current", "stray"} : TimerFires(r, k)
Gobble(r) ==
  \/ ReadLine(r) \/ ReadShutdown(r) \/ OutputEnds(r) \/ ClearInProgress(r)
  \/ Respond(r) \/ RespondNone(r) \/ \E c \in Clients : Deliver(r, c)
Fault(r) == PageCalls(r) \/ ConnectionLost(r) \/ ProcessExits(r)

Next ==
  \/ \E c \in Clients : Client(c)
  \/ \E r \in Renderers : Poll(r) \/ Work(r) \/ Gobble(r) \/ Fault(r)

Spec == Init /\ [][Next]_vars

\* Every thread and every process keeps running; a page's loading ends and its
\* timers fire, however often the process asks for tasks meanwhile.
Fairness ==
  /\ \A c \in Clients : WF_vars(Client(c))
  /\ \A r \in Renderers :
       /\ WF_vars(Poll(r)) /\ WF_vars(Work(r)) /\ WF_vars(Gobble(r))
       /\ WF_vars(Loaded(r) \/ LoadFailed(r)) /\ WF_vars(TimerFires(r, "current"))
LiveSpec == Spec /\ Fairness

-----------------------------------------------------------------------------
(* Properties                                                              *)

\* A renderer in the pool is done with what it was used for: nothing of an earlier
\* task is on its way to the page, on the page or on its way back.
IdleInPool ==
  \A p \in Pools : \A r \in ToSet(queue[p]) :
    /\ inProgress[r] \in {None, Reconnect} /\ ToSet(stream[r]) \cap Clients = {}
    /\ page[r].shows # Blank /\ page[r].timers = {}
    /\ gobbler[r].at \in {"read", "ended"}
    /\ ToSet(out[r]) \subseteq {"shutdown"}

\* A task in progress, and a result on its way, is awaited by the client whose
\* task it is, at that renderer.
AnswerAwaited ==
  \A r \in Renderers : \A c \in Clients :
    \/ inProgress[r] = c
    \/ gobbler[r].at \in {"respond", "put"} /\ gobbler[r].task = c
    => At(c, "await") /\ renderer[c] = r

\* A client gets an image of what it asked for, or none.
OwnImage == \A c \in Clients : got[c] \in {job[c].source, None}

\* A renderer serves one client at a time: it is in one queue, once, or held by
\* one client, even when pools are made again and renderers shut down or die.
Holds(c, r) == renderer[c] = r /\ pc[c] \in {"reset", "offer", "await", "return", "put"}
OnePlace ==
  \A r \in Renderers :
    Cardinality({c \in Clients : Holds(c, r)})
      + Cardinality({e \in Pools \X (1..PoolSize) : e[2] <= Len(queue[e[1]])
                                                 /\ queue[e[1]][e[2]] = r}) <= 1

\* The pool is a capture service: a request waits for a renderer, is served by it,
\* and answered with an image of its own source or none.
Progress(c) ==
  CASE pc[c] \in {"reset", "offer", "await"} -> "serving"
    [] pc[c] \in {"return", "put"} -> "answered"
    [] pc[c] = "done" -> "done"
    [] OTHER -> "waiting"
Service == INSTANCE CaptureService WITH
             state <- [c \in Clients |-> Progress(c)],
             wanted <- [c \in Clients |-> job[c].source], image <- got
ImplementsService == Service!LiveSpec
=============================================================================
