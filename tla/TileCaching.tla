----------------------------- MODULE TileCaching -----------------------------
(***************************************************************************)
(* The tile cache of one layer of the aperture-tiles server:               *)
(* com.oculusinfo.tile.rest.tile.caching.{CachingPyramidIO, TileCache,      *)
(* TileCacheEntry} and com.oculusinfo.binning.util.LRUCache.               *)
(*                                                                         *)
(* A request first asks for its tile set (requestTiles: missing tiles get  *)
(* an entry, are read from the base pyramid and provided), then reads its  *)
(* own tile: an image under the monitor of the TileCache (readTiles), a    *)
(* JSON tile without it (getTileStream).  "owner" is that monitor.  The    *)
(* monitor of the LRU map is held by a request that makes its entries, and *)
(* otherwise only for the length of one call, which is one step here.  A   *)
(* TileCacheEntry has no lock of its own.                                  *)
(*                                                                         *)
(* A request makes at most one entry for a tile: <<tile, request>> names   *)
(* the TileCacheEntry.                                                     *)
(***************************************************************************)
EXTENDS Integers, Sequences, FiniteSets, SequencesExt

CONSTANTS
  Tiles,      \* tile indices
  Filled,     \* the tiles the base pyramid has data for
  Requests,   \* the requests made, each served once by its own thread
  Jobs,       \* what a request may ask for
  Failing,    \* requests whose read of the base pyramid may fail
  MaxSize,    \* size of the LRU map
  MaxAge,     \* _maxTileAge
  MaxTime,    \* bound on the clock
  None

Job == [tiles : SUBSET Tiles, index : Tiles, stream : BOOLEAN]

ASSUME TileAssumption ==
  /\ Filled \subseteq Tiles /\ Failing \subseteq Requests
  /\ Jobs \subseteq {j \in Job : j.index \in j.tiles}
  /\ MaxSize \in Nat \ {0} /\ MaxAge \in Nat /\ MaxTime \in Nat
  /\ IsFiniteSet(Tiles) /\ IsFiniteSet(Requests)
  /\ None \notin Tiles /\ None \notin Requests

Times == 0..MaxTime
Data(x) == IF x \in Filled THEN x ELSE None   \* null for an empty tile

Entry == [time : Times, received : BOOLEAN, tile : Tiles \cup {None},
          retrieved : BOOLEAN, callbacks : Seq(Requests)]
NoEntry == [time |-> 0, received |-> FALSE, tile |-> None,
            retrieved |-> FALSE, callbacks |-> <<>>]
Callback == [tile : Tiles \cup {None}, waiting : BOOLEAN, notified : BOOLEAN]

Faults == {"evicted", "policy", "monitor", "modified"}  \* exceptions that end a request
Places == {"enter", "request", "base", "provide", "setTile", "listen", "notify",
           "read", "check", "add", "wait", "waiting", "done"} \cup Faults

VARIABLES
  clock,      \* System.currentTimeMillis
  lru,        \* keys of the map, least recently used first
  current,    \* tile -> the request whose entry is in the map, or None
  entry,      \* <<tile, request>> -> TileCacheEntry
  haveData,   \* _haveData: pairs <<tile, time>>
  oldestKey,  \* the first of _orderedKeys, or None
  owner,      \* the request in the monitor of the TileCache, or None
  pc,         \* request -> where its thread is
  job,        \* request -> what it asks for
  todo,       \* request -> tiles still to be asked for or provided
  needed,     \* request -> tiles it has to read from the base pyramid
  at,         \* request -> the tile being provided
  expected,   \* request -> callbacks its iterator still expects
  held,       \* request -> the entry its own tile is read from
  callback,   \* request -> its CacheListenerCallback
  broken      \* history: requests whose read of the base pyramid failed

mapVars == <<lru, current, haveData, oldestKey>>
readVars == <<held, callback>>
fillVars == <<todo, needed, at, expected, broken>>
vars == <<clock, mapVars, entry, owner, pc, job, fillVars, readVars>>

-----------------------------------------------------------------------------
Go(r, place) == pc' = [pc EXCEPT ![r] = place]
Leave(r) == owner' = IF owner = r THEN None ELSE owner   \* end of synchronized
Throw(r, fault) == Go(r, fault) /\ Leave(r)

\* Mutant: the key is put last without leaving its place.
TouchedTwice(keys, x) == Append(keys, x)

\* get moves the key to the end of the access order.
Dropped(keys, x) == RemoveFirst(keys, x)
Touched(keys, x) == Append(Dropped(keys, x), x)

\* No thread is inside synchronized (_cache).
MapFree == \A u \in Requests : pc[u] # "request"

EntryOf(x) == entry[<<x, current[x]>>]
Age(e) == clock - e.time
Removable(x) == EntryOf(x).retrieved \/ Age(EntryOf(x)) > MaxAge

\* abandonTile calls notify on the callback of a waiting reader without owning
\* its monitor.
AbandonThrows(x) == \E c \in ToSet(EntryOf(x).callbacks) : callback[c].waiting

-----------------------------------------------------------------------------
(* requestTiles: making the entries (getNewRequests).                      *)

RequestTiles(r) ==
  /\ pc[r] = "enter"
  /\ owner = None
  /\ owner' = r
  /\ todo' = [todo EXCEPT ![r] = job[r].tiles]
  /\ Go(r, "request")
  /\ UNCHANGED <<clock, mapVars, entry, job, needed, at, expected, broken, readVars>>

AlreadyRequested(r, x) ==
  /\ pc[r] = "request"
  /\ x \in todo[r]
  /\ current[x] # None
  /\ todo' = [todo EXCEPT ![r] = @ \ {x}]
  /\ UNCHANGED <<clock, mapVars, entry, owner, pc, job, needed, at, expected, broken, readVars>>

\* The new entry is in the map; the map's overflow is dealt with in the same call.
Put(r, x) ==
  /\ pc[r] = "request"
  /\ x \in todo[r]
  /\ current[x] = None
  /\ UNCHANGED <<clock, haveData, job, at, expected, broken, readVars>>
PutOk(r, x) ==
  /\ Put(r, x)
  /\ todo' = [todo EXCEPT ![r] = @ \ {x}]
  /\ oldestKey' = IF oldestKey = None THEN x ELSE oldestKey
  /\ needed' = [needed EXCEPT ![r] = @ \cup {x}]
  /\ UNCHANGED <<owner, pc>>
PutFails(r, x, fault) ==
  /\ Put(r, x)
  /\ todo' = [todo EXCEPT ![r] = {}]
  /\ needed' = [needed EXCEPT ![r] = {}]
  /\ Throw(r, fault)
  /\ UNCHANGED oldestKey

NewEntry(r, x) == [entry EXCEPT ![<<x, r>>] = [NoEntry EXCEPT !.time = clock]]
Keys(x) == Append(lru, x)
Added(r, x) == [current EXCEPT ![x] = r]

Requested(r, x) ==
  /\ PutOk(r, x)
  /\ Len(lru) < MaxSize
  /\ lru' = Keys(x)
  /\ current' = Added(r, x)
  /\ entry' = NewEntry(r, x)

\* shouldRemove, first case: the eldest entry has been retrieved or is too old.
Eldest == Head(lru)
\* Mutant: the eldest entry always goes.
EldestAlwaysRemoved(r, x) ==
  /\ PutOk(r, x)
  /\ Len(lru) >= MaxSize
  /\ ~AbandonThrows(Eldest)
  /\ lru' = Tail(Keys(x))
  /\ current' = [Added(r, x) EXCEPT ![Eldest] = None]
  /\ entry' = [NewEntry(r, x) EXCEPT ![<<Eldest, current[Eldest]>>].callbacks = <<>>]

EldestRemoved(r, x) ==
  /\ PutOk(r, x)
  /\ Len(lru) >= MaxSize
  /\ Removable(Eldest)
  /\ ~AbandonThrows(Eldest)
  /\ lru' = Tail(Keys(x))
  /\ current' = [Added(r, x) EXCEPT ![Eldest] = None]
  /\ entry' = [NewEntry(r, x) EXCEPT ![<<Eldest, current[Eldest]>>].callbacks = <<>>]

\* The exception leaves the eldest entry in the map, and the callbacks that come
\* after the one that threw.
EldestAbandonFails(r, x) ==
  /\ PutFails(r, x, "monitor")
  /\ Len(lru) >= MaxSize
  /\ Removable(Eldest)
  /\ AbandonThrows(Eldest)
  /\ lru' = Keys(x)
  /\ current' = Added(r, x)
  /\ LET cs == EntryOf(Eldest).callbacks IN
     \E n \in DOMAIN cs :
       /\ callback[cs[n]].waiting
       /\ \A k \in 1..(n - 1) : ~callback[cs[k]].waiting
       /\ entry' = [NewEntry(r, x) EXCEPT ![<<Eldest, current[Eldest]>>].callbacks
                                            = SubSeq(cs, n, Len(cs))]

\* shouldRemove, second case: _haveData is searched for a retrieved entry, in
\* the order of EntryAgeComparator, which puts the latest time first; the search
\* ends early at a tile that is no longer in the map.
Pinned == Len(lru) >= MaxSize /\ ~Removable(Eldest)
Ends(x, p) == p[1] # x /\ (current[p[1]] # None => EntryOf(p[1]).retrieved)
Stops(x) == {p \in haveData : Ends(x, p)}
Search(x) == {p \in haveData : \A q \in Stops(x) : q[2] <= p[2]}   \* the pairs visited
Found(x) == Stops(x) # {}
EndOf(x) == CHOOSE p \in Stops(x) : \A q \in Stops(x) : q[2] <= p[2]
Handled(x) == EndOf(x)[1]   \* the tile the search ends at

\* The keys after a visit to the n latest times, in falling order.
Visited(keys, pairs) ==
  LET visited[n \in 0..(MaxTime + 1)] ==
        IF n = 0 THEN keys
        ELSE LET there == {p \in pairs : p[2] = MaxTime + 1 - n} IN
             IF there = {} THEN visited[n - 1]
             ELSE Touched(visited[n - 1], (CHOOSE p \in there : TRUE)[1])
  IN visited[MaxTime + 1]

HandledRemoved(r, x) ==
  LET y == Handled(x) IN
  /\ PutOk(r, x)
  /\ Pinned /\ Found(x)
  /\ current[y] # None
  /\ ~AbandonThrows(y)
  /\ lru' = Dropped(Visited(Keys(x), Search(x)), y)
  /\ current' = [Added(r, x) EXCEPT ![y] = None]
  /\ entry' = [NewEntry(r, x) EXCEPT ![<<y, current[y]>>].callbacks = <<>>]

\* _cache.get answers null for a tile that has left the map.
HandledMissing(r, x) ==
  /\ PutFails(r, x, "policy")
  /\ Pinned /\ Found(x)
  /\ current[Handled(x)] = None
  /\ lru' = Visited(Keys(x), Search(x) \ {EndOf(x)})
  /\ current' = Added(r, x)
  /\ entry' = NewEntry(r, x)

\* shouldRemove, third case: the first key ever requested, if it is too old.
OldestRemoved(r, x) ==
  /\ PutOk(r, x)
  /\ Pinned /\ ~Found(x)
  /\ oldestKey # x /\ current[oldestKey] # None
  /\ Age(EntryOf(oldestKey)) > MaxAge
  /\ ~AbandonThrows(oldestKey)
  /\ lru' = Dropped(Visited(Keys(x), Search(x)), oldestKey)
  /\ current' = [Added(r, x) EXCEPT ![oldestKey] = None]
  /\ entry' = [NewEntry(r, x) EXCEPT ![<<oldestKey, current[oldestKey]>>].callbacks = <<>>]

OldestKept(r, x) ==
  /\ PutOk(r, x)
  /\ Pinned /\ ~Found(x)
  /\ oldestKey = x \/ (current[oldestKey] # None /\ Age(EntryOf(oldestKey)) <= MaxAge)
  /\ lru' = Touched(Visited(Keys(x), Search(x)), oldestKey)
  /\ current' = Added(r, x)
  /\ entry' = NewEntry(r, x)

OldestMissing(r, x) ==
  /\ PutFails(r, x, "policy")
  /\ Pinned /\ ~Found(x)
  /\ oldestKey # x /\ current[oldestKey] = None
  /\ lru' = Visited(Keys(x), Search(x))
  /\ current' = Added(r, x)
  /\ entry' = NewEntry(r, x)

\* remove takes the entry out of the map before it abandons it.
RemoveAbandonFails(r, x) ==
  LET y == IF Found(x) THEN Handled(x) ELSE oldestKey IN
  /\ PutFails(r, x, "monitor")
  /\ Pinned
  /\ y # x /\ current[y] # None
  /\ Removable(y)
  /\ AbandonThrows(y)
  /\ lru' = Dropped(Visited(Keys(x), Search(x)), y)
  /\ current' = [Added(r, x) EXCEPT ![y] = None]
  /\ entry' = NewEntry(r, x)

\* Nothing to read: the request goes on to its own tile.
EntriesMade(r) ==
  /\ pc[r] = "request"
  /\ todo[r] = {}
  /\ IF needed[r] = {} THEN Go(r, "read") /\ Leave(r)
                       ELSE Go(r, "base") /\ UNCHANGED owner
  /\ UNCHANGED <<clock, mapVars, entry, job, fillVars, readVars>>

-----------------------------------------------------------------------------
(* requestTiles: reading the base pyramid and providing the tiles.         *)

\* Mutant: nobody is told of the tiles the base pyramid has no data for.
BaseReadFilled(r) ==
  /\ pc[r] = "base"
  /\ todo' = [todo EXCEPT ![r] = needed[r] \cap Filled]
  /\ needed' = [needed EXCEPT ![r] = {}]
  /\ Go(r, "provide")
  /\ UNCHANGED <<clock, mapVars, entry, owner, job, at, expected, broken, readVars>>

BaseRead(r) ==
  /\ pc[r] = "base"
  /\ todo' = [todo EXCEPT ![r] = needed[r]]
  /\ needed' = [needed EXCEPT ![r] = {}]
  /\ Go(r, "provide")
  /\ UNCHANGED <<clock, mapVars, entry, owner, job, at, expected, broken, readVars>>

\* prepareForRendering logs the IOException; the request goes on.
BaseFailed(r) ==
  /\ pc[r] = "base"
  /\ r \in Failing
  /\ broken' = broken \cup {r}
  /\ needed' = [needed EXCEPT ![r] = {}]
  /\ Go(r, "read")
  /\ Leave(r)
  /\ UNCHANGED <<clock, mapVars, entry, job, todo, at, expected, readVars>>

\* Tiles with data first, then the fact that the others are empty.  An entry that
\* is no longer in the map is skipped.
Provide(r, x) ==
  /\ pc[r] = "provide"
  /\ x \in todo[r]
  /\ x \in Filled \/ todo[r] \cap Filled = {}
  /\ todo' = [todo EXCEPT ![r] = @ \ {x}]
  /\ IF current[x] = None
     THEN UNCHANGED <<lru, entry, pc, at>>
     ELSE /\ lru' = Touched(lru, x)
          /\ entry' = [entry EXCEPT ![<<x, current[x]>>].received = TRUE]
          /\ at' = [at EXCEPT ![r] = x]
          /\ Go(r, "setTile")
  /\ UNCHANGED <<clock, current, haveData, oldestKey, owner, job, needed, expected, broken,
                 readVars>>

Filling(r) == <<at[r], current[at[r]]>>
NothingAt(r) == /\ at' = [at EXCEPT ![r] = None]
                /\ expected' = [expected EXCEPT ![r] = 0]

\* _tile comes after _received; then the iterator over the callbacks is made.
SetTile(r) ==
  /\ pc[r] = "setTile"
  /\ entry' = [entry EXCEPT ![Filling(r)].tile = Data(at[r])]
  /\ expected' = [expected EXCEPT ![r] = Len(entry[Filling(r)].callbacks)]
  /\ Go(r, "listen")
  /\ UNCHANGED <<clock, mapVars, owner, job, todo, needed, at, broken, readVars>>

\* A reader has added its callback since the iterator was made.
Modified(r) ==
  /\ pc[r] \in {"listen", "notify"}
  /\ Len(entry[Filling(r)].callbacks) # expected[r]
  /\ todo' = [todo EXCEPT ![r] = {}]
  /\ NothingAt(r)
  /\ Throw(r, "modified")
  /\ UNCHANGED <<clock, mapVars, entry, job, needed, broken, readVars>>
Unmodified(r) == Len(entry[Filling(r)].callbacks) = expected[r]

\* The cache's own listener is the first callback.  The TreeSet takes no second
\* pair with the same time.
Listen(r) ==
  LET x == at[r]
      time == entry[Filling(r)].time IN
  /\ pc[r] = "listen"
  /\ Unmodified(r)
  /\ haveData' = IF \E p \in haveData : p[2] = time THEN haveData
                 ELSE haveData \cup {<<x, time>>}
  /\ lru' = Touched(lru, x)
  /\ Go(r, "notify")
  /\ UNCHANGED <<clock, current, oldestKey, entry, owner, job, fillVars, readVars>>

Notify(r) ==
  LET e == entry[Filling(r)]
      waiter == Head(e.callbacks) IN
  /\ pc[r] = "notify"
  /\ Unmodified(r)
  /\ e.callbacks # <<>>
  /\ callback' = [callback EXCEPT ![waiter].tile = e.tile, ![waiter].notified = TRUE]
  /\ entry' = [entry EXCEPT ![Filling(r)].callbacks = Tail(@),
                            ![Filling(r)].retrieved = TRUE]
  /\ expected' = [expected EXCEPT ![r] = @ - 1]
  /\ UNCHANGED <<clock, mapVars, owner, pc, job, todo, needed, at, broken, held>>

Notified(r) ==
  /\ pc[r] = "notify"
  /\ Unmodified(r)
  /\ entry[Filling(r)].callbacks = <<>>
  /\ Go(r, "provide")
  /\ NothingAt(r)
  /\ UNCHANGED <<clock, mapVars, entry, owner, job, todo, needed, broken, readVars>>

Provided(r) ==
  /\ pc[r] = "provide"
  /\ todo[r] = {}
  /\ Go(r, "read")
  /\ Leave(r)
  /\ UNCHANGED <<clock, mapVars, entry, job, fillVars, readVars>>

-----------------------------------------------------------------------------
(* getTileData: reading the request's own tile.                            *)

\* readTiles is synchronized on the cache, getTileStream is not.
MayRead(r) == /\ pc[r] = "read"
              /\ job[r].stream \/ owner = None
              /\ MapFree

GetEntry(r) ==
  LET x == job[r].index IN
  /\ MayRead(r)
  /\ current[x] # None
  /\ lru' = Touched(lru, x)
  /\ held' = [held EXCEPT ![r] = <<x, current[x]>>]
  /\ owner' = IF job[r].stream THEN owner ELSE r
  /\ Go(r, "check")
  /\ UNCHANGED <<clock, current, haveData, oldestKey, entry, job, fillVars, callback>>

\* The entry has left the map since requestTiles: a NullPointerException.
EntryGone(r) ==
  /\ MayRead(r)
  /\ current[job[r].index] = None
  /\ Go(r, "evicted")
  /\ UNCHANGED <<clock, mapVars, entry, owner, job, fillVars, readVars>>

\* TileCacheEntry.requestTile: the callback is called at once ...
CheckReceived(r) ==
  /\ pc[r] = "check"
  /\ entry[held[r]].received
  /\ callback' = [callback EXCEPT ![r].tile = entry[held[r]].tile, ![r].notified = TRUE]
  /\ entry' = [entry EXCEPT ![held[r]].retrieved = TRUE]
  /\ Go(r, "wait")
  /\ UNCHANGED <<clock, mapVars, owner, job, fillVars, held>>

\* Mutant: the callback is kept whether or not the tile is there.
CheckMissingAlways(r) ==
  /\ pc[r] = "check"
  /\ Go(r, "add")
  /\ UNCHANGED <<clock, mapVars, entry, owner, job, fillVars, readVars>>

\* ... or kept for setTile.
CheckMissing(r) ==
  /\ pc[r] = "check"
  /\ ~entry[held[r]].received
  /\ Go(r, "add")
  /\ UNCHANGED <<clock, mapVars, entry, owner, job, fillVars, readVars>>

AddCallback(r) ==
  /\ pc[r] = "add"
  /\ entry' = [entry EXCEPT ![held[r]].callbacks = Append(@, r)]
  /\ Go(r, "wait")
  /\ UNCHANGED <<clock, mapVars, owner, job, fillVars, readVars>>

Answer(r) == Go(r, "done") /\ Leave(r)

WaitForTile(r) ==
  /\ pc[r] = "wait"
  /\ IF callback[r].notified
     THEN Answer(r) /\ UNCHANGED callback
     ELSE /\ callback' = [callback EXCEPT ![r].waiting = TRUE]
          /\ Go(r, "waiting")
          /\ UNCHANGED owner
  /\ UNCHANGED <<clock, mapVars, entry, job, fillVars, held>>

\* Mutant: the wait has no time limit.
StopWaitingNotified(r) ==
  /\ pc[r] = "waiting"
  /\ callback[r].notified
  /\ callback' = [callback EXCEPT ![r].waiting = FALSE]
  /\ Answer(r)
  /\ UNCHANGED <<clock, mapVars, entry, job, fillVars, held>>

\* Notified, or after a second: _tile, whatever it is by then.
StopWaiting(r) ==
  /\ pc[r] = "waiting"
  /\ callback' = [callback EXCEPT ![r].waiting = FALSE]
  /\ Answer(r)
  /\ UNCHANGED <<clock, mapVars, entry, job, fillVars, held>>

-----------------------------------------------------------------------------
Tick ==
  /\ clock < MaxTime
  /\ clock' = clock + 1
  /\ UNCHANGED <<mapVars, entry, owner, pc, job, fillVars, readVars>>

Init ==
  /\ clock = 0
  /\ lru = <<>>
  /\ current = [x \in Tiles |-> None]
  /\ entry = [e \in Tiles \X Requests |-> NoEntry]
  /\ haveData = {}
  /\ oldestKey = None
  /\ owner = None
  /\ pc = [r \in Requests |-> "enter"]
  /\ job \in [Requests -> Jobs]
  /\ todo = [r \in Requests |-> {}]
  /\ needed = [r \in Requests |-> {}]
  /\ at = [r \in Requests |-> None]
  /\ expected = [r \in Requests |-> 0]
  /\ held = [r \in Requests |-> None]
  /\ callback = [r \in Requests |-> [tile |-> None, waiting |-> FALSE, notified |-> FALSE]]
  /\ broken = {}

MakeEntry(r, x) ==
  \/ AlreadyRequested(r, x) \/ Requested(r, x)
  \/ EldestRemoved(r, x) \/ EldestAbandonFails(r, x)
  \/ HandledRemoved(r, x) \/ HandledMissing(r, x)
  \/ OldestRemoved(r, x) \/ OldestKept(r, x) \/ OldestMissing(r, x)
  \/ RemoveAbandonFails(r, x)
Fill(r) ==
  \/ BaseRead(r) \/ BaseFailed(r) \/ (\E x \in Tiles : Provide(r, x)) \/ SetTile(r)
  \/ Modified(r) \/ Listen(r) \/ Notify(r) \/ Notified(r) \/ Provided(r)
Read(r) ==
  \/ GetEntry(r) \/ EntryGone(r) \/ CheckReceived(r) \/ CheckMissing(r)
  \/ AddCallback(r) \/ WaitForTile(r) \/ StopWaiting(r)
Step(r) ==
  \/ RequestTiles(r) \/ (\E x \in Tiles : MakeEntry(r, x)) \/ EntriesMade(r)
  \/ Fill(r) \/ Read(r)

Next == Tick \/ \E r \in Requests : Step(r)

Spec == Init /\ [][Next]_vars

\* A request that has begun keeps running, and a wait ends after a second.
Fairness == \A r \in Requests : WF_vars(Step(r))
LiveSpec == Spec /\ Fairness

-----------------------------------------------------------------------------
(* Properties                                                              *)

\* Every variable stays in its type, and the map holds each of its keys once.
TypeOK ==
  /\ clock \in Times
  /\ lru \in Seq(Tiles)
  /\ \A i, k \in DOMAIN lru : lru[i] = lru[k] => i = k
  /\ current \in [Tiles -> Requests \cup {None}]
  /\ \A x \in Tiles : current[x] # None <=> x \in ToSet(lru)
  /\ entry \in [Tiles \X Requests -> Entry]
  /\ haveData \subseteq Tiles \X Times
  /\ oldestKey \in Tiles \cup {None}
  /\ owner \in Requests \cup {None}
  /\ pc \in [Requests -> Places]
  /\ job \in [Requests -> Jobs]
  /\ todo \in [Requests -> SUBSET Tiles]
  /\ needed \in [Requests -> SUBSET Tiles]
  /\ at \in [Requests -> Tiles \cup {None}]
  /\ expected \in [Requests -> Nat]
  /\ held \in [Requests -> (Tiles \X Requests) \cup {None}]
  /\ callback \in [Requests -> Callback]
  /\ broken \subseteq Requests

\* The request that made an entry has left it without its tile for good.
Abandoned(e) == e[2] \in broken \/ pc[e[2]] \in {"policy", "monitor", "modified"}

\* An entry in the map has its tile, or the request that made it is about to
\* give it the tile, or that request failed.
FilledOrFailed ==
  \A x \in Tiles :
    current[x] # None /\ ~EntryOf(x).received =>
      LET r == current[x] IN
      \/ Abandoned(<<x, r>>)
      \/ pc[r] \in {"request", "base"} /\ x \in needed[r]
      \/ pc[r] \in {"provide", "setTile", "listen", "notify"} /\ x \in todo[r]

\* An image is drawn without its tile only if the request that was to read the
\* tile failed, and only then does readTiles wait (holding up all others).
ImageHasTile ==
  \A r \in Requests :
    ~job[r].stream =>
      /\ pc[r] = "done" /\ callback[r].tile # Data(job[r].index) => Abandoned(held[r])
      /\ pc[r] = "waiting" => Abandoned(held[r])

\* An entry stays in the map until its tile has been handed out or it is older
\* than _maxTileAge, however full the map is.
KeptWhilePromised ==
  [][\A x \in Tiles : current[x] # None /\ current'[x] # current[x] => Removable(x)]_vars

\* Every request ends, with an answer or an exception.
RequestEnds == \A r \in Requests : pc[r] = "enter" ~> pc[r] \in {"done"} \cup Faults
=============================================================================
