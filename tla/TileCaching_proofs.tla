-------------------------- MODULE TileCaching_proofs --------------------------
(***************************************************************************)
(* Every entry of the tile cache is filled, or its maker is at it or has   *)
(* failed; an image gets its tile; a promised tile stays; the types: for   *)
(* any tiles, requests, size and age limit.                                *)
(*                                                                         *)
(* FilledOrFailed needs little of the other variables: which functions     *)
(* they are, and that an entry in the map names the request that made it.  *)
(* The order of the map, the removal policy and the callbacks play no part.*)
(***************************************************************************)
EXTENDS TileCaching, SequenceTheorems, WellFoundedInduction, TLAPS

\* What FilledOrFailed rests on.
Shape ==
  /\ current \in [Tiles -> Requests \cup {None}]
  /\ DOMAIN entry = Tiles \X Requests
  /\ \A x \in Tiles, r \in Requests : "received" \in DOMAIN entry[<<x, r>>]
  /\ pc \in [Requests -> Places]
  /\ todo \in [Requests -> SUBSET Tiles]
  /\ needed \in [Requests -> SUBSET Tiles]
  /\ job \in [Requests -> Jobs]

FilledInv == Shape /\ FilledOrFailed

\* What makes an entry of request q for tile x nobody's loss.
Cared(x, q) ==
  \/ Abandoned(<<x, q>>)
  \/ pc[q] \in {"request", "base"} /\ x \in needed[q]
  \/ pc[q] \in {"provide", "setTile", "listen", "notify"} /\ x \in todo[q]

\* FilledOrFailed in terms of the entries of one tile and one request.
LEMMA FilledMeaning ==
  Shape => (FilledOrFailed <=>
    \A x \in Tiles, q \in Requests :
      current[x] = q /\ ~entry[<<x, q>>].received => Cared(x, q))
  BY TileAssumption DEF FilledOrFailed, EntryOf, Cared, Abandoned, Shape

\* The same of the next state.
LEMMA FilledMeaningNext ==
  Shape' => (FilledOrFailed' <=>
    \A x \in Tiles, q \in Requests :
      current'[x] = q /\ ~entry'[<<x, q>>].received => Cared(x, q)')
  BY TileAssumption DEF FilledOrFailed, EntryOf, Cared, Abandoned, Shape

\* Initially the map is empty.
LEMMA FilledInit == Init => FilledInv
  BY TileAssumption
  DEF Init, FilledInv, FilledOrFailed, Shape, NoEntry, Places, Faults

\* A step keeps the invariant if the entries that stay in the map, or come to it
\* without a tile, are cared for by the request that made them.
LEMMA Kept ==
  ASSUME FilledInv, Shape',
         \A x \in Tiles, q \in Requests :
           current'[x] = q /\ ~entry'[<<x, q>>].received =>
             \/ Cared(x, q)'
             \/ /\ current[x] = q /\ ~entry[<<x, q>>].received
                /\ Cared(x, q) => Cared(x, q)'
  PROVE  FilledInv'
  BY FilledMeaning, FilledMeaningNext DEF FilledInv

\* An update of one field of one entry leaves the fields and the entries.
LEMMA EntryUpdate ==
  ASSUME NEW f, NEW e, NEW v, NEW name \in {"tile", "retrieved", "callbacks"},
         DOMAIN f = Tiles \X Requests,
         \A x \in Tiles, r \in Requests : "received" \in DOMAIN f[<<x, r>>]
  PROVE  LET g == [f EXCEPT ![e] = [f[e] EXCEPT ![name] = v]] IN
         /\ DOMAIN g = Tiles \X Requests
         /\ \A x \in Tiles, r \in Requests :
              "received" \in DOMAIN g[<<x, r>>] /\ g[<<x, r>>].received = f[<<x, r>>].received
  OBVIOUS

-----------------------------------------------------------------------------
(* Making the entries                                                      *)

\* The request that makes an entry without failing has it among those it reads.
LEMMA PutOkFilled ==
  ASSUME NEW r \in Requests, NEW x \in Tiles, FilledInv, PutOk(r, x),
         \A y \in Tiles : current'[y] \in {Added(r, x)[y], None},
         current' \in [Tiles -> Requests \cup {None}],
         DOMAIN entry' = Tiles \X Requests,
         \A y \in Tiles, q \in Requests :
           /\ "received" \in DOMAIN entry'[<<y, q>>]
           /\ <<y, q>> # <<x, r>> => entry'[<<y, q>>].received = entry[<<y, q>>].received
  PROVE  FilledInv'
<1>1. Shape'
  BY DEF FilledInv, Shape, PutOk, Put
<1>2. /\ pc' = pc /\ broken' = broken
      /\ pc[r] = "request" /\ x \in needed'[r]
      /\ \A q \in Requests : needed[q] \subseteq needed'[q]
      /\ \A q \in Requests : q # r => todo'[q] = todo[q]
  BY DEF FilledInv, Shape, PutOk, Put
<1>3. ASSUME NEW y \in Tiles, NEW q \in Requests,
             current'[y] = q, ~entry'[<<y, q>>].received
      PROVE  \/ Cared(y, q)'
             \/ /\ current[y] = q /\ ~entry[<<y, q>>].received
                /\ Cared(y, q) => Cared(y, q)'
  <2>1. Added(r, x)[y] = q
    BY <1>3, TileAssumption
  <2>2. CASE y = x
    <3>1. q = r
      BY <2>1, <2>2 DEF Added, FilledInv, Shape
    <3> QED
      BY <3>1, <2>2, <1>2 DEF Cared
  <2>3. CASE y # x
    <3>1. current[y] = q /\ ~entry[<<y, q>>].received
      BY <2>1, <2>3, <1>3 DEF Added, FilledInv, Shape
    <3>2. Cared(y, q) => Cared(y, q)'
      BY <1>2 DEF Cared, Abandoned
    <3> QED
      BY <3>1, <3>2
  <2> QED
    BY <2>2, <2>3
<1> QED
  BY <1>1, <1>3, Kept

\* A request that fails while it makes its entries has abandoned them all.
LEMMA PutFailsFilled ==
  ASSUME NEW r \in Requests, NEW x \in Tiles, NEW fault \in {"policy", "monitor"},
         FilledInv, PutFails(r, x, fault),
         \A y \in Tiles : current'[y] \in {Added(r, x)[y], None},
         current' \in [Tiles -> Requests \cup {None}],
         DOMAIN entry' = Tiles \X Requests,
         \A y \in Tiles, q \in Requests :
           /\ "received" \in DOMAIN entry'[<<y, q>>]
           /\ <<y, q>> # <<x, r>> => entry'[<<y, q>>].received = entry[<<y, q>>].received
  PROVE  FilledInv'
<1>1. Shape'
  BY DEF FilledInv, Shape, PutFails, Put, Throw, Go, Places, Faults
<1>2. /\ broken' = broken /\ pc'[r] = fault
      /\ \A q \in Requests : q # r =>
           pc'[q] = pc[q] /\ needed'[q] = needed[q] /\ todo'[q] = todo[q]
  BY DEF FilledInv, Shape, PutFails, Put, Throw, Go
<1>3. ASSUME NEW y \in Tiles, NEW q \in Requests,
             current'[y] = q, ~entry'[<<y, q>>].received
      PROVE  \/ Cared(y, q)'
             \/ /\ current[y] = q /\ ~entry[<<y, q>>].received
                /\ Cared(y, q) => Cared(y, q)'
  <2>1. CASE q = r
    BY <2>1, <1>2 DEF Cared, Abandoned
  <2>2. CASE q # r
    <3>1. Added(r, x)[y] = q
      BY <1>3, TileAssumption
    <3>2. current[y] = q /\ ~entry[<<y, q>>].received
      BY <2>2, <3>1, <1>3 DEF Added, FilledInv, Shape
    <3>3. Cared(y, q) => Cared(y, q)'
      BY <2>2, <1>2 DEF Cared, Abandoned
    <3> QED
      BY <3>2, <3>3
  <2> QED
    BY <2>1, <2>2
<1> QED
  BY <1>1, <1>3, Kept

\* What the new entry changes.
LEMMA NewEntryShape ==
  ASSUME NEW r \in Requests, NEW x \in Tiles, Shape
  PROVE  /\ DOMAIN NewEntry(r, x) = Tiles \X Requests
         /\ \A y \in Tiles, q \in Requests :
              /\ "received" \in DOMAIN NewEntry(r, x)[<<y, q>>]
              /\ <<y, q>> # <<x, r>> =>
                   NewEntry(r, x)[<<y, q>>].received = entry[<<y, q>>].received
         /\ Added(r, x) \in [Tiles -> Requests \cup {None}]
  BY DEF Shape, NewEntry, NoEntry, Added

\* Each way of making an entry.
LEMMA MakeEntryFilled ==
  ASSUME NEW r \in Requests, NEW x \in Tiles, FilledInv, MakeEntry(r, x)
  PROVE  FilledInv'
<1> USE DEF FilledInv
<1>0. /\ DOMAIN NewEntry(r, x) = Tiles \X Requests
      /\ \A y \in Tiles, q \in Requests :
           /\ "received" \in DOMAIN NewEntry(r, x)[<<y, q>>]
           /\ <<y, q>> # <<x, r>> =>
                NewEntry(r, x)[<<y, q>>].received = entry[<<y, q>>].received
      /\ Added(r, x) \in [Tiles -> Requests \cup {None}]
  BY NewEntryShape
<1>1. CASE AlreadyRequested(r, x)
  <2>1. Shape'
    BY <1>1 DEF AlreadyRequested, Shape, mapVars
  <2>2. \A y \in Tiles, q \in Requests : Cared(y, q) => Cared(y, q)'
    BY <1>1 DEF AlreadyRequested, Shape, mapVars, Cared, Abandoned
  <2> QED
    BY <1>1, <2>1, <2>2, Kept DEF AlreadyRequested, mapVars
<1>2. CASE Requested(r, x)
  BY <1>0, <1>2, PutOkFilled DEF Requested
<1>3. CASE EldestRemoved(r, x)
  <2> DEFINE e == <<Eldest, current[Eldest]>>
  <2>1. entry' = [NewEntry(r, x) EXCEPT ![e] = [NewEntry(r, x)[e] EXCEPT !["callbacks"] = <<>>]]
    BY <1>3 DEF EldestRemoved
  <2>2. current' = [Added(r, x) EXCEPT ![Eldest] = None] /\ PutOk(r, x)
    BY <1>3 DEF EldestRemoved
  <2> HIDE DEF e
  <2>3. /\ DOMAIN entry' = Tiles \X Requests
        /\ \A z \in Tiles, q \in Requests :
             /\ "received" \in DOMAIN entry'[<<z, q>>]
             /\ entry'[<<z, q>>].received = NewEntry(r, x)[<<z, q>>].received
    BY <1>0, <2>1, EntryUpdate
  <2>4. /\ current' \in [Tiles -> Requests \cup {None}]
        /\ \A z \in Tiles : current'[z] \in {Added(r, x)[z], None}
    BY <1>0, <2>2
  <2> QED
    BY <1>0, <2>2, <2>3, <2>4, PutOkFilled
<1>4. CASE EldestAbandonFails(r, x)
  <2> DEFINE e == <<Eldest, current[Eldest]>>
  <2>1. PICK cs : entry' = [NewEntry(r, x) EXCEPT ![e] =
                              [NewEntry(r, x)[e] EXCEPT !["callbacks"] = cs]]
    BY <1>4 DEF EldestAbandonFails
  <2>2. current' = Added(r, x) /\ PutFails(r, x, "monitor")
    BY <1>4 DEF EldestAbandonFails
  <2> QED
    BY <1>0, <2>1, <2>2, EntryUpdate, PutFailsFilled
<1>5. CASE HandledRemoved(r, x)
  <2> DEFINE y == Handled(x)
             e == <<y, current[y]>>
  <2>1. entry' = [NewEntry(r, x) EXCEPT ![e] = [NewEntry(r, x)[e] EXCEPT !["callbacks"] = <<>>]]
    BY <1>5 DEF HandledRemoved
  <2>2. current' = [Added(r, x) EXCEPT ![y] = None] /\ PutOk(r, x)
    BY <1>5 DEF HandledRemoved
  <2> HIDE DEF y, e
  <2>3. /\ DOMAIN entry' = Tiles \X Requests
        /\ \A z \in Tiles, q \in Requests :
             /\ "received" \in DOMAIN entry'[<<z, q>>]
             /\ entry'[<<z, q>>].received = NewEntry(r, x)[<<z, q>>].received
    BY <1>0, <2>1, EntryUpdate
  <2>4. /\ current' \in [Tiles -> Requests \cup {None}]
        /\ \A z \in Tiles : current'[z] \in {Added(r, x)[z], None}
    BY <1>0, <2>2
  <2> QED
    BY <1>0, <2>2, <2>3, <2>4, PutOkFilled
<1>6. CASE HandledMissing(r, x)
  BY <1>0, <1>6, PutFailsFilled DEF HandledMissing
<1>7. CASE OldestRemoved(r, x)
  <2> DEFINE e == <<oldestKey, current[oldestKey]>>
  <2>1. entry' = [NewEntry(r, x) EXCEPT ![e] = [NewEntry(r, x)[e] EXCEPT !["callbacks"] = <<>>]]
    BY <1>7 DEF OldestRemoved
  <2>2. current' = [Added(r, x) EXCEPT ![oldestKey] = None] /\ PutOk(r, x)
    BY <1>7 DEF OldestRemoved
  <2> HIDE DEF e
  <2>3. /\ DOMAIN entry' = Tiles \X Requests
        /\ \A z \in Tiles, q \in Requests :
             /\ "received" \in DOMAIN entry'[<<z, q>>]
             /\ entry'[<<z, q>>].received = NewEntry(r, x)[<<z, q>>].received
    BY <1>0, <2>1, EntryUpdate
  <2>4. /\ current' \in [Tiles -> Requests \cup {None}]
        /\ \A z \in Tiles : current'[z] \in {Added(r, x)[z], None}
    BY <1>0, <2>2
  <2> QED
    BY <1>0, <2>2, <2>3, <2>4, PutOkFilled
<1>8. CASE OldestKept(r, x)
  BY <1>0, <1>8, PutOkFilled DEF OldestKept
<1>9. CASE OldestMissing(r, x)
  BY <1>0, <1>9, PutFailsFilled DEF OldestMissing
<1>10. CASE RemoveAbandonFails(r, x)
  <2> DEFINE y == IF Found(x) THEN Handled(x) ELSE oldestKey
  <2>1. /\ current' = [Added(r, x) EXCEPT ![y] = None]
        /\ PutFails(r, x, "monitor")
        /\ entry' = NewEntry(r, x)
    BY <1>10 DEF RemoveAbandonFails
  <2> HIDE DEF y
  <2> QED
    BY <1>0, <2>1, PutFailsFilled
<1> QED
  BY <1>1, <1>2, <1>3, <1>4, <1>5, <1>6, <1>7, <1>8, <1>9, <1>10 DEF MakeEntry

-----------------------------------------------------------------------------
(* The other steps                                                         *)

\* A step that makes no entry, removes none and takes back no tile keeps the
\* invariant if the request that steps still cares for its entries.
LEMMA OthersFilled ==
  ASSUME NEW r \in Requests, FilledInv, Shape', current' = current,
         \A y \in Tiles, q \in Requests :
           entry[<<y, q>>].received => entry'[<<y, q>>].received,
         broken \subseteq broken',
         \A q \in Requests : q # r =>
           pc'[q] = pc[q] /\ needed'[q] = needed[q] /\ todo'[q] = todo[q],
         \A y \in Tiles :
           current[y] = r /\ ~entry'[<<y, r>>].received /\ Cared(y, r) => Cared(y, r)'
  PROVE  FilledInv'
<1>1. ASSUME NEW y \in Tiles, NEW q \in Requests, q # r, Cared(y, q)
      PROVE  Cared(y, q)'
  BY <1>1 DEF Cared, Abandoned
<1> QED
  BY <1>1, Kept

\* Reading the base pyramid and providing the tiles.
LEMMA FillFilled ==
  ASSUME NEW r \in Requests, FilledInv, Fill(r)
  PROVE  FilledInv'
<1> USE DEF FilledInv, Shape, mapVars, readVars, fillVars, Go, Leave
<1>1. CASE BaseRead(r)
  BY <1>1, OthersFilled DEF BaseRead, Cared, Abandoned, Places
<1>2. CASE BaseFailed(r)
  BY <1>2, OthersFilled DEF BaseFailed, Cared, Abandoned, Places
<1>3. ASSUME NEW x \in Tiles, Provide(r, x)
      PROVE  FilledInv'
  <2>1. CASE current[x] = None
    BY <1>3, <2>1, OthersFilled, TileAssumption DEF Provide, Cared, Abandoned
  <2>2. CASE current[x] # None
    <3>1. Shape'
      BY <1>3, <2>2 DEF Provide, Places
    <3>2. /\ current' = current /\ broken' = broken
          /\ pc[r] = "provide" /\ pc' = [pc EXCEPT ![r] = "setTile"]
          /\ todo' = [todo EXCEPT ![r] = @ \ {x}] /\ needed' = needed
          /\ entry' = [entry EXCEPT ![<<x, current[x]>>].received = TRUE]
      BY <1>3, <2>2 DEF Provide
    <3>3. \A y \in Tiles, q \in Requests :
            /\ entry[<<y, q>>].received => entry'[<<y, q>>].received
            /\ y = x /\ current[x] = q => entry'[<<y, q>>].received
      BY <3>2
    <3>4. \A y \in Tiles :
            current[y] = r /\ ~entry'[<<y, r>>].received /\ Cared(y, r) => Cared(y, r)'
      BY <3>2, <3>3 DEF Cared, Abandoned
    <3> QED
      BY <3>1, <3>2, <3>3, <3>4, OthersFilled
  <2> QED
    BY <2>1, <2>2
<1>4. CASE SetTile(r)
  BY <1>4, OthersFilled DEF SetTile, Cared, Abandoned, Places
<1>5. CASE Modified(r)
  BY <1>5, OthersFilled DEF Modified, Throw, NothingAt, Cared, Abandoned, Places, Faults
<1>6. CASE Listen(r)
  BY <1>6, OthersFilled DEF Listen, Cared, Abandoned, Places
<1>7. CASE Notify(r)
  BY <1>7, OthersFilled DEF Notify, Cared, Abandoned, Places
<1>8. CASE Notified(r)
  BY <1>8, OthersFilled DEF Notified, NothingAt, Cared, Abandoned, Places
<1>9. CASE Provided(r)
  BY <1>9, OthersFilled DEF Provided, Cared, Abandoned, Places
<1> QED
  BY <1>1, <1>2, <1>3, <1>4, <1>5, <1>6, <1>7, <1>8, <1>9 DEF Fill

\* Reading the request's own tile.
LEMMA ReadFilled ==
  ASSUME NEW r \in Requests, FilledInv, Read(r)
  PROVE  FilledInv'
<1> USE DEF FilledInv, Shape, mapVars, readVars, fillVars, Go, Leave, Answer, Cared, Abandoned,
            Places, Faults
<1>1. CASE GetEntry(r)
  BY <1>1, OthersFilled DEF GetEntry, MayRead
<1>2. CASE EntryGone(r)
  BY <1>2, OthersFilled DEF EntryGone, MayRead
<1>3. CASE CheckReceived(r)
  BY <1>3, OthersFilled DEF CheckReceived
<1>4. CASE CheckMissing(r)
  BY <1>4, OthersFilled DEF CheckMissing
<1>5. CASE AddCallback(r)
  <2>1. Shape' /\ current' = current
    BY <1>5 DEF AddCallback
  <2>2. \A y \in Tiles, q \in Requests :
          entry[<<y, q>>].received => entry'[<<y, q>>].received
    BY <1>5 DEF AddCallback
  <2>3. \A y \in Tiles :
          current[y] = r /\ ~entry'[<<y, r>>].received /\ Cared(y, r) => Cared(y, r)'
    BY <1>5 DEF AddCallback
  <2> QED
    BY <1>5, <2>1, <2>2, <2>3, OthersFilled DEF AddCallback
<1>6. CASE WaitForTile(r)
  BY <1>6, OthersFilled DEF WaitForTile
<1>7. CASE StopWaiting(r)
  BY <1>7, OthersFilled DEF StopWaiting
<1> QED
  BY <1>1, <1>2, <1>3, <1>4, <1>5, <1>6, <1>7 DEF Read

\* Every step keeps the invariant.
LEMMA StepFilled == FilledInv /\ [Next]_vars => FilledInv'
<1> SUFFICES ASSUME FilledInv, [Next]_vars
             PROVE  FilledInv'
  OBVIOUS
<1>1. ASSUME NEW r \in Requests, RequestTiles(r)
      PROVE  FilledInv'
  <2>1. Shape'
    BY <1>1, TileAssumption
    DEF RequestTiles, FilledInv, Shape, mapVars, Go, Places, Job
  <2>2. /\ \A q \in Requests : q # r =>
             pc'[q] = pc[q] /\ needed'[q] = needed[q] /\ todo'[q] = todo[q]
        /\ current' = current /\ entry' = entry /\ broken' = broken
        /\ pc[r] = "enter"
    BY <1>1 DEF RequestTiles, FilledInv, Shape, mapVars, Go
  <2>3. \A y \in Tiles : Cared(y, r) => Cared(y, r)'
    BY <2>2 DEF Cared, Abandoned
  <2> QED
    BY <2>1, <2>2, <2>3, OthersFilled
<1>2. ASSUME NEW r \in Requests, EntriesMade(r)
      PROVE  FilledInv'
  BY <1>2, OthersFilled
  DEF EntriesMade, FilledInv, Shape, mapVars, fillVars, Go, Leave, Cared, Abandoned, Places
<1>3. CASE Tick \/ UNCHANGED vars
  BY <1>3
  DEF Tick, vars, mapVars, fillVars, readVars, FilledInv, Shape, FilledOrFailed, EntryOf, Abandoned
<1> QED
  BY <1>1, <1>2, <1>3, MakeEntryFilled, FillFilled, ReadFilled DEF Next, Step

\* An entry in the map has its tile, or the request that made it is about to
\* give it the tile, or that request failed: however tiles are evicted and
\* whatever exceptions end requests.
THEOREM EntriesFilled == Spec => []FilledOrFailed
<1>1. FilledInv => FilledOrFailed
  BY DEF FilledInv
<1> QED
  BY FilledInit, StepFilled, <1>1, PTL DEF Spec

-----------------------------------------------------------------------------
(* An image is drawn with its tile unless the request that was to read the *)
(* tile failed.                                                            *)
(*                                                                         *)
(* The reader of an image is inside the monitor of the TileCache from its  *)
(* look-up on, so that the tile it finds is not evicted, made again or     *)
(* being filled while it looks: EntriesFilled then says that the tile is   *)
(* there.  What could still harm it is a callback it left with an entry,   *)
(* which only the reader of an abandoned entry does.                       *)

FillingPlaces == {"request", "base", "provide", "setTile", "listen", "notify"}
ProvidingPlaces == {"setTile", "listen", "notify"}
ReadingPlaces == {"check", "add", "wait", "waiting"}

\* Which functions the variables are.
HasFields(e) == "received" \in DOMAIN e /\ "tile" \in DOMAIN e /\ "callbacks" \in DOMAIN e
ImageShape ==
  /\ at \in [Requests -> Tiles \cup {None}]
  /\ DOMAIN held = Requests
  /\ DOMAIN callback = Requests
  /\ \A r \in Requests : {"tile", "notified"} \subseteq DOMAIN callback[r]
  /\ \A x \in Tiles, q \in Requests :
       /\ HasFields(entry[<<x, q>>])
       /\ entry[<<x, q>>].callbacks \in Seq(Requests)

\* Who is inside the monitor owns it.
OwnerInside ==
  \A q \in Requests :
    \/ pc[q] \in FillingPlaces
    \/ pc[q] \in ReadingPlaces /\ ~job[q].stream
    => owner = q

\* The tile being provided stays in the map, and is set before it is handed out.
AtEntry ==
  \A q \in Requests : pc[q] \in ProvidingPlaces =>
    /\ at[q] \in Tiles /\ current[at[q]] \in Requests
    /\ pc[q] # "setTile" => entry[Filling(q)].tile = Data(at[q])

\* A received entry has its tile, or is about to be given it.
BeingSet(x, q) == \E p \in Requests : pc[p] = "setTile" /\ at[p] = x /\ current[x] = q
ReceivedIsData ==
  \A x \in Tiles, q \in Requests :
    entry[<<x, q>>].received => entry[<<x, q>>].tile = Data(x) \/ BeingSet(x, q)

\* The reader of an image leaves its callback with no entry but an abandoned one.
Caller(c) ==
  ~job[c].stream => /\ pc[c] \in {"wait", "waiting", "done"}
                    /\ held[c] \in Tiles \X Requests /\ Abandoned(held[c])
HasCallback(x, q, c) ==
  \E i \in DOMAIN entry[<<x, q>>].callbacks : entry[<<x, q>>].callbacks[i] = c
Callers ==
  \A x \in Tiles, q \in Requests, c \in Requests : HasCallback(x, q, c) => Caller(c)

\* The reader of an image has found an abandoned entry, or its tile.
HasFound(r) ==
  /\ pc[r] = "check" /\ held[r][1] = job[r].index
  /\ entry[held[r]].received /\ entry[held[r]].tile = Data(job[r].index)
HasTile(r) ==
  /\ pc[r] \in {"wait", "done"}
  /\ callback[r].notified /\ callback[r].tile = Data(job[r].index)
Reader(r) ==
  /\ held[r] \in Tiles \X Requests
  /\ Abandoned(held[r]) \/ HasFound(r) \/ HasTile(r)
Readers ==
  \A r \in Requests : ~job[r].stream /\ pc[r] \in ReadingPlaces \cup {"done"} => Reader(r)

ImageInv ==
  /\ FilledInv /\ ImageShape
  /\ OwnerInside /\ AtEntry /\ ReceivedIsData /\ Callers /\ Readers

\* The invariant is stronger than the property.
LEMMA ImageInvImplies == ImageInv => ImageHasTile
  BY DEF ImageInv, Readers, Reader, HasFound, HasTile, ImageHasTile, ReadingPlaces

\* Nobody is inside the monitor initially.
LEMMA ImageInit == Init => ImageInv
<1> SUFFICES ASSUME Init
             PROVE  ImageInv
  OBVIOUS
<1>1. FilledInv
  BY FilledInit
<1>2. ImageShape
  BY EmptySeq DEF Init, ImageShape, NoEntry, HasFields
<1>3. OwnerInside /\ AtEntry /\ Readers
  BY DEF Init, OwnerInside, AtEntry, Readers, FillingPlaces, ProvidingPlaces, ReadingPlaces
<1>4. \A x \in Tiles, q \in Requests : ~entry[<<x, q>>].received
  BY DEF Init, NoEntry
<1>5. \A x \in Tiles, q \in Requests : entry[<<x, q>>].callbacks = <<>>
  BY DEF Init, NoEntry
<1> QED
  BY <1>1, <1>2, <1>3, <1>4, <1>5 DEF ImageInv, ReceivedIsData, Callers, HasCallback

\* An abandoned entry stays abandoned: a request that failed takes no further step.
LEMMA AbandonedForEver ==
  ASSUME FilledInv, [Next]_vars, NEW e \in Tiles \X Requests, Abandoned(e)
  PROVE  Abandoned(e)'
<1> DEFINE q == e[2]
           ended == {"policy", "monitor", "modified"}
<1>0. q \in Requests
  OBVIOUS
<1>1. broken \subseteq broken'
  <2>1. ASSUME NEW r \in Requests, Step(r)
        PROVE  broken \subseteq broken'
    <3>1. CASE Fill(r)
      BY <3>1 DEF Fill, BaseRead, BaseFailed, Provide, SetTile, Modified, Listen, Notify, Notified,
                  Provided, fillVars
    <3>2. CASE Read(r)
      BY <3>2 DEF Read, GetEntry, EntryGone, CheckReceived, CheckMissing, AddCallback, WaitForTile,
                  StopWaiting, fillVars
    <3>3. ASSUME NEW x \in Tiles, MakeEntry(r, x)
          PROVE  broken' = broken
      <4>1. CASE AlreadyRequested(r, x) \/ Requested(r, x) \/ EldestRemoved(r, x)
                 \/ EldestAbandonFails(r, x) \/ HandledRemoved(r, x) \/ HandledMissing(r, x)
        BY <4>1 DEF AlreadyRequested, Requested, EldestRemoved, EldestAbandonFails,
                    HandledRemoved, HandledMissing, PutOk, PutFails, Put
      <4>2. CASE OldestRemoved(r, x) \/ OldestKept(r, x) \/ OldestMissing(r, x)
                 \/ RemoveAbandonFails(r, x)
        BY <4>2 DEF OldestRemoved, OldestKept, OldestMissing, RemoveAbandonFails,
                    PutOk, PutFails, Put
      <4> QED
        BY <3>3, <4>1, <4>2 DEF MakeEntry
    <3>4. CASE RequestTiles(r) \/ EntriesMade(r)
      BY <3>4 DEF RequestTiles, EntriesMade, fillVars
    <3> QED
      BY <2>1, <3>1, <3>2, <3>3, <3>4 DEF Step
  <2> QED
    BY <2>1 DEF Next, Tick, vars, fillVars
<1>2. ASSUME pc[q] \in ended
      PROVE  pc'[q] = pc[q]
  <2>1. ASSUME NEW r \in Requests, Step(r), r # q
        PROVE  pc'[q] = pc[q]
    <3> USE DEF Go, Throw, Answer, FilledInv, Shape, readVars
    <3>1. CASE Fill(r)
      <4>1. CASE BaseRead(r) \/ BaseFailed(r) \/ (\E x \in Tiles : Provide(r, x)) \/ SetTile(r)
        BY <4>1, <1>0, <2>1 DEF BaseRead, BaseFailed, Provide, SetTile
      <4>2. CASE Modified(r) \/ Listen(r) \/ Notify(r) \/ Notified(r) \/ Provided(r)
        BY <4>2, <1>0, <2>1 DEF Modified, Listen, Notify, Notified, Provided
      <4> QED
        BY <3>1, <4>1, <4>2 DEF Fill
    <3>2. CASE Read(r)
      BY <3>2, <1>0, <2>1 DEF Read, GetEntry, EntryGone, CheckReceived, CheckMissing, AddCallback,
                         WaitForTile, StopWaiting
    <3>3. ASSUME NEW x \in Tiles, MakeEntry(r, x)
          PROVE  pc'[q] = pc[q]
      BY <3>3, <1>0, <2>1 DEF MakeEntry, AlreadyRequested, Requested, EldestRemoved, EldestAbandonFails,
                         HandledRemoved, HandledMissing, OldestRemoved, OldestKept, OldestMissing,
                         RemoveAbandonFails, PutOk, PutFails, Put
    <3>4. CASE RequestTiles(r) \/ EntriesMade(r)
      BY <3>4, <1>0, <2>1 DEF RequestTiles, EntriesMade
    <3> QED
      BY <2>1, <3>1, <3>2, <3>3, <3>4 DEF Step
  <2>2. ~Step(q)
    <3>1. ~Fill(q)
      BY <1>2 DEF Fill, BaseRead, BaseFailed, Provide, SetTile, Modified, Listen, Notify, Notified,
                  Provided
    <3>2. ~Read(q)
      BY <1>2 DEF Read, GetEntry, EntryGone, MayRead, CheckReceived, CheckMissing, AddCallback,
                  WaitForTile, StopWaiting
    <3>3. ASSUME NEW x \in Tiles
          PROVE  ~MakeEntry(q, x)
      BY <1>2 DEF MakeEntry, AlreadyRequested, Requested, EldestRemoved, EldestAbandonFails,
                  HandledRemoved, HandledMissing, OldestRemoved, OldestKept, OldestMissing,
                  RemoveAbandonFails, PutOk, PutFails, Put
    <3>4. ~RequestTiles(q) /\ ~EntriesMade(q)
      BY <1>2 DEF RequestTiles, EntriesMade
    <3> QED
      BY <3>1, <3>2, <3>3, <3>4 DEF Step
  <2> QED
    BY <2>1, <2>2 DEF Next, Tick, vars
<1> QED
  BY <1>0, <1>1, <1>2 DEF Abandoned

-----------------------------------------------------------------------------
(* What a step must not do                                                 *)

\* A reader that does not step is as well off as before if the entry it found is
\* as it was, and nothing is written to its callback, unless its entry is abandoned.
LEMMA ReaderKept ==
  ASSUME ImageInv, [Next]_vars, job' = job, NEW c \in Requests, Reader(c),
         pc'[c] = pc[c], held'[c] = held[c],
         HasFound(c) => /\ entry'[held[c]].received = entry[held[c]].received
                        /\ entry'[held[c]].tile = entry[held[c]].tile,
         HasTile(c) => Abandoned(held[c]) \/ callback'[c] = callback[c]
  PROVE  Reader(c)'
<1>1. CASE Abandoned(held[c])
  BY <1>1, AbandonedForEver DEF Reader, ImageInv
<1>2. CASE HasFound(c)
  BY <1>2 DEF Reader, HasFound
<1>3. CASE HasTile(c) /\ ~Abandoned(held[c])
  BY <1>3 DEF Reader, HasTile
<1> QED
  BY <1>1, <1>2, <1>3 DEF Reader

\* A reader that left its callback may go on waiting and end.
LEMMA CallerKept ==
  ASSUME ImageInv, [Next]_vars, job' = job, NEW c \in Requests, Caller(c),
         pc'[c] = pc[c] \/ (pc[c] \in {"wait", "waiting"} /\ pc'[c] \in {"waiting", "done"}),
         held'[c] = held[c]
  PROVE  Caller(c)'
  BY AbandonedForEver DEF Caller, ImageInv

\* Callbacks that stay are of readers that stay.
LEMMA CallersKept ==
  ASSUME ImageInv, [Next]_vars, job' = job,
         \A c \in Requests :
           \/ ~Caller(c) \/ job[c].stream
           \/ pc'[c] = pc[c] /\ held'[c] = held[c]
           \/ /\ pc[c] \in {"wait", "waiting"} /\ pc'[c] \in {"waiting", "done"}
              /\ held'[c] = held[c],
         \A x \in Tiles, q \in Requests, c \in Requests :
           HasCallback(x, q, c)' => HasCallback(x, q, c) \/ Caller(c)'
  PROVE  Callers'
<1> SUFFICES ASSUME NEW x \in Tiles, NEW q \in Requests, NEW c \in Requests,
                    HasCallback(x, q, c)'
             PROVE  Caller(c)'
  BY DEF Callers
<1>1. ASSUME HasCallback(x, q, c)
      PROVE  Caller(c)'
  <2>1. Caller(c)
    BY <1>1 DEF ImageInv, Callers
  <2>2. job[c].stream => Caller(c)'
    BY DEF Caller
  <2> QED
    BY <2>1, <2>2, CallerKept
<1> QED
  BY <1>1

-----------------------------------------------------------------------------
(* Making the entries                                                      *)

\* What making an entry does to the entries: the new one is empty, others lose
\* no more than callbacks.
EntriesKept(r, x) ==
  \A y \in Tiles, q \in Requests :
    /\ HasFields(entry'[<<y, q>>])
    /\ entry'[<<y, q>>].callbacks \in Seq(Requests)
    /\ \A c \in Requests : HasCallback(y, q, c)' => HasCallback(y, q, c)
    /\ \/ /\ entry'[<<y, q>>].received = entry[<<y, q>>].received
          /\ entry'[<<y, q>>].tile = entry[<<y, q>>].tile
       \/ <<y, q>> = <<x, r>> /\ ~entry'[<<y, q>>].received

\* The entries with the new one among them.
LEMMA NewEntryEffect ==
  ASSUME NEW r \in Requests, NEW x \in Tiles, ImageInv
  PROVE  /\ DOMAIN NewEntry(r, x) = Tiles \X Requests
         /\ \A y \in Tiles, q \in Requests :
              /\ HasFields(NewEntry(r, x)[<<y, q>>])
              /\ NewEntry(r, x)[<<y, q>>].callbacks \in Seq(Requests)
              /\ \/ /\ NewEntry(r, x)[<<y, q>>].received = entry[<<y, q>>].received
                    /\ NewEntry(r, x)[<<y, q>>].tile = entry[<<y, q>>].tile
                    /\ NewEntry(r, x)[<<y, q>>].callbacks = entry[<<y, q>>].callbacks
                 \/ /\ <<y, q>> = <<x, r>> /\ ~NewEntry(r, x)[<<y, q>>].received
                    /\ NewEntry(r, x)[<<y, q>>].callbacks = <<>>
<1>1. DOMAIN NewEntry(r, x) = Tiles \X Requests
  BY DEF ImageInv, FilledInv, Shape, NewEntry
<1>2. NewEntry(r, x)[<<x, r>>] = [NoEntry EXCEPT !.time = clock]
  BY DEF ImageInv, FilledInv, Shape, NewEntry
<1>3. /\ HasFields(NewEntry(r, x)[<<x, r>>])
      /\ ~NewEntry(r, x)[<<x, r>>].received
      /\ NewEntry(r, x)[<<x, r>>].callbacks = <<>>
  BY <1>2 DEF NoEntry, HasFields
<1>4. ASSUME NEW y \in Tiles, NEW q \in Requests, <<y, q>> # <<x, r>>
      PROVE  NewEntry(r, x)[<<y, q>>] = entry[<<y, q>>]
  BY <1>4 DEF ImageInv, FilledInv, Shape, NewEntry
<1>5. <<>> \in Seq(Requests)
  BY EmptySeq
<1>6. \A y \in Tiles, q \in Requests :
        HasFields(entry[<<y, q>>]) /\ entry[<<y, q>>].callbacks \in Seq(Requests)
  BY DEF ImageInv, ImageShape
<1> QED
  BY <1>1, <1>3, <1>4, <1>5, <1>6

\* The new entry alone.
LEMMA NewEntryKept ==
  ASSUME NEW r \in Requests, NEW x \in Tiles, ImageInv, entry' = NewEntry(r, x)
  PROVE  EntriesKept(r, x)
<1> SUFFICES ASSUME NEW y \in Tiles, NEW q \in Requests
             PROVE  /\ HasFields(entry'[<<y, q>>])
                    /\ entry'[<<y, q>>].callbacks \in Seq(Requests)
                    /\ \A c \in Requests : HasCallback(y, q, c)' => HasCallback(y, q, c)
                    /\ \/ /\ entry'[<<y, q>>].received = entry[<<y, q>>].received
                          /\ entry'[<<y, q>>].tile = entry[<<y, q>>].tile
                       \/ <<y, q>> = <<x, r>> /\ ~entry'[<<y, q>>].received
  BY DEF EntriesKept
<1>1. /\ HasFields(entry'[<<y, q>>])
      /\ entry'[<<y, q>>].callbacks \in Seq(Requests)
      /\ \/ /\ entry'[<<y, q>>].received = entry[<<y, q>>].received
            /\ entry'[<<y, q>>].tile = entry[<<y, q>>].tile
         \/ <<y, q>> = <<x, r>> /\ ~entry'[<<y, q>>].received
      /\ \/ entry'[<<y, q>>].callbacks = entry[<<y, q>>].callbacks
         \/ entry'[<<y, q>>].callbacks = <<>>
  BY NewEntryEffect
<1>2. \A c \in Requests : HasCallback(y, q, c)' => HasCallback(y, q, c)
  BY <1>1 DEF HasCallback
<1> QED
  BY <1>1, <1>2

\* The new entry, and another that loses its callbacks or the first of them.
LEMMA NewEntryAndUpdateKept ==
  ASSUME NEW r \in Requests, NEW x \in Tiles, ImageInv, NEW e, NEW cs \in Seq(Requests),
         entry' = [NewEntry(r, x) EXCEPT ![e] = [NewEntry(r, x)[e] EXCEPT !["callbacks"] = cs]],
         \A y \in Tiles, q \in Requests : <<y, q>> = e =>
           \A i \in DOMAIN cs : HasCallback(y, q, cs[i])
  PROVE  EntriesKept(r, x)
<1> SUFFICES ASSUME NEW y \in Tiles, NEW q \in Requests
             PROVE  /\ HasFields(entry'[<<y, q>>])
                    /\ entry'[<<y, q>>].callbacks \in Seq(Requests)
                    /\ \A c \in Requests : HasCallback(y, q, c)' => HasCallback(y, q, c)
                    /\ \/ /\ entry'[<<y, q>>].received = entry[<<y, q>>].received
                          /\ entry'[<<y, q>>].tile = entry[<<y, q>>].tile
                       \/ <<y, q>> = <<x, r>> /\ ~entry'[<<y, q>>].received
  BY DEF EntriesKept
<1>1. /\ HasFields(entry'[<<y, q>>])
      /\ entry'[<<y, q>>].received = NewEntry(r, x)[<<y, q>>].received
      /\ entry'[<<y, q>>].tile = NewEntry(r, x)[<<y, q>>].tile
      /\ \/ entry'[<<y, q>>].callbacks = NewEntry(r, x)[<<y, q>>].callbacks
         \/ <<y, q>> = e /\ entry'[<<y, q>>].callbacks = cs
  <2> DEFINE f == NewEntry(r, x)
  <2>1. /\ DOMAIN f = Tiles \X Requests
        /\ HasFields(f[<<y, q>>])
    BY NewEntryEffect
  <2>2. entry' = [f EXCEPT ![e] = [f[e] EXCEPT !["callbacks"] = cs]]
    OBVIOUS
  <2>4. f = NewEntry(r, x)
    OBVIOUS
  <2> HIDE DEF f
  <2>3. /\ HasFields(entry'[<<y, q>>])
        /\ entry'[<<y, q>>].received = f[<<y, q>>].received
        /\ entry'[<<y, q>>].tile = f[<<y, q>>].tile
        /\ \/ entry'[<<y, q>>].callbacks = f[<<y, q>>].callbacks
           \/ <<y, q>> = e /\ entry'[<<y, q>>].callbacks = cs
    BY <2>1, <2>2 DEF HasFields
  <2> QED
    BY <2>3, <2>4
<1>2. /\ \/ entry'[<<y, q>>].callbacks = entry[<<y, q>>].callbacks
         \/ entry'[<<y, q>>].callbacks = <<>>
         \/ <<y, q>> = e /\ entry'[<<y, q>>].callbacks = cs
      /\ entry'[<<y, q>>].callbacks \in Seq(Requests)
      /\ \/ /\ entry'[<<y, q>>].received = entry[<<y, q>>].received
            /\ entry'[<<y, q>>].tile = entry[<<y, q>>].tile
         \/ <<y, q>> = <<x, r>> /\ ~entry'[<<y, q>>].received
  BY <1>1, NewEntryEffect
<1>3. \A c \in Requests : HasCallback(y, q, c)' => HasCallback(y, q, c)
  BY <1>2 DEF HasCallback
<1> QED
  BY <1>1, <1>2, <1>3

\* Making an entry, however it ends.
LEMMA MakerEffect ==
  ASSUME NEW r \in Requests, NEW x \in Tiles, ImageInv, MakeEntry(r, x)
  PROVE  /\ EntriesKept(r, x)
         /\ UNCHANGED <<job, at, held, callback>>
         /\ pc[r] = "request"
         /\ \A q \in Requests : q # r => pc'[q] = pc[q]
         /\ (pc'[r] = "request" /\ owner' = owner) \/ pc'[r] \in {"policy", "monitor"}
         /\ owner' \in {owner, None}
<1> USE DEF Put, PutOk, PutFails, Throw, Leave, Go, readVars
<1>0. pc \in [Requests -> Places] /\ DOMAIN entry = Tiles \X Requests
  BY DEF ImageInv, FilledInv, Shape
<1>1. CASE AlreadyRequested(r, x)
  <2>1. EntriesKept(r, x)
    BY <1>1 DEF AlreadyRequested, EntriesKept, HasCallback, ImageInv, ImageShape
  <2> QED
    BY <1>1, <2>1 DEF AlreadyRequested
<1>2. CASE \/ Requested(r, x) \/ OldestKept(r, x)
  BY <1>0, <1>2, NewEntryKept DEF Requested, OldestKept
<1>3. CASE \/ HandledMissing(r, x) \/ OldestMissing(r, x) \/ RemoveAbandonFails(r, x)
  BY <1>0, <1>3, NewEntryKept DEF HandledMissing, OldestMissing, RemoveAbandonFails
<1>4. CASE EldestRemoved(r, x) \/ HandledRemoved(r, x) \/ OldestRemoved(r, x)
  <2>1. PICK e : entry' = [NewEntry(r, x) EXCEPT ![e] =
                             [NewEntry(r, x)[e] EXCEPT !["callbacks"] = <<>>]]
    BY <1>4 DEF EldestRemoved, HandledRemoved, OldestRemoved
  <2>2. <<>> \in Seq(Requests) /\ DOMAIN <<>> = {}
    BY EmptySeq
  <2>3. EntriesKept(r, x)
    BY <2>1, <2>2, NewEntryAndUpdateKept
  <2> QED
    BY <1>0, <1>4, <2>3 DEF EldestRemoved, HandledRemoved, OldestRemoved
<1>5. CASE EldestAbandonFails(r, x)
  <2> DEFINE e == <<Eldest, current[Eldest]>>
             cs == entry[e].callbacks
  <2>1. PICK n \in DOMAIN cs :
          entry' = [NewEntry(r, x) EXCEPT ![e] =
                      [NewEntry(r, x)[e] EXCEPT !["callbacks"] = SubSeq(cs, n, Len(cs))]]
    BY <1>5 DEF EldestAbandonFails, EntryOf
  <2> HIDE DEF e
  <2>4. EntriesKept(r, x)
    <3>2. CASE e \in Tiles \X Requests
      <4>1. PICK y \in Tiles, q \in Requests : e = <<y, q>>
        BY <3>2
      <4>2. cs \in Seq(Requests) /\ n \in 1..Len(cs)
        BY <4>1, LenProperties DEF ImageInv, ImageShape
      <4>3. /\ SubSeq(cs, n, Len(cs)) \in Seq(Requests)
            /\ \A i \in DOMAIN SubSeq(cs, n, Len(cs)) :
                 /\ n + i - 1 \in DOMAIN cs
                 /\ SubSeq(cs, n, Len(cs))[i] = cs[n + i - 1]
        <5>1. Len(cs) \in Nat /\ \A i \in n..Len(cs) : cs[i] \in Requests
          BY <4>2, LenProperties, ElementOfSeq
        <5>2. /\ SubSeq(cs, n, Len(cs)) \in Seq(Requests)
              /\ Len(SubSeq(cs, n, Len(cs))) = Len(cs) - n + 1
              /\ \A i \in 1..(Len(cs) - n + 1) : SubSeq(cs, n, Len(cs))[i] = cs[n + i - 1]
          <6> DEFINE m == Len(cs)
          <6>1. n \in Int /\ m \in Int /\ n <= m /\ \A i \in n..m : cs[i] \in Requests
            BY <4>2, <5>1
          <6> HIDE DEF cs, m
          <6>2. /\ SubSeq(cs, n, m) \in Seq(Requests)
                /\ Len(SubSeq(cs, n, m)) = m - n + 1
                /\ \A i \in 1..(m - n + 1) : SubSeq(cs, n, m)[i] = cs[n + i - 1]
            BY <6>1, SubSeqProperties
          <6> QED
            BY <6>2 DEF m
        <5>3. DOMAIN cs = 1..Len(cs)
          BY <4>2, LenProperties
        <5>4. DOMAIN SubSeq(cs, n, Len(cs)) = 1..(Len(cs) - n + 1)
          BY <4>2, <5>1, <5>2, LenProperties
        <5>5. \A i \in 1..(Len(cs) - n + 1) : n + i - 1 \in 1..Len(cs) /\ n + i - 1 = i + n - 1
          BY <4>2, <5>1
        <5> QED
          BY <5>2, <5>3, <5>4, <5>5
      <4>4. \A i \in DOMAIN SubSeq(cs, n, Len(cs)) :
              HasCallback(y, q, SubSeq(cs, n, Len(cs))[i])
        BY <4>1, <4>3 DEF HasCallback
      <4>5. \A z \in Tiles, p \in Requests : <<z, p>> = e => z = y /\ p = q
        BY <4>1
      <4> DEFINE s == SubSeq(cs, n, Len(cs))
      <4>6. /\ entry' = [NewEntry(r, x) EXCEPT ![e] = [NewEntry(r, x)[e] EXCEPT !["callbacks"] = s]]
            /\ s \in Seq(Requests)
        BY <2>1, <4>3
      <4>7. \A z \in Tiles, p \in Requests : <<z, p>> = e =>
              \A i \in DOMAIN s : HasCallback(z, p, s[i])
        BY <4>4, <4>5
      <4> HIDE DEF s
      <4> QED
        BY <4>6, <4>7, NewEntryAndUpdateKept
    <3>3. CASE e \notin Tiles \X Requests
      <4>1. DOMAIN NewEntry(r, x) = Tiles \X Requests
        BY NewEntryEffect
      <4>2. entry' = [NewEntry(r, x) EXCEPT ![e] = [NewEntry(r, x)[e] EXCEPT !["callbacks"] = <<>>]]
        BY <2>1, <3>3, <4>1 DEF NewEntry
      <4>3. <<>> \in Seq(Requests) /\ DOMAIN <<>> = {}
        BY EmptySeq
      <4> QED
        BY <4>2, <4>3, NewEntryAndUpdateKept
    <3> QED
      BY <3>2, <3>3
  <2> QED
    BY <1>0, <1>5, <2>4 DEF EldestAbandonFails
<1> QED
  BY <1>1, <1>2, <1>3, <1>4, <1>5 DEF MakeEntry

\* Only the owner of the monitor makes entries: nobody else is filling or looking.
LEMMA MakerImage ==
  ASSUME NEW r \in Requests, NEW x \in Tiles, ImageInv, MakeEntry(r, x), FilledInv', [Next]_vars
  PROVE  ImageInv'
<1>0. /\ EntriesKept(r, x)
      /\ UNCHANGED <<job, at, held, callback>>
      /\ pc[r] = "request"
      /\ \A q \in Requests : q # r => pc'[q] = pc[q]
      /\ (pc'[r] = "request" /\ owner' = owner) \/ pc'[r] \in {"policy", "monitor"}
      /\ owner' \in {owner, None}
  BY MakerEffect
<1>1. \A q \in Requests : pc[q] \in FillingPlaces => q = r
  BY <1>0 DEF ImageInv, OwnerInside, FillingPlaces
<1>2. \A q \in Requests : ~job[q].stream => pc[q] \notin ReadingPlaces
  BY <1>0 DEF ImageInv, OwnerInside, FillingPlaces, ReadingPlaces
<1>3. ImageShape'
  BY <1>0 DEF ImageInv, ImageShape, EntriesKept
<1>4. OwnerInside'
  BY <1>0, <1>1, <1>2 DEF ImageInv, OwnerInside, FillingPlaces, ReadingPlaces
<1>5. AtEntry'
  BY <1>0, <1>1 DEF AtEntry, FillingPlaces, ProvidingPlaces
<1>6. ReceivedIsData'
  <2>1. \A y, q : ~BeingSet(y, q)
    BY <1>0, <1>1 DEF BeingSet, FillingPlaces
  <2> QED
    BY <1>0, <2>1 DEF ImageInv, ReceivedIsData, EntriesKept
<1>7. Callers'
  <2>1. \A c \in Requests : Caller(c) => pc'[c] = pc[c] \/ job[c].stream
    BY <1>0 DEF Caller
  <2>2. \A y \in Tiles, q \in Requests, c \in Requests :
          HasCallback(y, q, c)' => HasCallback(y, q, c)
    BY <1>0 DEF EntriesKept
  <2> QED
    BY <1>0, <2>1, <2>2, CallersKept
<1>8. Readers'
  <2> SUFFICES ASSUME NEW c \in Requests, ~job[c].stream, pc'[c] \in ReadingPlaces \cup {"done"}
               PROVE  Reader(c)'
    BY <1>0 DEF Readers
  <2>1. c # r
    BY <1>0 DEF ReadingPlaces
  <2>2. pc'[c] = pc[c] /\ Reader(c)
    BY <1>0, <2>1 DEF ImageInv, Readers
  <2>3. ~HasFound(c)
    BY <1>2 DEF HasFound, ReadingPlaces
  <2> QED
    BY <1>0, <2>2, <2>3, ReaderKept
<1> QED
  BY <1>3, <1>4, <1>5, <1>6, <1>7, <1>8 DEF ImageInv

-----------------------------------------------------------------------------
(* Providing the tiles                                                     *)

\* A step of the request that fills, inside the monitor, keeps the invariant if it
\* sets what it hands out and writes to callbacks of this entry only.
LEMMA FillerImage ==
  ASSUME NEW r \in Requests, ImageInv, FilledInv', [Next]_vars,
         pc[r] \in FillingPlaces,
         UNCHANGED <<job, held, current>>,
         \A q \in Requests : q # r => pc'[q] = pc[q],
         (pc'[r] \in FillingPlaces /\ owner' = owner) \/ pc'[r] \in {"read", "modified"},
         ImageShape', ReceivedIsData',
         pc'[r] \in ProvidingPlaces =>
           /\ at'[r] \in Tiles /\ current[at'[r]] \in Requests
           /\ pc'[r] # "setTile" => entry'[<<at'[r], current[at'[r]]>>].tile = Data(at'[r]),
         \A x \in Tiles, q \in Requests, c \in Requests :
           HasCallback(x, q, c)' => HasCallback(x, q, c),
         \A c \in Requests :
           callback'[c] = callback[c] \/ \E x \in Tiles, q \in Requests : HasCallback(x, q, c)
  PROVE  ImageInv'
<1>1. \A q \in Requests : pc[q] \in FillingPlaces => q = r
  BY DEF ImageInv, OwnerInside
<1>2. \A q \in Requests : ~job[q].stream => pc[q] \notin ReadingPlaces
  BY DEF ImageInv, OwnerInside, FillingPlaces, ReadingPlaces
<1>3. OwnerInside'
  BY <1>1, <1>2 DEF ImageInv, OwnerInside, FillingPlaces, ReadingPlaces
<1>4. AtEntry'
  BY <1>1 DEF AtEntry, Filling, FillingPlaces, ProvidingPlaces
<1>5. Callers'
  <2>1. \A c \in Requests : Caller(c) => pc'[c] = pc[c] \/ job[c].stream
    BY DEF Caller, FillingPlaces
  <2> QED
    BY <2>1, CallersKept
<1>6. Readers'
  <2> SUFFICES ASSUME NEW c \in Requests, ~job[c].stream, pc'[c] \in ReadingPlaces \cup {"done"}
               PROVE  Reader(c)'
    BY DEF Readers
  <2>1. c # r
    BY DEF ReadingPlaces, FillingPlaces
  <2>2. pc'[c] = pc[c] /\ Reader(c)
    BY <2>1 DEF ImageInv, Readers
  <2>3. ~HasFound(c)
    BY <1>2 DEF HasFound, ReadingPlaces
  <2>4. callback'[c] = callback[c] \/ Abandoned(held[c])
    BY DEF ImageInv, Callers, Caller
  <2> QED
    BY <2>2, <2>3, <2>4, ReaderKept
<1> QED
  BY <1>3, <1>4, <1>5, <1>6 DEF ImageInv

\* Steps that leave the entries as they are.
LEMMA QuietFillerImage ==
  ASSUME NEW r \in Requests, ImageInv, FilledInv', [Next]_vars,
         pc[r] \in FillingPlaces \ {"setTile"}, pc'[r] # "setTile",
         UNCHANGED <<job, held, current, entry, callback>>,
         \A q \in Requests : q # r => pc'[q] = pc[q],
         (pc'[r] \in FillingPlaces /\ owner' = owner) \/ pc'[r] \in {"read", "modified"},
         at' = at \/ at' = [at EXCEPT ![r] = None],
         pc'[r] \in ProvidingPlaces => pc[r] \in ProvidingPlaces /\ at' = at
  PROVE  ImageInv'
<1>1. ImageShape'
  BY DEF ImageInv, ImageShape
<1>2. ReceivedIsData'
  <2>1. \A x, q : ~BeingSet(x, q)
    BY DEF ImageInv, OwnerInside, BeingSet, FillingPlaces
  <2> QED
    BY <2>1 DEF ImageInv, ReceivedIsData
<1>3. \A x \in Tiles, q \in Requests, c \in Requests : HasCallback(x, q, c)' => HasCallback(x, q, c)
  BY DEF HasCallback
<1>4. pc'[r] \in ProvidingPlaces =>
        /\ at'[r] \in Tiles /\ current[at'[r]] \in Requests
        /\ pc'[r] # "setTile" => entry'[<<at'[r], current[at'[r]]>>].tile = Data(at'[r])
  BY DEF ImageInv, AtEntry, Filling
<1> QED
  BY <1>1, <1>2, <1>3, <1>4, FillerImage

\* What is said of the entry being provided.
LEMMA FillingEntry ==
  ASSUME NEW r \in Requests, ImageInv, pc[r] \in ProvidingPlaces
  PROVE  /\ at[r] \in Tiles /\ current[at[r]] \in Requests
         /\ Filling(r) = <<at[r], current[at[r]]>>
         /\ HasFields(entry[Filling(r)]) /\ entry[Filling(r)].callbacks \in Seq(Requests)
         /\ \A p \in Requests : pc[p] \in FillingPlaces => p = r
  BY DEF ImageInv, ImageShape, AtEntry, Filling, OwnerInside, FillingPlaces, ProvidingPlaces

\* An update of two fields of a reader's callback.
LEMMA TwoFieldsOfCallback ==
  ASSUME NEW f, NEW w, NEW v, NEW g, DOMAIN f = Requests,
         g = [f EXCEPT ![w].tile = v, ![w].notified = TRUE],
         \A r \in Requests : {"tile", "notified"} \subseteq DOMAIN f[r]
  PROVE  /\ DOMAIN g = Requests
         /\ \A r \in Requests : {"tile", "notified"} \subseteq DOMAIN g[r]
         /\ \A r \in Requests : r # w => g[r] = f[r]
         /\ w \in Requests => g[w].tile = v /\ g[w].notified
  OBVIOUS

\* Each step of reading the base pyramid and providing the tiles.
LEMMA FillImage ==
  ASSUME NEW r \in Requests, ImageInv, Fill(r), FilledInv', [Next]_vars
  PROVE  ImageInv'
<1>0. /\ pc \in [Requests -> Places] /\ DOMAIN entry = Tiles \X Requests
      /\ current \in [Tiles -> Requests \cup {None}]
      /\ \A x \in Tiles, q \in Requests : HasFields(entry[<<x, q>>])
      /\ \A x \in Tiles, q \in Requests : entry[<<x, q>>].callbacks \in Seq(Requests)
      /\ at \in [Requests -> Tiles \cup {None}]
  BY DEF ImageInv, ImageShape, FilledInv, Shape
<1>1. CASE BaseRead(r) \/ BaseFailed(r) \/ Provided(r)
  BY <1>0, <1>1, QuietFillerImage
  DEF BaseRead, BaseFailed, Provided, Go, mapVars, fillVars, readVars, FillingPlaces, ProvidingPlaces
<1>2. CASE Modified(r) \/ Listen(r) \/ Notified(r)
  BY <1>0, <1>2, QuietFillerImage
  DEF Modified, Listen, Notified, Throw, NothingAt, Go, mapVars, fillVars, readVars,
      FillingPlaces, ProvidingPlaces
<1>3. ASSUME NEW x \in Tiles, Provide(r, x)
      PROVE  ImageInv'
  <2>1. CASE current[x] = None
    BY <1>0, <1>3, <2>1, QuietFillerImage
    DEF Provide, mapVars, readVars, FillingPlaces, ProvidingPlaces
  <2>2. CASE current[x] # None
    <3> DEFINE e == <<x, current[x]>>
    <3>1. /\ pc[r] = "provide" /\ pc' = [pc EXCEPT ![r] = "setTile"]
          /\ at' = [at EXCEPT ![r] = x]
          /\ UNCHANGED <<job, held, current, owner, callback>>
          /\ entry' = [entry EXCEPT ![e] = [entry[e] EXCEPT !["received"] = TRUE]]
      BY <1>3, <2>2 DEF Provide, Go, readVars
    <3>2. e \in Tiles \X Requests /\ current[x] \in Requests
      BY <1>0, <2>2
    <3>3. \A y \in Tiles, q \in Requests :
            /\ HasFields(entry'[<<y, q>>])
            /\ entry'[<<y, q>>].tile = entry[<<y, q>>].tile
            /\ entry'[<<y, q>>].callbacks = entry[<<y, q>>].callbacks
            /\ <<y, q>> # e => entry'[<<y, q>>].received = entry[<<y, q>>].received
      BY <1>0, <3>1 DEF HasFields
    <3>4. ImageShape'
      BY <1>0, <3>1, <3>3 DEF ImageInv, ImageShape
    <3>5. \A y, q : ~BeingSet(y, q)
      BY <3>1 DEF ImageInv, OwnerInside, BeingSet, FillingPlaces
    <3>6. BeingSet(x, current[x])'
      BY <1>0, <3>1 DEF BeingSet
    <3>7. ReceivedIsData'
      <4> SUFFICES ASSUME NEW y \in Tiles, NEW q \in Requests
                   PROVE  /\ entry'[<<y, q>>].received =>
                               entry'[<<y, q>>].tile = Data(y) \/ BeingSet(y, q)'
        BY DEF ReceivedIsData
      <4>1. CASE <<y, q>> = e
        BY <3>1, <3>6, <4>1 DEF BeingSet
      <4>2. CASE <<y, q>> # e
        BY <3>3, <3>5, <4>2 DEF ImageInv, ReceivedIsData
      <4> QED
        BY <4>1, <4>2
    <3>8. \A y \in Tiles, q \in Requests, c \in Requests :
            HasCallback(y, q, c)' => HasCallback(y, q, c)
      BY <3>3 DEF HasCallback
    <3>9. /\ pc'[r] = "setTile" /\ at'[r] = x
          /\ \A q \in Requests : q # r => pc'[q] = pc[q]
      BY <1>0, <3>1
    <3> QED
      BY <3>1, <3>2, <3>4, <3>7, <3>8, <3>9, FillerImage DEF FillingPlaces, ProvidingPlaces
  <2> QED
    BY <2>1, <2>2
<1>4. CASE SetTile(r)
  <2>1. /\ pc[r] = "setTile" /\ pc' = [pc EXCEPT ![r] = "listen"]
        /\ UNCHANGED <<job, held, current, owner, callback, at>>
        /\ entry' = [entry EXCEPT ![Filling(r)] = [entry[Filling(r)] EXCEPT !["tile"] = Data(at[r])]]
    BY <1>4 DEF SetTile, Go, mapVars, readVars
  <2>2. /\ at[r] \in Tiles /\ current[at[r]] \in Requests
        /\ Filling(r) = <<at[r], current[at[r]]>>
        /\ \A p \in Requests : pc[p] \in FillingPlaces => p = r
    BY <2>1, FillingEntry DEF ProvidingPlaces
  <2>3. \A y \in Tiles, q \in Requests :
          /\ HasFields(entry'[<<y, q>>])
          /\ entry'[<<y, q>>].received = entry[<<y, q>>].received
          /\ entry'[<<y, q>>].callbacks = entry[<<y, q>>].callbacks
          /\ entry'[<<y, q>>].tile = IF <<y, q>> = Filling(r) THEN Data(at[r])
                                     ELSE entry[<<y, q>>].tile
    BY <1>0, <2>1 DEF HasFields
  <2>4. ImageShape'
    BY <1>0, <2>1, <2>3 DEF ImageInv, ImageShape
  <2>5. ReceivedIsData'
    <3>1. \A y, q : BeingSet(y, q) => <<y, q>> = Filling(r)
      BY <2>2 DEF BeingSet, FillingPlaces
    <3>2. \A y, q : <<y, q>> = Filling(r) => y = at[r]
      BY <2>2
    <3> QED
      BY <2>3, <3>1, <3>2 DEF ImageInv, ReceivedIsData
  <2>6. \A y \in Tiles, q \in Requests, c \in Requests :
          HasCallback(y, q, c)' => HasCallback(y, q, c)
    BY <2>3 DEF HasCallback
  <2>7. /\ pc'[r] = "listen" /\ at'[r] = at[r]
        /\ \A q \in Requests : q # r => pc'[q] = pc[q]
    BY <1>0, <2>1
  <2>8. entry'[<<at[r], current[at[r]]>>].tile = Data(at[r])
    BY <2>2, <2>3
  <2> QED
    BY <2>1, <2>2, <2>4, <2>5, <2>6, <2>7, <2>8, FillerImage DEF FillingPlaces, ProvidingPlaces
<1>5. CASE Notify(r)
  <2>0. PICK w, cs, waiter, v : /\ w = Filling(r) /\ cs = entry[w].callbacks
                                /\ waiter = Head(cs) /\ v = entry[w].tile
    OBVIOUS
  <2>1. /\ pc[r] = "notify" /\ cs # <<>>
        /\ pc' = pc /\ job' = job /\ held' = held /\ current' = current /\ owner' = owner
        /\ at' = at
    BY <1>5, <2>0 DEF Notify, mapVars, fillVars
  <2>2. callback' = [callback EXCEPT ![waiter].tile = v, ![waiter].notified = TRUE]
    BY <1>5, <2>0 DEF Notify
  <2>3. entry' = [entry EXCEPT ![w].callbacks = Tail(cs), ![w].retrieved = TRUE]
    BY <1>5, <2>0 DEF Notify
  <2>4. /\ at[r] \in Tiles /\ current[at[r]] \in Requests
        /\ w = <<at[r], current[at[r]]>>
        /\ cs \in Seq(Requests)
    BY <2>0, <2>1, FillingEntry DEF ProvidingPlaces
  <2>5. ASSUME NEW y \in Tiles, NEW q \in Requests
        PROVE  /\ HasFields(entry'[<<y, q>>])
               /\ entry'[<<y, q>>].received = entry[<<y, q>>].received
               /\ entry'[<<y, q>>].tile = entry[<<y, q>>].tile
               /\ \/ entry'[<<y, q>>].callbacks = entry[<<y, q>>].callbacks
                  \/ /\ entry'[<<y, q>>].callbacks = Tail(cs)
                     /\ entry[<<y, q>>].callbacks = cs
    <3>1. HasFields(entry[<<y, q>>]) /\ <<y, q>> \in Tiles \X Requests
      BY <1>0
    <3>2. DOMAIN entry = Tiles \X Requests
      BY <1>0
    <3>3. /\ HasFields(entry'[<<y, q>>])
          /\ entry'[<<y, q>>].received = entry[<<y, q>>].received
          /\ entry'[<<y, q>>].tile = entry[<<y, q>>].tile
          /\ entry'[<<y, q>>].callbacks = IF <<y, q>> = w THEN Tail(cs)
                                          ELSE entry[<<y, q>>].callbacks
      BY <2>3, <3>1, <3>2 DEF HasFields
    <3>4. <<y, q>> = w => entry[<<y, q>>].callbacks = cs
      BY <2>0
    <3> QED
      BY <3>3, <3>4
  <2>6. /\ Tail(cs) \in Seq(Requests)
        /\ waiter \in Requests /\ 1 \in DOMAIN cs /\ waiter = cs[1]
        /\ \A i \in DOMAIN Tail(cs) : i + 1 \in DOMAIN cs /\ Tail(cs)[i] = cs[i + 1]
    <3>1. /\ Head(cs) \in Requests /\ Tail(cs) \in Seq(Requests)
          /\ Len(Tail(cs)) = Len(cs) - 1
          /\ \A i \in 1..Len(Tail(cs)) : Tail(cs)[i] = cs[i + 1]
      BY <2>1, <2>4, HeadTailProperties
    <3>2. /\ Len(cs) \in Nat /\ DOMAIN cs = 1..Len(cs)
          /\ DOMAIN Tail(cs) = 1..Len(Tail(cs)) /\ Len(Tail(cs)) \in Nat
      BY <2>4, <3>1, LenProperties
    <3>3. Head(cs) = cs[1]
      BY <2>4, <2>1
    <3> QED
      BY <2>0, <3>1, <3>2, <3>3
  <2>7. HasCallback(at[r], current[at[r]], waiter)
    BY <2>0, <2>4, <2>6 DEF HasCallback
  <2>8. /\ DOMAIN callback' = Requests
        /\ \A c \in Requests : {"tile", "notified"} \subseteq DOMAIN callback'[c]
        /\ \A c \in Requests : c # waiter => callback'[c] = callback[c]
    <3>1. /\ DOMAIN callback = Requests
          /\ \A c \in Requests : {"tile", "notified"} \subseteq DOMAIN callback[c]
      BY DEF ImageInv, ImageShape
    <3> QED
      BY <3>1, <2>2, TwoFieldsOfCallback
  <2>9. ImageShape'
    BY <1>0, <2>1, <2>5, <2>6, <2>8 DEF ImageInv, ImageShape
  <2>10. ReceivedIsData'
    <3>1. \A y, q : BeingSet(y, q)' <=> BeingSet(y, q)
      BY <2>1 DEF BeingSet
    <3> QED
      BY <2>5, <3>1 DEF ImageInv, ReceivedIsData
  <2>11. \A y \in Tiles, q \in Requests, c \in Requests :
          HasCallback(y, q, c)' => HasCallback(y, q, c)
    <3> SUFFICES ASSUME NEW y \in Tiles, NEW q \in Requests, NEW c \in Requests
                 PROVE  HasCallback(y, q, c)' => HasCallback(y, q, c)
      OBVIOUS
    <3>1. CASE entry'[<<y, q>>].callbacks = entry[<<y, q>>].callbacks
      BY <3>1 DEF HasCallback
    <3>2. CASE entry'[<<y, q>>].callbacks = Tail(cs) /\ entry[<<y, q>>].callbacks = cs
      BY <3>2, <2>6 DEF HasCallback
    <3> QED
      BY <3>1, <3>2, <2>5
  <2>12. entry'[<<at[r], current[at[r]]>>].tile = Data(at[r])
    <3>1. entry[w].tile = Data(at[r])
      BY <2>0, <2>1 DEF ImageInv, AtEntry, ProvidingPlaces
    <3> QED
      BY <2>4, <2>5, <3>1
  <2>13. \A c \in Requests :
           callback'[c] = callback[c] \/ \E x \in Tiles, q \in Requests : HasCallback(x, q, c)
    BY <2>4, <2>7, <2>8
  <2> QED
    BY <2>1, <2>4, <2>9, <2>10, <2>11, <2>12, <2>13, FillerImage
    DEF FillingPlaces, ProvidingPlaces
<1> QED
  BY <1>1, <1>2, <1>3, <1>4, <1>5 DEF Fill

-----------------------------------------------------------------------------
(* Reading                                                                 *)

\* A step of a reader keeps the invariant if its own part of it does.
LEMMA ReaderImage ==
  ASSUME NEW r \in Requests, ImageInv, FilledInv', [Next]_vars,
         job' = job, current' = current, at' = at,
         pc[r] \notin FillingPlaces, pc'[r] \notin FillingPlaces,
         \A q \in Requests : q # r =>
           pc'[q] = pc[q] /\ held'[q] = held[q] /\ callback'[q] = callback[q],
         \A x \in Tiles, q \in Requests :
           /\ entry'[<<x, q>>].received = entry[<<x, q>>].received
           /\ entry'[<<x, q>>].tile = entry[<<x, q>>].tile,
         ImageShape', OwnerInside',
         Caller(r) => \/ job[r].stream
                      \/ /\ held'[r] = held[r]
                         /\ pc[r] \in {"wait", "waiting"} /\ pc'[r] \in {"waiting", "done"},
         \A x \in Tiles, q \in Requests, c \in Requests :
           HasCallback(x, q, c)' => HasCallback(x, q, c) \/ (c = r /\ Caller(r)'),
         ~job[r].stream /\ pc'[r] \in ReadingPlaces \cup {"done"} => Reader(r)'
  PROVE  ImageInv'
<1>1. AtEntry'
  <2>1. \A q \in Requests : pc'[q] \in ProvidingPlaces => q # r
    BY DEF ProvidingPlaces, FillingPlaces
  <2>2. \A q \in Requests : q # r /\ pc[q] \in ProvidingPlaces =>
          /\ at[q] \in Tiles /\ current[at[q]] \in Requests
          /\ pc[q] # "setTile" => entry[<<at[q], current[at[q]]>>].tile = Data(at[q])
    BY DEF ImageInv, AtEntry, Filling
  <2> QED
    BY <2>1, <2>2 DEF AtEntry, Filling
<1>2. ReceivedIsData'
  <2>1. \A x, q : BeingSet(x, q) => BeingSet(x, q)'
    BY DEF BeingSet, FillingPlaces
  <2> QED
    BY <2>1 DEF ImageInv, ReceivedIsData
<1>3. Callers'
  <2>1. \A c \in Requests :
          \/ ~Caller(c) \/ job[c].stream
          \/ pc'[c] = pc[c] /\ held'[c] = held[c]
          \/ /\ pc[c] \in {"wait", "waiting"} /\ pc'[c] \in {"waiting", "done"}
             /\ held'[c] = held[c]
    OBVIOUS
  <2>2. \A x \in Tiles, q \in Requests, c \in Requests :
          HasCallback(x, q, c)' => HasCallback(x, q, c) \/ Caller(c)'
    OBVIOUS
  <2> QED
    BY <2>1, <2>2, CallersKept
<1>4. Readers'
  <2> SUFFICES ASSUME NEW c \in Requests, c # r,
                      ~job[c].stream, pc'[c] \in ReadingPlaces \cup {"done"}
               PROVE  Reader(c)'
    BY DEF Readers
  <2>1. pc'[c] = pc[c] /\ Reader(c)
    BY DEF ImageInv, Readers
  <2>2. held'[c] = held[c] /\ callback'[c] = callback[c] /\ held[c] \in Tiles \X Requests
    BY <2>1 DEF Reader
  <2>3. /\ entry'[held[c]].received = entry[held[c]].received
        /\ entry'[held[c]].tile = entry[held[c]].tile
    BY <2>2
  <2> QED
    BY <2>1, <2>2, <2>3, ReaderKept
<1> QED
  BY <1>1, <1>2, <1>3, <1>4 DEF ImageInv

\* Each step of a reader.
LEMMA ReadImage ==
  ASSUME NEW r \in Requests, ImageInv, Read(r), FilledInv', [Next]_vars
  PROVE  ImageInv'
<1>0. /\ pc \in [Requests -> Places] /\ DOMAIN entry = Tiles \X Requests
      /\ current \in [Tiles -> Requests \cup {None}]
      /\ \A x \in Tiles, q \in Requests : HasFields(entry[<<x, q>>])
      /\ \A x \in Tiles, q \in Requests : entry[<<x, q>>].callbacks \in Seq(Requests)
      /\ at \in [Requests -> Tiles \cup {None}]
      /\ DOMAIN held = Requests /\ DOMAIN callback = Requests
      /\ \A q \in Requests : {"tile", "notified"} \subseteq DOMAIN callback[q]
  BY DEF ImageInv, ImageShape, FilledInv, Shape
<1>r. ASSUME ~job[r].stream, pc[r] \in ReadingPlaces \cup {"done"}
      PROVE  Reader(r)
  BY <1>r DEF ImageInv, Readers
<1>q. entry' = entry => \A x \in Tiles, q \in Requests, c \in Requests :
        HasCallback(x, q, c)' => HasCallback(x, q, c)
  BY DEF HasCallback
<1>1. CASE GetEntry(r)
  <2> DEFINE x == job[r].index
  <2>1. /\ pc[r] = "read" /\ pc' = [pc EXCEPT ![r] = "check"]
        /\ job[r].stream \/ owner = None
        /\ current[x] # None /\ held' = [held EXCEPT ![r] = <<x, current[x]>>]
        /\ owner' = IF job[r].stream THEN owner ELSE r
        /\ entry' = entry /\ callback' = callback /\ current' = current /\ job' = job /\ at' = at
    BY <1>1 DEF GetEntry, MayRead, Go, fillVars
  <2>2. x \in Tiles
    BY TileAssumption DEF ImageInv, FilledInv, Shape, Job
  <2>3. current[x] \in Requests
    BY <1>0, <2>1, <2>2
  <2>4. OwnerInside'
    BY <1>0, <2>1, TileAssumption DEF ImageInv, OwnerInside, FillingPlaces, ReadingPlaces
  <2>5. ImageShape'
    BY <1>0, <2>1 DEF ImageInv, ImageShape
  <2>6. ASSUME ~job[r].stream
        PROVE  Reader(r)'
    <3>1. \A p \in Requests : pc[p] \notin FillingPlaces
      BY <2>1, <2>6, TileAssumption DEF ImageInv, OwnerInside
    <3>2. held'[r] = <<x, current[x]>> /\ held'[r] \in Tiles \X Requests /\ pc'[r] = "check"
      BY <1>0, <2>1, <2>2, <2>3
    <3>3. CASE ~entry[<<x, current[x]>>].received
      <4>1. Cared(x, current[x])
        BY <2>2, <2>3, <3>3, FilledMeaning DEF ImageInv, FilledInv
      <4>2. Abandoned(<<x, current[x]>>)
        BY <2>3, <3>1, <4>1 DEF Cared, FillingPlaces
      <4>3. Abandoned(<<x, current[x]>>)'
        <5>1. ASSUME NEW e \in Tiles \X Requests, Abandoned(e)
              PROVE  Abandoned(e)'
          BY <5>1, AbandonedForEver DEF ImageInv
        <5>2. \A e \in Tiles \X Requests : Abandoned(e) => Abandoned(e)'
          BY <5>1
        <5> QED
          BY <2>1, <2>2, <2>3, <4>2, <5>2 DEF Abandoned
      <4> QED
        BY <2>1, <3>2, <4>3 DEF Reader, Abandoned
    <3>4. CASE entry[<<x, current[x]>>].received
      <4>1. ~BeingSet(x, current[x])
        BY <3>1 DEF BeingSet, FillingPlaces
      <4>2. entry[<<x, current[x]>>].tile = Data(x)
        BY <2>2, <2>3, <3>4, <4>1 DEF ImageInv, ReceivedIsData
      <4> QED
        BY <2>1, <3>2, <3>4, <4>2 DEF Reader, HasFound
    <3> QED
      BY <3>3, <3>4
  <2> QED
    BY <1>0, <1>q, <2>1, <2>4, <2>5, <2>6, ReaderImage DEF FillingPlaces, Caller
<1>2. CASE EntryGone(r)
  <2>1. /\ pc[r] = "read" /\ pc' = [pc EXCEPT ![r] = "evicted"]
        /\ entry' = entry /\ callback' = callback /\ current' = current /\ job' = job /\ at' = at
        /\ held' = held /\ owner' = owner
    BY <1>2 DEF EntryGone, MayRead, Go, fillVars, mapVars, readVars
  <2>2. OwnerInside' /\ ImageShape'
    BY <1>0, <2>1 DEF ImageInv, OwnerInside, ImageShape, FillingPlaces, ReadingPlaces
  <2> QED
    BY <1>0, <1>q, <2>1, <2>2, ReaderImage DEF FillingPlaces, ReadingPlaces, Caller
<1>3. CASE CheckMissing(r)
  <2>1. /\ pc[r] = "check" /\ pc' = [pc EXCEPT ![r] = "add"]
        /\ ~entry[held[r]].received
        /\ entry' = entry /\ callback' = callback /\ current' = current /\ job' = job /\ at' = at
        /\ held' = held /\ owner' = owner
    BY <1>3 DEF CheckMissing, Go, fillVars, mapVars, readVars
  <2>2. OwnerInside' /\ ImageShape'
    BY <1>0, <2>1 DEF ImageInv, OwnerInside, ImageShape, FillingPlaces, ReadingPlaces
  <2>3. ASSUME ~job[r].stream
        PROVE  Reader(r)'
    <3>1. held[r] \in Tiles \X Requests /\ Abandoned(held[r])
      BY <1>r, <2>1, <2>3 DEF Reader, HasFound, HasTile, ReadingPlaces
    <3> QED
      BY <2>1, <3>1, AbandonedForEver DEF Reader, ImageInv
  <2> QED
    BY <1>0, <1>q, <2>1, <2>2, <2>3, ReaderImage DEF FillingPlaces, Caller
<1>4. CASE CheckReceived(r)
  <2>0. PICK h, v : h = held[r] /\ v = entry[h].tile
    OBVIOUS
  <2>1. /\ pc[r] = "check" /\ pc' = [pc EXCEPT ![r] = "wait"]
        /\ current' = current /\ job' = job /\ at' = at /\ held' = held /\ owner' = owner
        /\ entry' = [entry EXCEPT ![h] = [entry[h] EXCEPT !["retrieved"] = TRUE]]
    BY <1>4, <2>0 DEF CheckReceived, Go, fillVars, mapVars
  <2>2. callback' = [callback EXCEPT ![r].tile = v, ![r].notified = TRUE]
    BY <1>4, <2>0 DEF CheckReceived
  <2>3. /\ DOMAIN callback' = Requests
        /\ \A c \in Requests : {"tile", "notified"} \subseteq DOMAIN callback'[c]
        /\ \A c \in Requests : c # r => callback'[c] = callback[c]
        /\ callback'[r].tile = v /\ callback'[r].notified
    BY <1>0, <2>2, TwoFieldsOfCallback
  <2>4. \A x \in Tiles, q \in Requests :
          /\ HasFields(entry'[<<x, q>>])
          /\ entry'[<<x, q>>].received = entry[<<x, q>>].received
          /\ entry'[<<x, q>>].tile = entry[<<x, q>>].tile
          /\ entry'[<<x, q>>].callbacks = entry[<<x, q>>].callbacks
    BY <1>0, <2>1 DEF HasFields
  <2>5. ImageShape'
    BY <1>0, <2>1, <2>3, <2>4 DEF ImageInv, ImageShape
  <2>6. OwnerInside'
    BY <1>0, <2>1 DEF ImageInv, OwnerInside, FillingPlaces, ReadingPlaces
  <2>7. \A x \in Tiles, q \in Requests, c \in Requests :
          HasCallback(x, q, c)' => HasCallback(x, q, c)
    BY <2>4 DEF HasCallback
  <2>8. ASSUME ~job[r].stream
        PROVE  Reader(r)'
    <3>1. held[r] \in Tiles \X Requests /\ (Abandoned(held[r]) \/ HasFound(r))
      BY <1>r, <2>1, <2>8 DEF Reader, HasTile, ReadingPlaces
    <3>2. CASE Abandoned(held[r])
      BY <2>1, <3>1, <3>2, AbandonedForEver DEF Reader, ImageInv
    <3>3. CASE HasFound(r)
      BY <1>0, <2>0, <2>1, <2>3, <3>1, <3>3 DEF Reader, HasFound, HasTile
    <3> QED
      BY <3>1, <3>2, <3>3
  <2>9. /\ pc'[r] = "wait"
        /\ \A q \in Requests : q # r => pc'[q] = pc[q]
    BY <1>0, <2>1
  <2> QED
    BY <2>1, <2>3, <2>4, <2>5, <2>6, <2>7, <2>8, <2>9, ReaderImage DEF FillingPlaces, Caller
<1>5. CASE AddCallback(r)
  <2>0. PICK h, cs : h = held[r] /\ cs = entry[h].callbacks
    OBVIOUS
  <2>1. /\ pc[r] = "add" /\ pc' = [pc EXCEPT ![r] = "wait"]
        /\ current' = current /\ job' = job /\ at' = at /\ held' = held /\ owner' = owner
        /\ callback' = callback
        /\ entry' = [entry EXCEPT ![h] = [entry[h] EXCEPT !["callbacks"] = Append(cs, r)]]
    BY <1>5, <2>0 DEF AddCallback, Go, fillVars, mapVars, readVars
  <2>2. \A x \in Tiles, q \in Requests :
          /\ HasFields(entry'[<<x, q>>])
          /\ entry'[<<x, q>>].received = entry[<<x, q>>].received
          /\ entry'[<<x, q>>].tile = entry[<<x, q>>].tile
          /\ \/ entry'[<<x, q>>].callbacks = entry[<<x, q>>].callbacks
             \/ /\ entry'[<<x, q>>].callbacks = Append(entry[<<x, q>>].callbacks, r)
    BY <1>0, <2>0, <2>1 DEF HasFields
  <2>3. \A x \in Tiles, q \in Requests :
          /\ Append(entry[<<x, q>>].callbacks, r) \in Seq(Requests)
          /\ \A i \in DOMAIN Append(entry[<<x, q>>].callbacks, r) :
               \/ Append(entry[<<x, q>>].callbacks, r)[i] = r
               \/ /\ i \in DOMAIN entry[<<x, q>>].callbacks
                  /\ Append(entry[<<x, q>>].callbacks, r)[i] = entry[<<x, q>>].callbacks[i]
    <3> SUFFICES ASSUME NEW cs1 \in Seq(Requests)
                 PROVE  /\ Append(cs1, r) \in Seq(Requests)
                        /\ \A i \in DOMAIN Append(cs1, r) :
                             \/ Append(cs1, r)[i] = r
                             \/ i \in DOMAIN cs1 /\ Append(cs1, r)[i] = cs1[i]
      BY <1>0
    <3>1. /\ Append(cs1, r) \in Seq(Requests)
          /\ Len(Append(cs1, r)) = Len(cs1) + 1
          /\ \A i \in 1..Len(cs1) : Append(cs1, r)[i] = cs1[i]
          /\ Append(cs1, r)[Len(cs1) + 1] = r
      BY AppendProperties
    <3>2. /\ Len(cs1) \in Nat /\ DOMAIN cs1 = 1..Len(cs1)
          /\ DOMAIN Append(cs1, r) = 1..(Len(cs1) + 1)
      BY <3>1, LenProperties
    <3> QED
      BY <3>1, <3>2
  <2>4. ImageShape'
    <3>1. \A x \in Tiles, q \in Requests :
            HasFields(entry'[<<x, q>>]) /\ entry'[<<x, q>>].callbacks \in Seq(Requests)
      BY <1>0, <2>2, <2>3
    <3> QED
      BY <1>0, <2>1, <3>1 DEF ImageShape
  <2>5. OwnerInside'
    BY <1>0, <2>1 DEF ImageInv, OwnerInside, FillingPlaces, ReadingPlaces
  <2>6. \A x \in Tiles, q \in Requests, c \in Requests :
          HasCallback(x, q, c)' => HasCallback(x, q, c) \/ c = r
    <3> SUFFICES ASSUME NEW x \in Tiles, NEW q \in Requests, NEW c \in Requests
                 PROVE  HasCallback(x, q, c)' => HasCallback(x, q, c) \/ c = r
      OBVIOUS
    <3>1. CASE entry'[<<x, q>>].callbacks = entry[<<x, q>>].callbacks
      BY <3>1 DEF HasCallback
    <3>2. CASE entry'[<<x, q>>].callbacks = Append(entry[<<x, q>>].callbacks, r)
      BY <3>2, <2>3 DEF HasCallback
    <3> QED
      BY <3>1, <3>2, <2>2
  <2>7. ASSUME ~job[r].stream
        PROVE  Reader(r)' /\ Caller(r)'
    <3>1. held[r] \in Tiles \X Requests /\ Abandoned(held[r])
      BY <1>r, <2>1, <2>7 DEF Reader, HasFound, HasTile, ReadingPlaces
    <3> QED
      BY <1>0, <2>1, <3>1, AbandonedForEver DEF Reader, Caller, ImageInv
  <2>8. Caller(r)'
    BY <2>1, <2>7 DEF Caller
  <2>9. /\ pc'[r] = "wait"
        /\ \A q \in Requests : q # r => pc'[q] = pc[q]
    BY <1>0, <2>1
  <2> QED
    BY <2>1, <2>2, <2>4, <2>5, <2>6, <2>7, <2>8, <2>9, ReaderImage DEF FillingPlaces, Caller
<1>6. ASSUME WaitForTile(r) \/ StopWaiting(r)
      PROVE  ImageInv'
  <2>1. /\ pc[r] \in {"wait", "waiting"}
        /\ \/ pc' = [pc EXCEPT ![r] = "waiting"] /\ owner' = owner /\ ~callback[r].notified
           \/ pc' = [pc EXCEPT ![r] = "done"] /\ owner' = IF owner = r THEN None ELSE owner
        /\ entry' = entry /\ current' = current /\ job' = job /\ at' = at /\ held' = held
    BY <1>6 DEF WaitForTile, StopWaiting, Answer, Leave, Go, fillVars, mapVars
  <2>2. \/ callback' = callback
        \/ \E b \in BOOLEAN : callback' = [callback EXCEPT ![r] = [callback[r] EXCEPT !["waiting"] = b]]
    BY <1>6 DEF WaitForTile, StopWaiting
  <2>3. /\ DOMAIN callback' = Requests
        /\ \A c \in Requests : {"tile", "notified"} \subseteq DOMAIN callback'[c]
        /\ \A c \in Requests : c # r => callback'[c] = callback[c]
        /\ callback'[r].tile = callback[r].tile /\ callback'[r].notified = callback[r].notified
    BY <1>0, <2>2
  <2>4. ImageShape'
    BY <1>0, <2>1, <2>3 DEF ImageInv, ImageShape
  <2>5. OwnerInside'
    BY <1>0, <2>1 DEF ImageInv, OwnerInside, FillingPlaces, ReadingPlaces
  <2>6. ASSUME ~job[r].stream
        PROVE  Reader(r)'
    <3>1. held[r] \in Tiles \X Requests /\ (Abandoned(held[r]) \/ HasTile(r))
      BY <1>r, <2>1, <2>6 DEF Reader, HasFound, ReadingPlaces
    <3>2. CASE Abandoned(held[r])
      BY <2>1, <3>1, <3>2, AbandonedForEver DEF Reader, ImageInv
    <3>3. CASE HasTile(r)
      <4>1. pc'[r] = "done"
        BY <1>0, <1>6, <2>1, <3>3 DEF HasTile, StopWaiting
      <4> QED
        BY <2>1, <2>3, <3>1, <3>3, <4>1 DEF Reader, HasTile
    <3> QED
      BY <3>1, <3>2, <3>3
  <2>7. /\ pc'[r] \in {"waiting", "done"}
        /\ \A q \in Requests : q # r => pc'[q] = pc[q]
    BY <1>0, <2>1
  <2> QED
    BY <1>q, <2>1, <2>3, <2>4, <2>5, <2>6, <2>7, ReaderImage DEF FillingPlaces
<1> QED
  BY <1>1, <1>2, <1>3, <1>4, <1>5, <1>6 DEF Read

\* Every step keeps the invariant.
LEMMA StepImage == ImageInv /\ [Next]_vars => ImageInv'
<1> SUFFICES ASSUME ImageInv, [Next]_vars
             PROVE  ImageInv'
  OBVIOUS
<1>0. FilledInv'
  BY StepFilled DEF ImageInv
<1>1. ASSUME NEW r \in Requests, RequestTiles(r) \/ EntriesMade(r)
      PROVE  ImageInv'
  <2>0. pc \in [Requests -> Places]
    BY DEF ImageInv, FilledInv, Shape
  <2>1. CASE RequestTiles(r)
    <3>1. /\ pc[r] = "enter" /\ pc' = [pc EXCEPT ![r] = "request"]
          /\ owner = None /\ owner' = r
          /\ UNCHANGED <<job, current, at, held, callback, entry>>
      BY <2>1 DEF RequestTiles, Go, mapVars, readVars
    <3>2. ImageShape'
      BY <3>1 DEF ImageInv, ImageShape
    <3>3. OwnerInside' /\ AtEntry'
      BY <2>0, <3>1, TileAssumption
      DEF ImageInv, OwnerInside, AtEntry, Filling, FillingPlaces, ReadingPlaces, ProvidingPlaces
    <3>4. ReceivedIsData'
      BY <2>0, <3>1 DEF ImageInv, ReceivedIsData, BeingSet
    <3>5. Callers'
      <4>1. \A c \in Requests : ~Caller(c) \/ job[c].stream \/ (pc'[c] = pc[c] /\ held'[c] = held[c])
        BY <2>0, <3>1 DEF Caller
      <4>2. \A x \in Tiles, q \in Requests, c \in Requests :
              HasCallback(x, q, c)' => HasCallback(x, q, c)
        BY <3>1 DEF HasCallback
      <4> QED
        BY <3>1, <4>1, <4>2, CallersKept
    <3>6. Readers'
      <4> SUFFICES ASSUME NEW c \in Requests,
                          ~job[c].stream, pc'[c] \in ReadingPlaces \cup {"done"}
                   PROVE  Reader(c)'
        BY <3>1 DEF Readers
      <4>1. pc'[c] = pc[c] /\ Reader(c)
        BY <2>0, <3>1 DEF ImageInv, Readers, ReadingPlaces
      <4> QED
        BY <3>1, <4>1, ReaderKept
    <3> QED
      BY <1>0, <3>2, <3>3, <3>4, <3>5, <3>6 DEF ImageInv
  <2>2. CASE EntriesMade(r)
    BY <1>0, <2>0, <2>2, QuietFillerImage
    DEF EntriesMade, Go, mapVars, fillVars, readVars, FillingPlaces, ProvidingPlaces
  <2> QED
    BY <1>1, <2>1, <2>2
<1>2. CASE Tick \/ UNCHANGED vars
  <2>1. UNCHANGED <<mapVars, entry, owner, pc, job, fillVars, readVars>>
    BY <1>2 DEF Tick, vars
  <2>2. /\ entry' = entry /\ owner' = owner /\ pc' = pc /\ job' = job /\ at' = at
        /\ held' = held /\ callback' = callback /\ current' = current
    BY <2>1 DEF mapVars, fillVars, readVars
  <2>3. ImageShape' /\ OwnerInside'
    BY <2>2 DEF ImageInv, ImageShape, OwnerInside
  <2>4. AtEntry' /\ ReceivedIsData'
    BY <2>2 DEF ImageInv, AtEntry, ReceivedIsData, BeingSet, Filling
  <2>5. Callers'
    <3>1. \A x \in Tiles, q \in Requests, c \in Requests :
            HasCallback(x, q, c)' => HasCallback(x, q, c)
      BY <2>2 DEF HasCallback
    <3> QED
      BY <2>2, <3>1, CallersKept
  <2>6. Readers'
    <3> SUFFICES ASSUME NEW c \in Requests,
                        ~job[c].stream, pc[c] \in ReadingPlaces \cup {"done"}
                 PROVE  Reader(c)'
      BY <2>2 DEF Readers
    <3>1. Reader(c)
      BY DEF ImageInv, Readers
    <3> QED
      BY <2>2, <3>1, ReaderKept
  <2> QED
    BY <1>0, <2>3, <2>4, <2>5, <2>6 DEF ImageInv
<1> QED
  BY <1>0, <1>1, <1>2, MakerImage, FillImage, ReadImage DEF Next, Step

\* An image is drawn with its tile unless the request that was to read the tile
\* failed, and only then does its reader wait: with any number of requests for
\* images and streams that evict each other's tiles.
THEOREM ImagesHaveTiles == Spec => []ImageHasTile
  BY ImageInit, StepImage, ImageInvImplies, PTL DEF Spec

-----------------------------------------------------------------------------
(* The removal policy.  An entry leaves the map when a new one is put in.  *)
(* The eldest entry and the first one requested are looked at before they  *)
(* go.  The one _haveData points at is not: the search for it has ended    *)
(* there, and that it ended at a retrieved entry rests on the order of     *)
(* the set, so on every time in it being one of the clock's.               *)

HasTime(e) == "time" \in DOMAIN e /\ e.time \in Times
EntryTimes == \A x \in Tiles, r \in Requests : HasTime(entry[<<x, r>>])
TimesInv ==
  /\ clock \in Times
  /\ EntryTimes
  /\ \A p \in haveData : p[2] \in Times

\* A set of natural numbers has a least element.
LEMMA LeastOf ==
  ASSUME NEW T \in SUBSET Nat, T # {}
  PROVE  \E n \in T : \A m \in T : n <= m
<1>1. PICK n \in T : \A m \in T : <<m, n>> \notin OpToRel(<, Nat)
  BY WFMin, NatLessThanWellFounded, Zenon
<1>2. \A m \in T : m \in Nat /\ n \in Nat /\ ~(m < n)
  BY <1>1 DEF OpToRel
<1> QED
  BY <1>2

\* A set of pairs whose second parts are times has one with the latest.
LEMMA LatestOf ==
  ASSUME NEW S, S # {}, \A p \in S : p[2] \in Times
  PROVE  \E p \in S : \A q \in S : q[2] <= p[2]
<1> DEFINE T == {MaxTime - p[2] : p \in S}
<1>0. MaxTime \in Nat /\ \A p \in S : p[2] \in 0..MaxTime
  BY TileAssumption DEF Times
<1>1. T \in SUBSET Nat /\ T # {}
  BY <1>0
<1>2. PICK n \in T : \A m \in T : n <= m
  BY <1>1, LeastOf
<1>3. PICK p \in S : n = MaxTime - p[2]
  OBVIOUS
<1>4. \A q \in S : MaxTime - p[2] <= MaxTime - q[2]
  BY <1>2, <1>3
<1>5. \A q \in S : q[2] <= p[2]
  BY <1>0, <1>4
<1> QED
  BY <1>5

\* The search that finds something ends at an entry that has left the map or
\* has been retrieved.
LEMMA HandledEnds ==
  ASSUME TimesInv, NEW x, Found(x), current[Handled(x)] # None
  PROVE  Removable(Handled(x))
<1>1. Stops(x) # {} /\ \A p \in Stops(x) : p[2] \in Times
  BY DEF Found, Stops, TimesInv
<1>2. \E p \in Stops(x) : \A q \in Stops(x) : q[2] <= p[2]
  BY <1>1, LatestOf
<1>3. PICK p \in Stops(x) : Handled(x) = p[1]
  BY <1>2 DEF Handled, EndOf
<1> QED
  BY <1>3 DEF Stops, Ends, Removable

\* An update of another field of one entry leaves the times.
LEMMA TimesKept ==
  ASSUME NEW f, NEW g, NEW e, NEW v, NEW name,
         g = [f EXCEPT ![e] = [f[e] EXCEPT ![name] = v]],
         name \in {"received", "tile", "retrieved", "callbacks"},
         DOMAIN f = Tiles \X Requests,
         \A x \in Tiles, r \in Requests : HasTime(f[<<x, r>>])
  PROVE  /\ DOMAIN g = Tiles \X Requests
         /\ \A x \in Tiles, r \in Requests : HasTime(g[<<x, r>>])
  BY DEF HasTime

\* A new entry has the time of the clock.
LEMMA NewTimes ==
  ASSUME NEW r \in Requests, NEW x \in Tiles, TimesInv, DOMAIN entry = Tiles \X Requests
  PROVE  /\ DOMAIN NewEntry(r, x) = Tiles \X Requests
         /\ \A y \in Tiles, q \in Requests : HasTime(NewEntry(r, x)[<<y, q>>])
<1>1. HasTime([NoEntry EXCEPT !.time = clock])
  BY DEF TimesInv, HasTime, NoEntry
<1> QED
  BY <1>1 DEF NewEntry, TimesInv, EntryTimes

\* Making an entry.
LEMMA MakerTimes ==
  ASSUME NEW r \in Requests, NEW x \in Tiles, TimesInv, MakeEntry(r, x),
         DOMAIN entry = Tiles \X Requests
  PROVE  TimesInv'
<1>1. clock' = clock /\ haveData' = haveData
  BY DEF MakeEntry, AlreadyRequested, Requested, EldestRemoved, EldestAbandonFails,
         HandledRemoved, HandledMissing, OldestRemoved, OldestKept, OldestMissing,
         RemoveAbandonFails, Put, PutOk, PutFails, mapVars
<1>2. \/ entry' = entry
      \/ entry' = NewEntry(r, x)
      \/ \E e, cs : entry' = [NewEntry(r, x) EXCEPT ![e] =
                                [NewEntry(r, x)[e] EXCEPT !["callbacks"] = cs]]
  <2>1. CASE EldestRemoved(r, x)
    BY <2>1 DEF EldestRemoved
  <2>2. CASE HandledRemoved(r, x)
    BY <2>2 DEF HandledRemoved
  <2>3. CASE OldestRemoved(r, x)
    BY <2>3 DEF OldestRemoved
  <2>4. CASE EldestAbandonFails(r, x)
    BY <2>4 DEF EldestAbandonFails
  <2> QED
    BY <2>1, <2>2, <2>3, <2>4
    DEF MakeEntry, AlreadyRequested, Requested, HandledMissing, OldestKept, OldestMissing,
        RemoveAbandonFails
<1>3. EntryTimes'
  <2>1. /\ DOMAIN NewEntry(r, x) = Tiles \X Requests
        /\ \A y \in Tiles, q \in Requests : HasTime(NewEntry(r, x)[<<y, q>>])
    BY NewTimes
  <2>2. ASSUME NEW e, NEW cs,
               entry' = [NewEntry(r, x) EXCEPT ![e] =
                           [NewEntry(r, x)[e] EXCEPT !["callbacks"] = cs]]
        PROVE  EntryTimes'
    BY <2>1, <2>2, TimesKept DEF EntryTimes
  <2> QED
    BY <1>2, <2>1, <2>2 DEF TimesInv, EntryTimes
<1> QED
  BY <1>1, <1>3 DEF TimesInv

\* Filling the entries.  The pair that Listen puts into _haveData has the time of
\* an entry of the map.
LEMMA FillTimes ==
  ASSUME NEW r \in Requests, ImageInv, TimesInv, Fill(r)
  PROVE  TimesInv'
<1>0. /\ DOMAIN entry = Tiles \X Requests
      /\ \A x \in Tiles, q \in Requests : HasTime(entry[<<x, q>>])
  BY DEF ImageInv, FilledInv, Shape, TimesInv, EntryTimes
<1>1. CASE UNCHANGED <<clock, haveData, entry>>
  BY <1>1 DEF TimesInv, EntryTimes
<1>2. ASSUME NEW x \in Tiles, Provide(r, x), entry' # entry
      PROVE  TimesInv'
  <2> DEFINE e == <<x, current[x]>>
  <2>1. /\ entry' = [entry EXCEPT ![e] = [entry[e] EXCEPT !["received"] = TRUE]]
        /\ clock' = clock /\ haveData' = haveData
    BY <1>2 DEF Provide
  <2> HIDE DEF e
  <2>2. EntryTimes'
    BY <1>0, <2>1, TimesKept DEF EntryTimes
  <2> QED
    BY <2>1, <2>2 DEF TimesInv
<1>3. CASE SetTile(r)
  <2>1. /\ entry' = [entry EXCEPT ![Filling(r)] =
                       [entry[Filling(r)] EXCEPT !["tile"] = Data(at[r])]]
        /\ clock' = clock /\ haveData' = haveData
    BY <1>3 DEF SetTile, mapVars
  <2>2. EntryTimes'
    BY <1>0, <2>1, TimesKept DEF EntryTimes
  <2> QED
    BY <2>1, <2>2 DEF TimesInv
<1>4. CASE Listen(r)
  <2>1. Filling(r) \in Tiles \X Requests
    BY <1>4 DEF Listen, ImageInv, AtEntry, ProvidingPlaces, Filling
  <2>2. entry[Filling(r)].time \in Times
    BY <1>0, <2>1 DEF HasTime
  <2>3. /\ clock' = clock /\ entry' = entry
        /\ haveData' \subseteq haveData \cup {<<at[r], entry[Filling(r)].time>>}
    BY <1>4 DEF Listen
  <2> QED
    BY <2>2, <2>3 DEF TimesInv, EntryTimes
<1>5. CASE Notify(r)
  <2> DEFINE e == Filling(r)
             cs == Tail(entry[e].callbacks)
             g == [entry EXCEPT ![e] = [entry[e] EXCEPT !["callbacks"] = cs]]
  <2>1. /\ entry' = [g EXCEPT ![e] = [g[e] EXCEPT !["retrieved"] = TRUE]]
        /\ clock' = clock /\ haveData' = haveData
    BY <1>5 DEF Notify, mapVars
  <2> HIDE DEF cs
  <2>2. DOMAIN g = Tiles \X Requests /\ \A x \in Tiles, q \in Requests : HasTime(g[<<x, q>>])
    BY <1>0, TimesKept
  <2> HIDE DEF g
  <2>3. EntryTimes'
    BY <2>1, <2>2, TimesKept DEF EntryTimes
  <2> QED
    BY <2>1, <2>3 DEF TimesInv
<1> QED
  BY <1>1, <1>2, <1>3, <1>4, <1>5
  DEF Fill, BaseRead, BaseFailed, Provide, Modified, Notified, Provided, mapVars

\* Reading the tile.
LEMMA ReadTimes ==
  ASSUME NEW r \in Requests, ImageInv, TimesInv, Read(r)
  PROVE  TimesInv'
<1>0. /\ DOMAIN entry = Tiles \X Requests
      /\ \A x \in Tiles, q \in Requests : HasTime(entry[<<x, q>>])
  BY DEF ImageInv, FilledInv, Shape, TimesInv, EntryTimes
<1>1. clock' = clock /\ haveData' = haveData
  BY DEF Read, GetEntry, EntryGone, CheckReceived, CheckMissing, AddCallback, WaitForTile,
         StopWaiting, mapVars
<1>2. CASE CheckReceived(r) \/ AddCallback(r)
  <2> DEFINE e == held[r]
  <2>1. \E name \in {"retrieved", "callbacks"} : \E v :
          entry' = [entry EXCEPT ![e] = [entry[e] EXCEPT ![name] = v]]
    <3>1. CASE CheckReceived(r)
      BY <3>1 DEF CheckReceived
    <3>2. CASE AddCallback(r)
      BY <3>2 DEF AddCallback
    <3> QED
      BY <1>2, <3>1, <3>2
  <2> HIDE DEF e
  <2>2. PICK name \in {"retrieved", "callbacks"} :
          \E v : entry' = [entry EXCEPT ![e] = [entry[e] EXCEPT ![name] = v]]
    BY <2>1
  <2>3. PICK v : entry' = [entry EXCEPT ![e] = [entry[e] EXCEPT ![name] = v]]
    BY <2>2
  <2>4. EntryTimes'
    BY <1>0, <2>3, TimesKept DEF EntryTimes
  <2> QED
    BY <1>1, <2>4 DEF TimesInv
<1> QED
  BY <1>1, <1>2
  DEF Read, GetEntry, EntryGone, CheckMissing, WaitForTile, StopWaiting, TimesInv, EntryTimes

\* The inductive step.
LEMMA StepTimes == ImageInv /\ TimesInv /\ [Next]_vars => TimesInv'
<1> SUFFICES ASSUME ImageInv, TimesInv, [Next]_vars
             PROVE  TimesInv'
  OBVIOUS
<1>1. CASE Tick
  BY <1>1, TileAssumption DEF Tick, TimesInv, EntryTimes, Times, mapVars
<1>2. CASE UNCHANGED vars
  BY <1>2 DEF vars, mapVars, TimesInv, EntryTimes
<1>3. ASSUME NEW r \in Requests, RequestTiles(r) \/ EntriesMade(r)
      PROVE  TimesInv'
  BY <1>3 DEF RequestTiles, EntriesMade, mapVars, TimesInv, EntryTimes
<1>4. DOMAIN entry = Tiles \X Requests
  BY DEF ImageInv, FilledInv, Shape
<1> QED
  BY <1>1, <1>2, <1>3, <1>4, MakerTimes, FillTimes, ReadTimes DEF Next, Step

LEMMA InitTimes == Init => TimesInv
  BY TileAssumption DEF Init, TimesInv, EntryTimes, HasTime, NoEntry, Times

\* A tile whose entry leaves the map or gives way to another could be removed.
LEMMA StepKeeps ==
  ASSUME ImageInv, TimesInv, [Next]_vars, NEW y \in Tiles,
         current[y] # None, current'[y] # current[y]
  PROVE  Removable(y)
<1>0. current \in [Tiles -> Requests \cup {None}]
  BY DEF ImageInv, FilledInv, Shape
<1>1. \E r \in Requests, x \in Tiles : MakeEntry(r, x)
  <2>1. ASSUME NEW r \in Requests, RequestTiles(r) \/ EntriesMade(r)
        PROVE  current' = current
    BY <2>1 DEF RequestTiles, EntriesMade, mapVars
  <2>2. ASSUME NEW r \in Requests, Fill(r)
        PROVE  current' = current
    BY <2>2 DEF Fill, BaseRead, BaseFailed, Provide, SetTile, Modified, Listen, Notify,
                Notified, Provided, mapVars
  <2>3. ASSUME NEW r \in Requests, Read(r)
        PROVE  current' = current
    BY <2>3 DEF Read, GetEntry, EntryGone, CheckReceived, CheckMissing, AddCallback,
                WaitForTile, StopWaiting, mapVars
  <2>4. Tick \/ UNCHANGED vars => current' = current
    BY DEF Tick, vars, mapVars
  <2> QED
    BY <2>1, <2>2, <2>3, <2>4 DEF Next, Step
<1>2. PICK r \in Requests, x \in Tiles : MakeEntry(r, x)
  BY <1>1
<1>3. MakeEntry(r, x) => current' = current \/ current[x] = None
  BY DEF MakeEntry, AlreadyRequested, Requested, EldestRemoved, EldestAbandonFails,
         HandledRemoved, HandledMissing, OldestRemoved, OldestKept, OldestMissing,
         RemoveAbandonFails, PutOk, PutFails, Put, mapVars
<1>4. y # x
  BY <1>2, <1>3
<1>5. Added(r, x)[y] = current[y] /\ DOMAIN Added(r, x) = Tiles
  BY <1>0, <1>4 DEF Added
<1>6. CASE EldestRemoved(r, x)
  BY <1>5, <1>6 DEF EldestRemoved
<1>7. CASE HandledRemoved(r, x)
  <2>1. Found(x) /\ current' = [Added(r, x) EXCEPT ![Handled(x)] = None]
    BY <1>7 DEF HandledRemoved
  <2>2. y = Handled(x)
    BY <1>5, <2>1
  <2> QED
    BY <2>1, <2>2, HandledEnds
<1>8. CASE OldestRemoved(r, x)
  BY <1>5, <1>8 DEF OldestRemoved, Removable
<1>9. CASE RemoveAbandonFails(r, x)
  <2> DEFINE z == IF Found(x) THEN Handled(x) ELSE oldestKey
  <2>1. Removable(z) /\ current' = [Added(r, x) EXCEPT ![z] = None]
    BY <1>9 DEF RemoveAbandonFails
  <2> HIDE DEF z
  <2> QED
    BY <1>5, <2>1
<1> QED
  BY <1>2, <1>5, <1>6, <1>7, <1>8, <1>9
  DEF MakeEntry, AlreadyRequested, Requested, EldestAbandonFails, HandledMissing, OldestKept,
      OldestMissing, mapVars

\* An entry stays in the map until its tile has been handed out or it is too old,
\* whatever the size of the map and however many tiles are asked for.
THEOREM PromisesKept == Spec => KeptWhilePromised
<1>1. ImageInv /\ TimesInv /\ [Next]_vars =>
        [\A x \in Tiles : current[x] # None /\ current'[x] # current[x] => Removable(x)]_vars
  BY StepKeeps
<1> QED
  BY <1>1, ImageInit, StepImage, InitTimes, StepTimes, PTL DEF Spec, KeptWhilePromised

-----------------------------------------------------------------------------
(* The keys of the map.  The order of access is a sequence of the keys in  *)
(* the map, each once, whatever is visited, put in and removed.            *)

\* s lists the set K of tiles, each once.
Lists(s, K) ==
  /\ s \in Seq(Tiles)
  /\ \A i, k \in DOMAIN s : s[i] = s[k] => i = k
  /\ ToSet(s) = K

\* A list as a function on the numbers up to its length.
LEMMA ListIs ==
  ASSUME NEW s, NEW K, Lists(s, K)
  PROVE  /\ s \in Seq(Tiles) /\ Len(s) \in Nat /\ DOMAIN s = 1..Len(s)
         /\ \A i \in 1..Len(s) : s[i] \in K
         /\ \A y \in K : \E i \in 1..Len(s) : s[i] = y
         /\ \A i, k \in 1..Len(s) : s[i] = s[k] => i = k
         /\ K \subseteq Tiles
<1>1. s \in Seq(Tiles) /\ Len(s) \in Nat /\ DOMAIN s = 1..Len(s)
  BY LenProperties DEF Lists
<1>2. \A i \in 1..Len(s) : s[i] \in Tiles
  BY <1>1, ElementOfSeq
<1> QED
  BY <1>1, <1>2 DEF Lists, ToSet

\* The other way round.
LEMMA ListOf ==
  ASSUME NEW s \in Seq(Tiles), NEW K, \A i \in 1..Len(s) : s[i] \in K,
         \A y \in K : \E i \in 1..Len(s) : s[i] = y,
         \A i, k \in 1..Len(s) : s[i] = s[k] => i = k
  PROVE  Lists(s, K)
<1>1. DOMAIN s = 1..Len(s)
  BY LenProperties
<1> QED
  BY <1>1 DEF Lists, ToSet

\* A key that is not in the list is put last.
LEMMA AppendLists ==
  ASSUME NEW s, NEW K, Lists(s, K), NEW x \in Tiles \ K
  PROVE  Lists(Append(s, x), K \cup {x})
<1>1. /\ s \in Seq(Tiles) /\ Len(s) \in Nat
      /\ \A i \in 1..Len(s) : s[i] \in K
      /\ \A y \in K : \E i \in 1..Len(s) : s[i] = y
      /\ \A i, k \in 1..Len(s) : s[i] = s[k] => i = k
  BY ListIs
<1>2. PICK t : t = Append(s, x)
  OBVIOUS
<1>3. /\ t \in Seq(Tiles) /\ Len(t) = Len(s) + 1
      /\ \A i \in 1..Len(s) : t[i] = s[i]
      /\ t[Len(s) + 1] = x
  BY <1>1, <1>2, AppendProperties
<1>4. \A i \in 1..Len(t) : i \in 1..Len(s) \/ i = Len(s) + 1
  BY <1>1, <1>3
<1>5. \A i \in 1..Len(t) : t[i] \in K \cup {x}
  BY <1>1, <1>3, <1>4
<1>6. \A y \in K \cup {x} : \E i \in 1..Len(t) : t[i] = y
  <2>1. Len(s) + 1 \in 1..Len(t) /\ \A i \in 1..Len(s) : i \in 1..Len(t)
    BY <1>1, <1>3
  <2> QED
    BY <1>1, <1>3, <2>1
<1>7. \A i, k \in 1..Len(t) : t[i] = t[k] => i = k
  BY <1>1, <1>3, <1>4
<1>8. Lists(t, K \cup {x})
  <2>1. t \in Seq(Tiles)
    BY <1>3
  <2> QED
    BY <1>5, <1>6, <1>7, <2>1, ListOf
<1> QED
  BY <1>2, <1>8

\* The eldest key is the first.
LEMMA TailLists ==
  ASSUME NEW s, NEW K, Lists(s, K), s # <<>>
  PROVE  Head(s) \in K /\ Lists(Tail(s), K \ {Head(s)})
<1>1. /\ s \in Seq(Tiles) /\ Len(s) \in Nat
      /\ \A i \in 1..Len(s) : s[i] \in K
      /\ \A y \in K : \E i \in 1..Len(s) : s[i] = y
      /\ \A i, k \in 1..Len(s) : s[i] = s[k] => i = k
  BY ListIs
<1>2. Len(s) # 0 /\ Head(s) = s[1]
  BY <1>1, EmptySeq, HeadTailProperties
<1>3. PICK t : t = Tail(s)
  OBVIOUS
<1>4. /\ t \in Seq(Tiles) /\ Len(t) = Len(s) - 1
      /\ \A i \in 1..Len(t) : t[i] = s[i + 1]
  BY <1>1, <1>3, HeadTailProperties
<1>5. \A i \in 1..Len(t) : i + 1 \in 1..Len(s) /\ i + 1 # 1
  BY <1>1, <1>4
<1>6. 1 \in 1..Len(s)
  BY <1>1, <1>2
<1>7. \A i \in 1..Len(t) : t[i] \in K \ {s[1]}
  BY <1>1, <1>4, <1>5, <1>6
<1>8. \A y \in K \ {s[1]} : \E i \in 1..Len(t) : t[i] = y
  <2> SUFFICES ASSUME NEW y \in K \ {s[1]}
               PROVE  \E i \in 1..Len(t) : t[i] = y
    OBVIOUS
  <2>1. PICK k \in 1..Len(s) : s[k] = y
    BY <1>1
  <2>2. k - 1 \in 1..Len(t) /\ k - 1 + 1 = k
    BY <1>1, <1>4, <2>1
  <2> QED
    BY <1>4, <2>1, <2>2
<1>9. \A i, k \in 1..Len(t) : t[i] = t[k] => i = k
  <2> SUFFICES ASSUME NEW i \in 1..Len(t), NEW k \in 1..Len(t), t[i] = t[k]
               PROVE  i = k
    OBVIOUS
  <2>1. s[i + 1] = s[k + 1]
    BY <1>4
  <2>2. i + 1 = k + 1
    BY <1>1, <1>5, <2>1
  <2> QED
    BY <1>4, <2>2
<1>10. Lists(t, K \ {s[1]})
  BY <1>4, <1>7, <1>8, <1>9, ListOf
<1> QED
  BY <1>1, <1>2, <1>3, <1>6, <1>10

\* A key that is at one place of a list.
OnlyAt(s, r, k) ==
  s \in Seq(Tiles) /\ k \in 1..Len(s) /\ s[k] = r /\ \A i \in 1..Len(s) : s[i] = r => i = k

\* Removing the only occurrence of a key.
LEMMA RemoveOnce ==
  ASSUME NEW s, NEW r, NEW k, OnlyAt(s, r, k)
  PROVE  Dropped(s, r) = SubSeq(s, 1, k - 1) \o SubSeq(s, k + 1, Len(s))
<1>0. s \in Seq(Tiles) /\ k \in 1..Len(s) /\ s[k] = r /\ \A i \in 1..Len(s) : s[i] = r => i = k
  BY DEF OnlyAt
<1>1. SelectInSeq(s, LAMBDA v : v = r) = k
  <2> DEFINE I == {i \in 1..Len(s) : s[i] = r}
  <2>1. I = {k}
    BY <1>0
  <2>2. (CHOOSE x \in I : \A y \in I : x =< y) = k
    BY <1>0, <2>1, LenProperties
  <2> QED
    BY <2>1, <2>2 DEF SelectInSeq, Min
<1> QED
  BY <1>0, <1>1 DEF Dropped, RemoveFirst, RemoveAt

\* A key that is removed is gone; the others stay.
LEMMA DroppedLists ==
  ASSUME NEW s, NEW K, Lists(s, K), NEW x
  PROVE  Lists(Dropped(s, x), K \ {x})
<1>1. /\ s \in Seq(Tiles) /\ Len(s) \in Nat
      /\ \A i \in 1..Len(s) : s[i] \in K
      /\ \A y \in K : \E i \in 1..Len(s) : s[i] = y
      /\ \A i, k \in 1..Len(s) : s[i] = s[k] => i = k
  BY ListIs
<1>2. CASE ~\E k \in 1..Len(s) : s[k] = x
  <2>1. Dropped(s, x) = s
    BY <1>2 DEF Dropped, RemoveFirst
  <2>2. K \ {x} = K
    BY <1>1, <1>2
  <2> QED
    BY <2>1, <2>2
<1>3. CASE \E k \in 1..Len(s) : s[k] = x
  <2>1. PICK k \in 1..Len(s) : s[k] = x
    BY <1>3
  <2>2. PICK a : a = SubSeq(s, 1, k - 1)
    OBVIOUS
  <2>3. PICK b : b = SubSeq(s, k + 1, Len(s))
    OBVIOUS
  <2>4. PICK t : t = a \o b
    OBVIOUS
  <2>5. Dropped(s, x) = t
    <3>1. OnlyAt(s, x, k)
      BY <1>1, <2>1 DEF OnlyAt
    <3>2. Dropped(s, x) = SubSeq(s, 1, k - 1) \o SubSeq(s, k + 1, Len(s))
      BY <3>1, RemoveOnce
    <3> QED
      BY <2>2, <2>3, <2>4, <3>2
  <2>6. \A i \in 1..Len(s) : s[i] \in Tiles
    BY <1>1, ElementOfSeq
  <2>7. /\ a \in Seq(Tiles) /\ Len(a) = k - 1
        /\ \A i \in 1..(k - 1) : a[i] = s[i]
    BY <1>1, <2>1, <2>2, <2>6, SubSeqProperties
  <2>8. /\ b \in Seq(Tiles) /\ Len(b) = Len(s) - k
        /\ \A i \in 1..(Len(s) - k) : b[i] = s[k + i]
    BY <1>1, <2>1, <2>3, <2>6, SubSeqProperties
  <2>9. /\ t \in Seq(Tiles) /\ Len(t) = Len(a) + Len(b)
        /\ \A i \in 1..(Len(a) + Len(b)) : t[i] = IF i <= Len(a) THEN a[i] ELSE b[i - Len(a)]
    BY <2>4, <2>7, <2>8, ConcatProperties
  <2>10. Len(t) = Len(s) - 1
    BY <1>1, <2>1, <2>7, <2>8, <2>9
  <2>11. ASSUME NEW i \in 1..Len(t)
         PROVE  t[i] = IF i < k THEN s[i] ELSE s[i + 1]
    <3>1. CASE i < k
      BY <1>1, <2>1, <2>7, <2>8, <2>9, <2>10, <3>1
    <3>2. CASE ~(i < k)
      <4>1. t[i] = b[i - (k - 1)] /\ i - (k - 1) \in 1..(Len(s) - k)
        BY <1>1, <2>1, <2>7, <2>8, <2>9, <2>10, <3>2
      <4>2. b[i - (k - 1)] = s[k + (i - (k - 1))] /\ k + (i - (k - 1)) = i + 1
        BY <1>1, <2>1, <2>8, <4>1
      <4> QED
        BY <3>2, <4>1, <4>2
    <3> QED
      BY <3>1, <3>2
  <2>12. \A i \in 1..Len(t) : t[i] \in K \ {x}
    BY <1>1, <2>1, <2>10, <2>11
  <2>13. \A y \in K \ {x} : \E i \in 1..Len(t) : t[i] = y
    <3> SUFFICES ASSUME NEW y \in K \ {x}
                 PROVE  \E i \in 1..Len(t) : t[i] = y
      OBVIOUS
    <3>1. PICK m \in 1..Len(s) : s[m] = y
      BY <1>1
    <3>2. m # k
      BY <2>1, <3>1
    <3>3. CASE m < k
      <4>1. m \in 1..Len(t)
        BY <1>1, <2>1, <2>10, <3>1, <3>3
      <4> QED
        BY <2>11, <3>1, <3>3, <4>1
    <3>4. CASE ~(m < k)
      <4>1. m - 1 \in 1..Len(t) /\ ~(m - 1 < k) /\ m - 1 + 1 = m
        BY <1>1, <2>1, <2>10, <3>1, <3>2, <3>4
      <4> QED
        BY <2>11, <3>1, <4>1
    <3> QED
      BY <3>3, <3>4
  <2>14. \A i, m \in 1..Len(t) : t[i] = t[m] => i = m
    BY <1>1, <2>1, <2>10, <2>11
  <2> QED
    BY <2>5, <2>9, <2>12, <2>13, <2>14, ListOf
<1> QED
  BY <1>2, <1>3

\* A key that is used goes last.
LEMMA TouchedLists ==
  ASSUME NEW s, NEW K, Lists(s, K), NEW x \in K
  PROVE  Lists(Touched(s, x), K)
<1>1. Lists(Dropped(s, x), K \ {x})
  BY DroppedLists
<1>2. x \in Tiles \ (K \ {x}) /\ (K \ {x}) \cup {x} = K
  BY ListIs
<1>3. Lists(Append(Dropped(s, x), x), (K \ {x}) \cup {x})
  BY <1>1, <1>2, AppendLists
<1> QED
  BY <1>2, <1>3 DEF Touched

\* f is the function that Visited computes, up to the n latest times.
IsVisits(f, keys, pairs, n) ==
  f = [i \in 0..n |->
         IF i = 0 THEN keys
         ELSE LET there == {p \in pairs : p[2] = MaxTime + 1 - i} IN
              IF there = {} THEN f[i - 1]
              ELSE Touched(f[i - 1], (CHOOSE p \in there : TRUE)[1])]

\* There is such a function for every n.
LEMMA VisitsExist ==
  ASSUME NEW keys, NEW pairs, NEW n \in Nat
  PROVE  \E f : IsVisits(f, keys, pairs, n)
<1> DEFINE T == {m \in Nat : ~ \E f : IsVisits(f, keys, pairs, m)}
           there(i) == {p \in pairs : p[2] = MaxTime + 1 - i}
           next(s, i) == IF there(i) = {} THEN s ELSE Touched(s, (CHOOSE p \in there(i) : TRUE)[1])
<1>1. SUFFICES ASSUME T # {}
               PROVE  FALSE
  OBVIOUS
<1>2. PICK m \in T : \A k \in T : m <= k
  BY <1>1, LeastOf
<1>3. CASE m = 0
  <2> DEFINE f == [i \in 0..0 |-> keys]
  <2>1. IsVisits(f, keys, pairs, 0)
    BY DEF IsVisits
  <2> QED
    BY <1>3, <2>1
<1>4. CASE m # 0
  <2>1. m - 1 \in Nat /\ m - 1 \notin T
    BY <1>2, <1>4
  <2>2. PICK g : IsVisits(g, keys, pairs, m - 1)
    BY <2>1
  <2>0. /\ g = [i \in 0..(m - 1) |-> IF i = 0 THEN keys ELSE next(g[i - 1], i)]
        /\ \A f : (f = [i \in 0..m |-> IF i = 0 THEN keys ELSE next(f[i - 1], i)])
                    => IsVisits(f, keys, pairs, m)
    BY <2>2 DEF IsVisits
  <2> HIDE DEF next
  <2> DEFINE f == [i \in 0..m |-> IF i = m THEN next(g[m - 1], m) ELSE g[i]]
  <2>3. \A i \in 0..m : f[i] = IF i = 0 THEN keys ELSE next(f[i - 1], i)
    <3> SUFFICES ASSUME NEW i \in 0..m
                 PROVE  f[i] = IF i = 0 THEN keys ELSE next(f[i - 1], i)
      OBVIOUS
    <3>1. CASE i = m
      <4>1. f[m - 1] = g[m - 1] /\ f[m] = next(g[m - 1], m)
        BY <2>1, <1>4
      <4> HIDE DEF f
      <4> QED
        BY <3>1, <1>4, <4>1
    <3>2. CASE i # m
      <4>1. i \in 0..(m - 1) /\ (i # 0 => i - 1 \in 0..m /\ i - 1 # m)
        BY <3>2, <2>1
      <4>2. g[i] = IF i = 0 THEN keys ELSE next(g[i - 1], i)
        BY <4>1, <2>0
      <4>3. f[i] = g[i] /\ (i # 0 => f[i - 1] = g[i - 1])
        BY <4>1, <3>2
      <4> HIDE DEF f
      <4> QED
        BY <4>2, <4>3
    <3> QED
      BY <3>1, <3>2
  <2>4. f = [i \in 0..m |-> IF i = 0 THEN keys ELSE next(f[i - 1], i)]
    <3>1. f = [i \in 0..m |-> f[i]]
      OBVIOUS
    <3> HIDE DEF f
    <3> QED
      BY <2>3, <3>1
  <2>5. IsVisits(f, keys, pairs, m)
    <3> HIDE DEF f
    <3> QED
      BY <2>0, <2>4
  <2> QED
    BY <2>5
<1> QED
  BY <1>3, <1>4

\* A walk through entries of the map changes the order of its keys and no more.
LEMMA VisitedLists ==
  ASSUME NEW s, NEW K, Lists(s, K), NEW pairs, \A p \in pairs : p[1] \in K
  PROVE  Lists(Visited(s, pairs), K)
<1> DEFINE N == MaxTime + 1
<1>1. N \in Nat
  BY TileAssumption
<1>2. PICK f : IsVisits(f, s, pairs, N) /\ Visited(s, pairs) = f[N]
  <2>1. \E f : IsVisits(f, s, pairs, N)
    BY <1>1, VisitsExist
  <2> QED
    BY <2>1 DEF Visited, IsVisits
<1> DEFINE T == {m \in 0..N : ~Lists(f[m], K)}
<1>3. SUFFICES ASSUME T # {}
               PROVE  FALSE
  <2>1. N \in 0..N
    BY <1>1
  <2> HIDE DEF N
  <2> QED
    BY <1>2, <2>1
<1>4. PICK m \in T : \A k \in T : m <= k
  <2>1. T \in SUBSET Nat
    BY <1>1
  <2> HIDE DEF T
  <2> QED
    BY <1>3, <2>1, LeastOf
<1> HIDE DEF N
<1>5. CASE m = 0
  <2>1. f[0] = s
    BY <1>1, <1>2 DEF IsVisits
  <2> QED
    BY <1>4, <1>5, <2>1
<1>6. CASE m # 0
  <2> DEFINE there == {p \in pairs : p[2] = MaxTime + 1 - m}
  <2>1. m - 1 \in Nat /\ m - 1 \in 0..N /\ Lists(f[m - 1], K)
    BY <1>1, <1>4, <1>6
  <2>2. f[m] = IF there = {} THEN f[m - 1] ELSE Touched(f[m - 1], (CHOOSE p \in there : TRUE)[1])
    BY <1>1, <1>2, <1>4, <1>6 DEF IsVisits
  <2>3. there # {} => (CHOOSE p \in there : TRUE)[1] \in K
    OBVIOUS
  <2> HIDE DEF there
  <2>4. Lists(f[m], K)
    BY <2>1, <2>2, <2>3, TouchedLists
  <2> QED
    BY <1>4, <2>4
<1> QED
  BY <1>5, <1>6

\* The tiles in the map are its keys, and _haveData has one pair for a time: the walk
\* through it meets no tile that has left the map before its end.
InMap == {x \in Tiles : current[x] # None}
KeysInv ==
  /\ Lists(lru, InMap)
  /\ oldestKey \in Tiles \cup {None}
  /\ lru # <<>> => oldestKey # None
  /\ haveData \subseteq Tiles \X Times
  /\ \A p, q \in haveData : p[2] = q[2] => p = q

\* What is visited is in the map, but perhaps for the pair at which the search ends.
LEMMA SearchInMap ==
  ASSUME KeysInv, NEW x, NEW p \in Search(x)
  PROVE  \/ p[1] \in InMap \cup {x}
         \/ Found(x) /\ p = EndOf(x)
<1>1. p \in haveData /\ p[1] \in Tiles /\ p[2] \in Times /\ \A q \in Stops(x) : q[2] <= p[2]
  BY DEF Search, KeysInv
<1>2. CASE ~Ends(x, p)
  BY <1>1, <1>2 DEF Ends, InMap
<1>3. CASE Ends(x, p)
  <2>1. p \in Stops(x)
    BY <1>1, <1>3 DEF Stops
  <2>2. EndOf(x) \in Stops(x) /\ \A q \in Stops(x) : q[2] <= EndOf(x)[2]
    BY <1>1, <2>1 DEF EndOf
  <2>3. EndOf(x) \in haveData /\ EndOf(x)[2] \in Times
    BY <2>2 DEF Stops, KeysInv
  <2>4. EndOf(x)[2] <= p[2] /\ p[2] <= EndOf(x)[2]
    BY <1>1, <2>1, <2>2
  <2>5. EndOf(x)[2] = p[2]
    BY <1>1, <2>3, <2>4, TileAssumption DEF Times
  <2> QED
    BY <1>1, <2>1, <2>3, <2>5 DEF KeysInv, Found
<1> QED
  BY <1>2, <1>3

\* The end of the search is a pair of a tile and a time.
LEMMA HandledIsTile ==
  ASSUME KeysInv, NEW x, Found(x)
  PROVE  EndOf(x) \in haveData /\ Handled(x) \in Tiles /\ Handled(x) # x
<1>1. Stops(x) # {} /\ \A p \in Stops(x) : p[2] \in Times
  BY DEF Found, Stops, KeysInv
<1>2. \E p \in Stops(x) : \A q \in Stops(x) : q[2] <= p[2]
  BY <1>1, LatestOf
<1>3. EndOf(x) \in Stops(x)
  BY <1>2 DEF EndOf
<1> QED
  BY <1>3 DEF Stops, Ends, Handled, KeysInv

\* The map with a new key, in whatever order.
LEMMA AddedKeys ==
  ASSUME KeysInv, NEW r \in Requests, NEW x \in Tiles, current[x] = None,
         current \in [Tiles -> Requests \cup {None}]
  PROVE  /\ Lists(Keys(x), InMap \cup {x})
         /\ {y \in Tiles : Added(r, x)[y] # None} = InMap \cup {x}
         /\ \A z \in Tiles : {y \in Tiles : [Added(r, x) EXCEPT ![z] = None][y] # None}
                               = (InMap \cup {x}) \ {z}
         /\ \A pairs \in SUBSET Search(x) :
              (Found(x) /\ EndOf(x) \in pairs => current[Handled(x)] # None)
              => Lists(Visited(Keys(x), pairs), InMap \cup {x})
<1>1. x \in Tiles \ InMap
  BY DEF InMap
<1>2. Lists(Keys(x), InMap \cup {x})
  BY <1>1, AppendLists DEF Keys, KeysInv
<1>3. /\ DOMAIN Added(r, x) = Tiles /\ r # None
      /\ \A y \in Tiles : Added(r, x)[y] = IF y = x THEN r ELSE current[y]
  BY TileAssumption DEF Added
<1>4. \A y \in Tiles : Added(r, x)[y] # None <=> y \in InMap \cup {x}
  BY <1>3 DEF InMap
<1>5. \A z, y \in Tiles : [Added(r, x) EXCEPT ![z] = None][y] # None
                            <=> y \in (InMap \cup {x}) \ {z}
  BY <1>3, <1>4
<1>6. InMap \cup {x} \subseteq Tiles
  BY DEF InMap
<1>7. ASSUME NEW pairs \in SUBSET Search(x),
             Found(x) /\ EndOf(x) \in pairs => current[Handled(x)] # None
      PROVE  Lists(Visited(Keys(x), pairs), InMap \cup {x})
  <2>1. ASSUME NEW p \in pairs
        PROVE  p[1] \in InMap \cup {x}
    <3>1. p \in Search(x)
      BY <2>1
    <3>2. CASE Found(x) /\ p = EndOf(x)
      <4>1. current[Handled(x)] # None /\ Handled(x) \in Tiles
        BY <1>7, <2>1, <3>2, HandledIsTile
      <4> QED
        BY <3>2, <4>1 DEF Handled, InMap
    <3> QED
      BY <3>1, <3>2, SearchInMap
  <2> QED
    BY <1>2, <2>1, VisitedLists
<1> QED
  BY <1>2, <1>4, <1>5, <1>6, <1>7

\* Making an entry, however it ends.
LEMMA MakerKeys ==
  ASSUME NEW r \in Requests, NEW x \in Tiles, KeysInv, MakeEntry(r, x),
         current \in [Tiles -> Requests \cup {None}]
  PROVE  KeysInv'
<1>1. CASE AlreadyRequested(r, x)
  BY <1>1 DEF AlreadyRequested, mapVars, KeysInv, InMap, Lists
<1>2. CASE ~AlreadyRequested(r, x)
  <2> DEFINE K == InMap \cup {x}
  <2>1. Put(r, x) /\ current[x] = None /\ haveData' = haveData
    BY <1>2 DEF MakeEntry, Requested, EldestRemoved, EldestAbandonFails, HandledRemoved,
                HandledMissing, OldestRemoved, OldestKept, OldestMissing, RemoveAbandonFails,
                PutOk, PutFails, Put
  <2>2. /\ Lists(Keys(x), K)
        /\ {y \in Tiles : Added(r, x)[y] # None} = K
        /\ \A z \in Tiles : {y \in Tiles : [Added(r, x) EXCEPT ![z] = None][y] # None} = K \ {z}
        /\ \A pairs \in SUBSET Search(x) :
             (Found(x) /\ EndOf(x) \in pairs => current[Handled(x)] # None)
             => Lists(Visited(Keys(x), pairs), K)
    BY <2>1, AddedKeys
  <2>3. Found(x) => EndOf(x) \in haveData /\ Handled(x) \in Tiles /\ Handled(x) # x
    BY HandledIsTile
  <2>4. Len(lru) >= MaxSize => lru # <<>> /\ oldestKey \in Tiles /\ oldestKey # None
    <3>1. Len(lru) >= MaxSize => Len(lru) # 0
      BY TileAssumption
    <3> QED
      BY <3>1, EmptySeq DEF KeysInv
  <2>5. lru # <<>> => Eldest \in K /\ Lists(Tail(Keys(x)), K \ {Eldest})
    <3> SUFFICES ASSUME lru # <<>>
                 PROVE  Eldest \in K /\ Lists(Tail(Keys(x)), K \ {Eldest})
      OBVIOUS
    <3>1. lru \in Seq(Tiles) /\ Len(lru) \in Nat /\ Len(lru) # 0
      BY ListIs, EmptySeq DEF KeysInv
    <3>2. /\ Keys(x) \in Seq(Tiles) /\ Len(Keys(x)) = Len(lru) + 1
          /\ \A i \in 1..Len(lru) : Keys(x)[i] = lru[i]
      BY <3>1, AppendProperties DEF Keys
    <3>3. Keys(x) # <<>> /\ Head(Keys(x)) = Keys(x)[1] /\ Eldest = lru[1] /\ 1 \in 1..Len(lru)
      BY <3>1, <3>2, EmptySeq, HeadTailProperties DEF Eldest
    <3>4. Head(Keys(x)) = Eldest
      BY <3>2, <3>3
    <3>5. Head(Keys(x)) \in K /\ Lists(Tail(Keys(x)), K \ {Head(Keys(x))})
      BY <2>2, <3>3, TailLists
    <3> QED
      BY <3>4, <3>5
  <2>6. ASSUME NEW z \in Tiles, NEW s, Lists(s, K)
        PROVE  Lists(Dropped(s, z), K \ {z})
    BY <2>6, DroppedLists
  <2>7. K \subseteq Tiles /\ InMap' = {y \in Tiles : current'[y] # None}
    BY DEF InMap
  <2>8. ASSUME \/ PutOk(r, x)
               \/ PutFails(r, x, "policy") /\ Len(lru) >= MaxSize
               \/ PutFails(r, x, "monitor") /\ Len(lru) >= MaxSize,
               Lists(lru', InMap')
        PROVE  KeysInv'
    <3>1. oldestKey' \in Tiles /\ oldestKey' # None
      <4>1. CASE PutOk(r, x)
        BY <4>1, TileAssumption DEF PutOk, KeysInv
      <4> QED
        BY <2>4, <2>8, <4>1 DEF PutFails
    <3> QED
      BY <2>1, <2>8, <3>1 DEF KeysInv
  <2> HIDE DEF K
  <2>9. CASE Requested(r, x)
    <3>1. lru' = Keys(x) /\ current' = Added(r, x) /\ PutOk(r, x)
      BY <2>9 DEF Requested
    <3> QED
      BY <2>2, <2>7, <2>8, <3>1
  <2>10. CASE EldestRemoved(r, x)
    <3>1. /\ lru' = Tail(Keys(x)) /\ current' = [Added(r, x) EXCEPT ![Eldest] = None]
          /\ PutOk(r, x) /\ Len(lru) >= MaxSize
      BY <2>10 DEF EldestRemoved
    <3> QED
      BY <2>2, <2>4, <2>5, <2>7, <2>8, <3>1
  <2>11. CASE EldestAbandonFails(r, x)
    <3>1. /\ lru' = Keys(x) /\ current' = Added(r, x)
          /\ PutFails(r, x, "monitor") /\ Len(lru) >= MaxSize
      BY <2>11 DEF EldestAbandonFails
    <3> QED
      BY <2>2, <2>7, <2>8, <3>1
  <2>12. Pinned => Len(lru) >= MaxSize
    BY DEF Pinned
  <2>13. CASE HandledRemoved(r, x)
    <3>1. /\ lru' = Dropped(Visited(Keys(x), Search(x)), Handled(x))
          /\ current' = [Added(r, x) EXCEPT ![Handled(x)] = None]
          /\ PutOk(r, x) /\ Found(x) /\ current[Handled(x)] # None
      BY <2>13 DEF HandledRemoved
    <3>2. Lists(Visited(Keys(x), Search(x)), K)
      BY <2>2, <3>1
    <3>3. Lists(lru', K \ {Handled(x)})
      BY <2>3, <2>6, <3>1, <3>2
    <3> QED
      BY <2>2, <2>3, <2>7, <2>8, <3>1, <3>3
  <2>14. CASE HandledMissing(r, x)
    <3>1. /\ lru' = Visited(Keys(x), Search(x) \ {EndOf(x)})
          /\ current' = Added(r, x)
          /\ PutFails(r, x, "policy") /\ Len(lru) >= MaxSize
      BY <2>12, <2>14 DEF HandledMissing
    <3>2. Search(x) \ {EndOf(x)} \in SUBSET Search(x)
      OBVIOUS
    <3>3. Lists(lru', K)
      BY <2>2, <3>1, <3>2
    <3> QED
      BY <2>2, <2>7, <2>8, <3>1, <3>3
  <2>15. (Found(x) => current[Handled(x)] # None) => Lists(Visited(Keys(x), Search(x)), K)
    BY <2>2
  <2>16. CASE OldestRemoved(r, x)
    <3>1. /\ lru' = Dropped(Visited(Keys(x), Search(x)), oldestKey)
          /\ current' = [Added(r, x) EXCEPT ![oldestKey] = None]
          /\ PutOk(r, x) /\ ~Found(x) /\ Len(lru) >= MaxSize
      BY <2>12, <2>16 DEF OldestRemoved
    <3>2. oldestKey \in Tiles
      BY <2>4, <3>1
    <3>3. Lists(lru', K \ {oldestKey})
      BY <2>6, <2>15, <3>1, <3>2
    <3> QED
      BY <2>2, <2>7, <2>8, <3>1, <3>2, <3>3
  <2>17. CASE OldestKept(r, x)
    <3>1. /\ lru' = Touched(Visited(Keys(x), Search(x)), oldestKey)
          /\ current' = Added(r, x)
          /\ PutOk(r, x) /\ ~Found(x) /\ Len(lru) >= MaxSize
          /\ oldestKey = x \/ current[oldestKey] # None
      BY <2>12, <2>17 DEF OldestKept
    <3>2. oldestKey \in K
      BY <2>4, <3>1 DEF K, InMap
    <3>3. Lists(lru', K)
      BY <2>15, <3>1, <3>2, TouchedLists
    <3> QED
      BY <2>2, <2>7, <2>8, <3>1, <3>3
  <2>18. CASE OldestMissing(r, x)
    <3>1. /\ lru' = Visited(Keys(x), Search(x))
          /\ current' = Added(r, x)
          /\ PutFails(r, x, "policy") /\ ~Found(x) /\ Len(lru) >= MaxSize
      BY <2>12, <2>18 DEF OldestMissing
    <3> QED
      BY <2>2, <2>7, <2>8, <2>15, <3>1
  <2>19. CASE RemoveAbandonFails(r, x)
    <3>1. PICK y : y = IF Found(x) THEN Handled(x) ELSE oldestKey
      OBVIOUS
    <3>2. /\ lru' = Dropped(Visited(Keys(x), Search(x)), y)
          /\ current' = [Added(r, x) EXCEPT ![y] = None]
          /\ PutFails(r, x, "monitor") /\ Len(lru) >= MaxSize /\ current[y] # None
      BY <2>12, <2>19, <3>1 DEF RemoveAbandonFails
    <3>3. y \in Tiles
      BY <2>3, <2>4, <3>1, <3>2
    <3>4. Lists(lru', K \ {y})
      BY <2>6, <2>15, <3>1, <3>2, <3>3
    <3> QED
      BY <2>2, <2>7, <2>8, <3>2, <3>3, <3>4
  <2> QED
    BY <1>2, <2>9, <2>10, <2>11, <2>13, <2>14, <2>16, <2>17, <2>18, <2>19 DEF MakeEntry
<1> QED
  BY <1>1, <1>2

\* Any other step changes the order of the keys at most, and adds a pair with a new time.
LEMMA OtherKeys ==
  ASSUME KeysInv, ImageInv, TimesInv, NEW r \in Requests, Fill(r) \/ Read(r)
  PROVE  KeysInv'
<1>1. current' = current /\ oldestKey' = oldestKey
  BY DEF Fill, BaseRead, BaseFailed, Provide, SetTile, Modified, Listen, Notify, Notified,
         Provided, Read, GetEntry, EntryGone, CheckReceived, CheckMissing, AddCallback,
         WaitForTile, StopWaiting, mapVars
<1>2. lru' = lru \/ \E y \in InMap : lru' = Touched(lru, y)
  <2>1. ASSUME NEW x \in Tiles, Provide(r, x)
        PROVE  lru' = lru \/ \E y \in InMap : lru' = Touched(lru, y)
    BY <2>1 DEF Provide, InMap
  <2>2. CASE Listen(r)
    <3>1. at[r] \in Tiles /\ current[at[r]] \in Requests
      BY <2>2 DEF Listen, ImageInv, AtEntry, ProvidingPlaces
    <3> QED
      BY <2>2, <3>1, TileAssumption DEF Listen, InMap
  <2>3. CASE GetEntry(r)
    <3>1. job[r].index \in Tiles
      BY TileAssumption DEF ImageInv, FilledInv, Shape, Job
    <3> QED
      BY <2>3, <3>1 DEF GetEntry, InMap
  <2> QED
    BY <2>1, <2>2, <2>3 DEF Fill, BaseRead, BaseFailed, SetTile, Modified, Notify, Notified,
         Provided, Read, EntryGone, CheckReceived, CheckMissing, AddCallback,
         WaitForTile, StopWaiting, mapVars
<1>3. InMap' = InMap
  BY <1>1 DEF InMap
<1>4. Lists(lru', InMap') /\ (lru' # <<>> => lru # <<>>)
  <2>1. CASE lru' = lru
    BY <1>3, <2>1 DEF KeysInv
  <2>2. ASSUME NEW y \in InMap, lru' = Touched(lru, y)
        PROVE  Lists(lru', InMap') /\ (lru' # <<>> => lru # <<>>)
    <3>1. Lists(Touched(lru, y), InMap)
      BY TouchedLists DEF KeysInv
    <3>2. lru # <<>>
      BY EmptySeq, ListIs DEF KeysInv
    <3> QED
      BY <1>3, <2>2, <3>1, <3>2
  <2> QED
    BY <1>2, <2>1, <2>2
<1>5. /\ haveData' \subseteq Tiles \X Times
      /\ \A p, q \in haveData' : p[2] = q[2] => p = q
  <2>1. CASE haveData' = haveData
    BY <2>1 DEF KeysInv
  <2>2. CASE Listen(r)
    <3>1. /\ at[r] \in Tiles /\ Filling(r) \in Tiles \X Requests
          /\ entry[Filling(r)].time \in Times
      BY <2>2 DEF Listen, ImageInv, AtEntry, ProvidingPlaces, Filling, TimesInv, EntryTimes, HasTime
    <3>2. haveData' = IF \E p \in haveData : p[2] = entry[Filling(r)].time THEN haveData
                      ELSE haveData \cup {<<at[r], entry[Filling(r)].time>>}
      BY <2>2 DEF Listen
    <3>3. CASE \E p \in haveData : p[2] = entry[Filling(r)].time
      BY <3>2, <3>3, <2>1
    <3>4. CASE ~\E p \in haveData : p[2] = entry[Filling(r)].time
      BY <3>1, <3>2, <3>4 DEF KeysInv
    <3> QED
      BY <3>3, <3>4
  <2> QED
    BY <2>1, <2>2 DEF Fill, BaseRead, BaseFailed, Provide, SetTile, Modified, Notify, Notified,
         Provided, Read, GetEntry, EntryGone, CheckReceived, CheckMissing, AddCallback,
         WaitForTile, StopWaiting, mapVars
<1> QED
  BY <1>1, <1>4, <1>5 DEF KeysInv

\* The inductive step.
LEMMA StepKeys == ImageInv /\ TimesInv /\ KeysInv /\ [Next]_vars => KeysInv'
<1> SUFFICES ASSUME ImageInv, TimesInv, KeysInv, [Next]_vars
             PROVE  KeysInv'
  OBVIOUS
<1>1. CASE UNCHANGED mapVars
  BY <1>1 DEF mapVars, KeysInv, InMap, Lists
<1>2. current \in [Tiles -> Requests \cup {None}]
  BY DEF ImageInv, FilledInv, Shape
<1> QED
  BY <1>1, <1>2, MakerKeys, OtherKeys DEF Next, Step, Tick, RequestTiles, EntriesMade, vars

-----------------------------------------------------------------------------
(* The types of the other variables.                                       *)

\* The types of the variables that the other invariants leave open.  A reader that is
\* about to look at an entry holds one.
Looking(r) == pc[r] \in {"check", "add"} => held[r] \in Tiles \X Requests
TypeInv ==
  /\ entry \in [Tiles \X Requests -> Entry]
  /\ owner \in Requests \cup {None}
  /\ expected \in [Requests -> Nat]
  /\ held \in [Requests -> (Tiles \X Requests) \cup {None}]
  /\ callback \in [Requests -> Callback]
  /\ broken \subseteq Requests
  /\ \A r \in Requests : Looking(r)

\* What a field of an entry may be set to.
Fits(name, v) ==
  \/ name = "received" /\ v \in BOOLEAN
  \/ name = "tile" /\ v \in Tiles \cup {None}
  \/ name = "retrieved" /\ v \in BOOLEAN
  \/ name = "callbacks" /\ v \in Seq(Requests)

\* An update of a field of an entry, or of none.
LEMMA FieldSet ==
  ASSUME NEW f \in [Tiles \X Requests -> Entry], NEW e, NEW name, NEW v, NEW g,
         g = [f EXCEPT ![e] = [f[e] EXCEPT ![name] = v]],
         e \in Tiles \X Requests => Fits(name, v)
  PROVE  g \in [Tiles \X Requests -> Entry]
<1>1. CASE e \in Tiles \X Requests
  <2>1. [f[e] EXCEPT ![name] = v] \in Entry
    <3>1. f[e] \in Entry
      BY <1>1
    <3> QED
      BY <1>1, <3>1 DEF Fits, Entry
  <2> QED
    BY <1>1, <2>1
<1>2. CASE e \notin Tiles \X Requests
  BY <1>2
<1> QED
  BY <1>1, <1>2

\* Making an entry.
LEMMA MakerTypes ==
  ASSUME NEW r \in Requests, NEW x \in Tiles, ImageInv, TimesInv, TypeInv, MakeEntry(r, x)
  PROVE  TypeInv'
<1>1. /\ UNCHANGED <<job, at, held, callback>>
      /\ \A q \in Requests : q # r => pc'[q] = pc[q]
      /\ pc'[r] \in {"request", "policy", "monitor"}
      /\ owner' \in {owner, None}
  BY MakerEffect
<1>2. expected' = expected /\ broken' = broken
  BY DEF MakeEntry, AlreadyRequested, Requested, EldestRemoved, EldestAbandonFails,
         HandledRemoved, HandledMissing, OldestRemoved, OldestKept, OldestMissing,
         RemoveAbandonFails, Put, PutOk, PutFails
<1>3. entry' \in [Tiles \X Requests -> Entry]
  <2>1. NewEntry(r, x) \in [Tiles \X Requests -> Entry]
    <3>1. [NoEntry EXCEPT !.time = clock] \in Entry
      BY EmptySeq DEF TimesInv, NoEntry, Entry
    <3> QED
      BY <3>1 DEF NewEntry, TypeInv
  <2>2. ASSUME NEW e, NEW cs, cs \in Seq(Requests) \/ e \notin Tiles \X Requests,
               entry' = [NewEntry(r, x) EXCEPT ![e] =
                           [NewEntry(r, x)[e] EXCEPT !["callbacks"] = cs]]
        PROVE  entry' \in [Tiles \X Requests -> Entry]
    <3>1. PICK f : f = NewEntry(r, x)
      OBVIOUS
    <3>2. f \in [Tiles \X Requests -> Entry]
      BY <2>1, <3>1
    <3>3. entry' = [f EXCEPT ![e] = [f[e] EXCEPT !["callbacks"] = cs]]
      BY <2>2, <3>1
    <3>4. e \in Tiles \X Requests => Fits("callbacks", cs)
      BY <2>2 DEF Fits
    <3> QED
      BY <3>2, <3>3, <3>4, FieldSet
  <2>3. CASE entry' = entry \/ entry' = NewEntry(r, x)
    BY <2>1, <2>3 DEF TypeInv
  <2>4. CASE EldestRemoved(r, x) \/ HandledRemoved(r, x) \/ OldestRemoved(r, x)
    <3>1. PICK e : entry' = [NewEntry(r, x) EXCEPT ![e] =
                               [NewEntry(r, x)[e] EXCEPT !["callbacks"] = <<>>]]
      BY <2>4 DEF EldestRemoved, HandledRemoved, OldestRemoved
    <3>2. <<>> \in Seq(Requests)
      BY EmptySeq
    <3> QED
      BY <2>2, <3>1, <3>2
  <2>5. CASE EldestAbandonFails(r, x)
    <3>1. PICK e : e = <<Eldest, current[Eldest]>>
      OBVIOUS
    <3>2. PICK cs : cs = entry[e].callbacks
      OBVIOUS
    <3>3. PICK n \in DOMAIN cs :
            entry' = [NewEntry(r, x) EXCEPT ![e] =
                        [NewEntry(r, x)[e] EXCEPT !["callbacks"] = SubSeq(cs, n, Len(cs))]]
      BY <2>5, <3>1, <3>2 DEF EldestAbandonFails, EntryOf
    <3>4. ASSUME e \in Tiles \X Requests
          PROVE  SubSeq(cs, n, Len(cs)) \in Seq(Requests)
      <4>1. cs \in Seq(Requests)
        BY <3>2, <3>4 DEF TypeInv, Entry
      <4>2. n \in 1..Len(cs) /\ Len(cs) \in Nat /\ \A i \in n..Len(cs) : cs[i] \in Requests
        <5>1. DOMAIN cs = 1..Len(cs) /\ Len(cs) \in Nat
          BY <4>1, LenProperties
        <5>2. \A i \in 1..Len(cs) : cs[i] \in Requests
          BY <4>1, ElementOfSeq
        <5> QED
          BY <3>3, <5>1, <5>2
      <4> QED
        BY <4>2, SubSeqProperties
    <3> QED
      BY <2>2, <3>3, <3>4
  <2> QED
    BY <2>3, <2>4, <2>5
    DEF MakeEntry, AlreadyRequested, Requested, HandledMissing, OldestKept, OldestMissing,
        RemoveAbandonFails
<1> QED
  BY <1>1, <1>2, <1>3 DEF TypeInv, Looking

\* Filling the entries.
LEMMA FillTypes ==
  ASSUME NEW r \in Requests, ImageInv, TypeInv, Fill(r)
  PROVE  TypeInv'
<1> USE DEF Go, Leave, Throw, NothingAt
<1>0. /\ pc \in [Requests -> Places]
      /\ at \in [Requests -> Tiles \cup {None}]
      /\ pc[r] \in ProvidingPlaces =>
           at[r] \in Tiles /\ current[at[r]] \in Requests /\ Filling(r) \in Tiles \X Requests
      /\ entry \in [Tiles \X Requests -> Entry]
  BY DEF ImageInv, FilledInv, Shape, ImageShape, AtEntry, Filling, TypeInv
<1>1. held' = held /\ \A q \in Requests : pc'[q] \in {"check", "add"} => pc[q] = pc'[q]
  BY <1>0 DEF Fill, BaseRead, BaseFailed, Provide, SetTile, Modified, Listen, Notify, Notified,
         Provided, readVars
<1>2. owner' \in Requests \cup {None} /\ broken' \subseteq Requests
  BY DEF Fill, BaseRead, BaseFailed, Provide, SetTile, Modified, Listen, Notify, Notified,
         Provided, readVars, fillVars, TypeInv
<1>3. ASSUME entry' \in [Tiles \X Requests -> Entry], expected' \in [Requests -> Nat],
             callback' \in [Requests -> Callback]
      PROVE  TypeInv'
  BY <1>1, <1>2, <1>3 DEF TypeInv, Looking
<1>4. CASE UNCHANGED <<entry, expected, callback>>
  BY <1>3, <1>4 DEF TypeInv
<1>5. ASSUME NEW x \in Tiles, Provide(r, x), entry' # entry
      PROVE  TypeInv'
  <2>1. PICK e : e = <<x, current[x]>>
    OBVIOUS
  <2>2. /\ entry' = [entry EXCEPT ![e] = [entry[e] EXCEPT !["received"] = TRUE]]
        /\ UNCHANGED <<expected, callback>>
    BY <1>5, <2>1 DEF Provide, readVars
  <2>3. entry' \in [Tiles \X Requests -> Entry]
    BY <1>0, <2>2, FieldSet DEF Fits
  <2> QED
    BY <1>3, <2>2, <2>3 DEF TypeInv
<1>6. CASE SetTile(r)
  <2>1. PICK e : e = Filling(r)
    OBVIOUS
  <2>2. /\ entry' = [entry EXCEPT ![e] = [entry[e] EXCEPT !["tile"] = Data(at[r])]]
        /\ expected' = [expected EXCEPT ![r] = Len(entry[e].callbacks)]
        /\ callback' = callback /\ pc[r] \in ProvidingPlaces
    BY <1>6, <2>1 DEF SetTile, readVars, ProvidingPlaces
  <2>3. Data(at[r]) \in Tiles \cup {None}
    BY <1>0, <2>2 DEF Data
  <2>4. entry' \in [Tiles \X Requests -> Entry]
    BY <1>0, <2>2, <2>3, FieldSet DEF Fits
  <2>5. Len(entry[e].callbacks) \in Nat
    <3>1. entry[e].callbacks \in Seq(Requests)
      BY <1>0, <2>1, <2>2 DEF Entry
    <3> QED
      BY <3>1, LenProperties
  <2> QED
    BY <1>3, <2>2, <2>4, <2>5 DEF TypeInv
<1>7. CASE Notify(r)
  <2>1. PICK e : e = Filling(r)
    OBVIOUS
  <2>2. PICK cs : cs = entry[e].callbacks
    OBVIOUS
  <2>3. PICK g : g = [entry EXCEPT ![e] = [entry[e] EXCEPT !["callbacks"] = Tail(cs)]]
    OBVIOUS
  <2>4. /\ entry' = [g EXCEPT ![e] = [g[e] EXCEPT !["retrieved"] = TRUE]]
        /\ expected' = [expected EXCEPT ![r] = @ - 1]
        /\ Len(cs) = expected[r] /\ cs # <<>>
        /\ callback' = [callback EXCEPT ![Head(cs)] =
             [callback[Head(cs)] EXCEPT !["tile"] = entry[e].tile, !["notified"] = TRUE]]
        /\ pc[r] \in ProvidingPlaces
    BY <1>7, <2>1, <2>2, <2>3 DEF Notify, Unmodified, ProvidingPlaces
  <2>5. e \in Tiles \X Requests /\ entry[e] \in Entry /\ cs \in Seq(Requests)
        /\ entry[e].tile \in Tiles \cup {None}
    BY <1>0, <2>1, <2>2, <2>4 DEF Entry
  <2>6. Head(cs) \in Requests /\ Tail(cs) \in Seq(Requests) /\ Len(cs) \in Nat \ {0}
    BY <2>4, <2>5, HeadTailProperties, LenProperties, EmptySeq
  <2>7. g \in [Tiles \X Requests -> Entry]
    BY <1>0, <2>3, <2>6, FieldSet DEF Fits
  <2>8. entry' \in [Tiles \X Requests -> Entry]
    BY <2>4, <2>7, FieldSet DEF Fits
  <2>9. expected' \in [Requests -> Nat]
    BY <2>4, <2>6 DEF TypeInv
  <2>10. callback' \in [Requests -> Callback]
    BY <2>4, <2>5, <2>6 DEF TypeInv, Callback
  <2> QED
    BY <1>3, <2>8, <2>9, <2>10
<1>8. CASE Modified(r) \/ Notified(r)
  <2>1. entry' = entry /\ callback' = callback /\ expected' = [expected EXCEPT ![r] = 0]
    BY <1>8 DEF Modified, Notified, readVars
  <2> QED
    BY <1>3, <2>1 DEF TypeInv
<1> QED
  BY <1>4, <1>5, <1>6, <1>7, <1>8
  DEF Fill, BaseRead, BaseFailed, Provide, Listen, Provided, readVars, fillVars

\* Reading the tile.
LEMMA ReadTypes ==
  ASSUME NEW r \in Requests, ImageInv, TypeInv, Read(r)
  PROVE  TypeInv'
<1> USE DEF Go, Leave, Answer
<1>0. /\ pc \in [Requests -> Places] /\ job \in [Requests -> Jobs]
      /\ current \in [Tiles -> Requests \cup {None}]
      /\ entry \in [Tiles \X Requests -> Entry]
  BY DEF ImageInv, FilledInv, Shape, TypeInv
<1>1. UNCHANGED <<expected, broken>> /\ owner' \in Requests \cup {None}
  BY DEF Read, GetEntry, EntryGone, CheckReceived, CheckMissing, AddCallback, WaitForTile,
         StopWaiting, fillVars, TypeInv
<1>2. CASE GetEntry(r)
  <2>1. job[r].index \in Tiles
    BY <1>0, TileAssumption DEF Job
  <2>2. <<job[r].index, current[job[r].index]>> \in Tiles \X Requests
    BY <1>0, <1>2, <2>1 DEF GetEntry
  <2>3. /\ entry' = entry /\ callback' = callback
        /\ held' = [held EXCEPT ![r] = <<job[r].index, current[job[r].index]>>]
        /\ pc' = [pc EXCEPT ![r] = "check"]
    BY <1>2 DEF GetEntry
  <2>4. \A q \in Requests : Looking(q)'
    BY <1>0, <2>2, <2>3 DEF TypeInv, Looking
  <2> QED
    BY <1>1, <2>2, <2>3, <2>4 DEF TypeInv
<1>3. CASE EntryGone(r)
  <2>1. UNCHANGED <<entry, held, callback>> /\ pc' = [pc EXCEPT ![r] = "evicted"]
    BY <1>3 DEF EntryGone, readVars
  <2> QED
    BY <1>0, <1>1, <2>1 DEF TypeInv, Looking
<1>4. CASE CheckReceived(r)
  <2>1. PICK e : e = held[r]
    OBVIOUS
  <2>2. /\ entry' = [entry EXCEPT ![e] = [entry[e] EXCEPT !["retrieved"] = TRUE]]
        /\ callback' = [callback EXCEPT ![r] =
             [callback[r] EXCEPT !["tile"] = entry[e].tile, !["notified"] = TRUE]]
        /\ held' = held /\ pc' = [pc EXCEPT ![r] = "wait"] /\ pc[r] = "check"
    BY <1>4, <2>1 DEF CheckReceived
  <2>3. e \in Tiles \X Requests
    BY <2>1, <2>2 DEF TypeInv, Looking
  <2>4. entry[e].tile \in Tiles \cup {None}
    BY <1>0, <2>3 DEF Entry
  <2>5. entry' \in [Tiles \X Requests -> Entry]
    BY <1>0, <2>2, FieldSet DEF Fits
  <2>6. callback' \in [Requests -> Callback]
    BY <2>2, <2>4 DEF TypeInv, Callback
  <2> QED
    BY <1>0, <1>1, <2>2, <2>5, <2>6 DEF TypeInv, Looking
<1>5. CASE CheckMissing(r)
  <2>1. UNCHANGED <<entry, held, callback>> /\ pc' = [pc EXCEPT ![r] = "add"] /\ pc[r] = "check"
    BY <1>5 DEF CheckMissing, readVars
  <2> QED
    BY <1>0, <1>1, <2>1 DEF TypeInv, Looking
<1>6. CASE AddCallback(r)
  <2>1. PICK e : e = held[r]
    OBVIOUS
  <2>2. PICK cs : cs = entry[e].callbacks
    OBVIOUS
  <2>3. /\ entry' = [entry EXCEPT ![e] = [entry[e] EXCEPT !["callbacks"] = Append(cs, r)]]
        /\ UNCHANGED <<held, callback>> /\ pc' = [pc EXCEPT ![r] = "wait"] /\ pc[r] = "add"
    BY <1>6, <2>1, <2>2 DEF AddCallback, readVars
  <2>4. e \in Tiles \X Requests
    BY <2>1, <2>3 DEF TypeInv, Looking
  <2>5. cs \in Seq(Requests)
    BY <1>0, <2>2, <2>4 DEF Entry
  <2>6. Append(cs, r) \in Seq(Requests)
    BY <2>5, AppendProperties
  <2>7. entry' \in [Tiles \X Requests -> Entry]
    BY <1>0, <2>3, <2>6, FieldSet DEF Fits
  <2> QED
    BY <1>0, <1>1, <2>3, <2>7 DEF TypeInv, Looking
<1>7. CASE WaitForTile(r) \/ StopWaiting(r)
  <2>1. /\ UNCHANGED <<entry, held>>
        /\ \E place \in {"done", "waiting"} : pc' = [pc EXCEPT ![r] = place]
    BY <1>7 DEF WaitForTile, StopWaiting
  <2>2. callback' = callback \/ \E b \in BOOLEAN :
          callback' = [callback EXCEPT ![r] = [callback[r] EXCEPT !["waiting"] = b]]
    <3>1. CASE WaitForTile(r)
      BY <3>1 DEF WaitForTile
    <3>2. CASE StopWaiting(r)
      BY <3>2 DEF StopWaiting
    <3> QED
      BY <1>7, <3>1, <3>2
  <2>3. callback' \in [Requests -> Callback]
    BY <2>2 DEF TypeInv, Callback
  <2> QED
    BY <1>0, <1>1, <2>1, <2>3 DEF TypeInv, Looking
<1> QED
  BY <1>2, <1>3, <1>4, <1>5, <1>6, <1>7 DEF Read

\* The inductive step.
LEMMA StepTypes == ImageInv /\ TimesInv /\ TypeInv /\ [Next]_vars => TypeInv'
<1> SUFFICES ASSUME ImageInv, TimesInv, TypeInv, [Next]_vars
             PROVE  TypeInv'
  OBVIOUS
<1>1. CASE UNCHANGED vars \/ Tick
  BY <1>1 DEF vars, Tick, mapVars, fillVars, readVars, TypeInv, Looking
<1>2. ASSUME NEW r \in Requests, RequestTiles(r) \/ EntriesMade(r)
      PROVE  TypeInv'
  <2>1. /\ UNCHANGED <<entry, expected, held, callback, broken>>
        /\ owner' \in Requests \cup {None}
        /\ \E place \in {"request", "read", "base"} : pc' = [pc EXCEPT ![r] = place]
    BY <1>2 DEF RequestTiles, EntriesMade, Go, Leave, fillVars, readVars, TypeInv
  <2>2. pc \in [Requests -> Places]
    BY DEF ImageInv, FilledInv, Shape
  <2> QED
    BY <2>1, <2>2 DEF TypeInv, Looking
<1> QED
  BY <1>1, <1>2, MakerTypes, FillTypes, ReadTypes DEF Next, Step

\* The map is empty initially.
LEMMA InitTypes == Init => KeysInv /\ TypeInv
<1> SUFFICES ASSUME Init
             PROVE  KeysInv /\ TypeInv
  OBVIOUS
<1>1. KeysInv
  <2>1. InMap = {} /\ lru = <<>>
    BY DEF Init, InMap
  <2>2. Lists(<<>>, {})
    BY EmptySeq DEF Lists, ToSet
  <2> QED
    BY <2>1, <2>2 DEF Init, KeysInv
<1>2. NoEntry \in Entry
  BY EmptySeq, TileAssumption DEF NoEntry, Entry, Times
<1> QED
  BY <1>1, <1>2 DEF Init, TypeInv, Looking, Callback

\* Every variable of the cache stays in its type, and the order of access has each tile of
\* the map once, whatever is evicted, whoever fails and however requests interleave.
THEOREM CacheTypes == Spec => []TypeOK
<1>1. ImageInv /\ TimesInv /\ KeysInv /\ TypeInv => TypeOK
  <2> SUFFICES ASSUME ImageInv, TimesInv, KeysInv, TypeInv
               PROVE  TypeOK
    OBVIOUS
  <2>1. \A x \in Tiles : current[x] # None <=> x \in ToSet(lru)
    BY DEF KeysInv, Lists, InMap
  <2> QED
    BY <2>1 DEF ImageInv, FilledInv, Shape, ImageShape, TimesInv, KeysInv, Lists, TypeInv, TypeOK
<1>2. Init => ImageInv /\ TimesInv /\ KeysInv /\ TypeInv
  BY ImageInit, InitTimes, InitTypes
<1> QED
  BY <1>1, <1>2, StepImage, StepTimes, StepKeys, StepTypes, PTL DEF Spec
=============================================================================
