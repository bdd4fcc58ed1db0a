------------------------------ MODULE FlowView ------------------------------
(***************************************************************************)
(* The flow view of the Influent client: views/infFlowView.js and the      *)
(* objects of its workspace (lib/models/xfWorkspace.js, xfColumn.js,       *)
(* xfFile.js, xfImmutableCluster.js).  The workspace is a row of columns   *)
(* that hold cards and files; a file holds a cluster of cards.  Columns    *)
(* and files are also contexts of the server, whose members the view edits *)
(* by requests: a handler changes the view now or when the answer comes.   *)
(*                                                                         *)
(* infRest serves most requests as SerialRequests says: those of a context *)
(* one by one, in order, until a callback throws.  Requests for entities   *)
(* are immediate: they neither wait for the others of their context nor    *)
(* hold them up, and are answered in any order.                            *)
(* Every card is an account: clusters of the server, match cards and       *)
(* charts are left out, and every request succeeds.                        *)
(***************************************************************************)
EXTENDS Naturals, FiniteSets, Sequences, SequencesExt

CONSTANTS
  Accounts,
  Flow,         \* who paid whom: pairs <<source, destination>>
  Restored,     \* the accounts in each inner column of the workspace that a patient
                \* user restores, and another one
  Filed,        \* accounts in a file that its first one may have
  Files,        \* the files ever made
  MaxColumns,   \* bounds the columns ever made: enough for MaxActs
  MaxActs,      \* bounds what the user does
  None, Gone

Columns == 1..MaxColumns
Contexts == Columns \cup Files

\* Cards of one home and account are told apart by a number.
Card == [home : Contexts, account : Accounts, nr : Nat]

ASSUME FlowAssumption ==
  /\ Flow \subseteq Accounts \X Accounts
  /\ Restored \in [BOOLEAN -> Seq(SUBSET Accounts) \ {<<>>}]
  /\ \A p \in BOOLEAN : Len(Restored[p]) = 1 \/ {} \notin Range(Restored[p])
  /\ Filed \subseteq Accounts /\ Filed # {} /\ Files # {}
  /\ IsFiniteSet(Accounts) /\ IsFiniteSet(Files)
  /\ MaxActs \in Nat /\ MaxColumns \in Nat /\ \A p \in BOOLEAN : MaxColumns >= Len(Restored[p]) + 2
  /\ \A f \in Files : f \notin Columns /\ f \notin Card
  /\ None # Gone /\ None \notin Contexts /\ Gone \notin Contexts
  /\ \A ids \in SUBSET Accounts : None # ids /\ \A f \in Files : None # [file |-> f, ids |-> ids]

VARIABLES
  patient,   \* this user leaves alone what requests still work on
  acts,      \* how much the user did
  columns,   \* the workspace's children
  made,      \* columns made so far
  place,     \* file -> its column; None before it is made, Gone once disposed
  cluster,   \* file -> which cluster it holds; 0 for none
  shown,     \* the cards in the workspace
  hidden,    \* cards and files that are not drawn: they wait for their removal
  server,    \* context -> its members at the server
  immediate, \* the requests that wait for no others of their context
  queue,     \* context -> its other requests, in order: the first one is served
  reply,     \* context -> the answer to the first, None before it was served
  stuck      \* contexts whose requests stopped: a callback threw

viewVars == <<columns, made, place, cluster, shown, hidden>>
vars == <<patient, acts, viewVars, server, immediate, queue, reply, stuck>>

In(c, cards) == {o \in cards : o.home = c}
Members(c) == In(c, shown)
AccountsOf(cards) == {o.account : o \in cards}
Live(f) == place[f] \in Columns
FilesIn(c) == {f \in Files : place[f] = c}
ColumnOf(c) == IF c \in Files THEN place[c] ELSE c
Index(c) == CHOOSE i \in DOMAIN columns : columns[i] = c
NextTo(c, right) == columns[IF right THEN Index(c) + 1 ELSE Index(c) - 1]
Neighbours(a, right) == {b \in Accounts : (IF right THEN <<a, b>> ELSE <<b, a>>) \in Flow}

\* Requests, with what their callbacks remember.  The files' requests of
\* _onAddFilesToWorkspace have no card: they insert accounts, and "fill" the file.
Branching(o, right) == [op |-> "branch", card |-> o, right |-> right]
Removing(o, move) == [op |-> "remove", card |-> o, move |-> move]
Clearing(ids) == [op |-> "clear", ids |-> ids]
Creating(f, ids) == [op |-> "create", file |-> f, ids |-> ids]
Filling(ids) == [op |-> "fill", ids |-> ids]
Inserting(o) == [op |-> "insert", card |-> o]
Deleting(f) == [op |-> "delete", file |-> f]
Linking(c, d, t, found) == [op |-> "links", ends |-> {c, d}, to |-> t, found |-> found]
\* For entities: the n-th cluster of file f, and what f got when card o left it.
Expanding(f, n) == [op |-> "expand", file |-> f, nr |-> n]
Detailing(f, o, move) == [op |-> "details", file |-> f, card |-> o, move |-> move]
Immediate(r) == r.op \in {"expand", "details"}

Pending == immediate \cup UNION {Range(queue[c]) : c \in Contexts}
HeldCards == {r.card : r \in {q \in Pending : q.op \in {"branch", "remove", "insert", "details"}}}
HeldClusters(f) == {r.nr : r \in {q \in immediate : q.op = "expand" /\ q.file = f}}
Fresh(taken) == CHOOSE n \in 1..(Cardinality(taken) + 1) : n \notin taken
\* A new card differs from those that callbacks remember.
NewCard(c, a) ==
  [home |-> c, account |-> a,
   nr |-> Fresh({o.nr : o \in {h \in HeldCards : h.home = c /\ h.account = a}})]
NewCards(c, ids) == {NewCard(c, a) : a \in ids}

Nothing == [c \in Contexts |-> <<>>]
Only(c, requests) == [Nothing EXCEPT ![c] = requests]

\* What the view asks for when a user acts.
Adding(asked) == queue' = [c \in Contexts |-> queue[c] \o asked[c]] /\ UNCHANGED immediate

\* Request r of c was answered, and its callback asked for more.
Finished(c, r, asked, now) ==
  /\ queue' = [d \in Contexts |->
        (IF d = c /\ ~Immediate(r) THEN Tail(queue[d]) ELSE queue[d]) \o asked[d]]
  /\ immediate' = (immediate \ {r}) \cup now
Done(c, r, asked) == Finished(c, r, asked, {}) /\ UNCHANGED stuck
Sends(c, r, q) == Finished(c, r, Nothing, {q}) /\ UNCHANGED stuck
\* Its callback throws: its context stays locked, unless the request is immediate.
Throws(c, r) ==
  /\ immediate' = immediate \ {r} /\ UNCHANGED queue
  /\ stuck' = IF Immediate(r) THEN stuck ELSE stuck \cup {c}

-----------------------------------------------------------------------------
\* The objects of the workspace; what was hidden and is disposed is forgotten.
Show(cards, places, clusters) ==
  /\ shown' = cards /\ place' = places /\ cluster' = clusters
  /\ hidden' = hidden \cap (cards \cup {f \in Files : places[f] \in Columns})

\* A row without the columns outside S, in order.
Restricted(row, S) ==
  LET upTo[i \in 0..Len(row)] ==
        IF i = 0 THEN <<>>
        ELSE IF row[i] \in S THEN Append(upTo[i - 1], row[i]) ELSE upTo[i - 1]
  IN upTo[Len(row)]

\* _pruneColumns: the row without its empty inner columns, but with an empty column at
\* each end; at least three.  New columns are numbered from n + 1.
Pruned(row, n, cards, places) ==
  LET first == row[1]
      last == row[Len(row)]
      occupied == {c \in Columns : In(c, cards) # {} \/ \E f \in Files : places[f] = c}
      kept == Restricted(row, {first, last} \cup occupied)
      third == IF Len(kept) < 3 THEN <<n + 1>> ELSE <<>>
      left == IF first \in occupied THEN <<n + Len(third) + 1>> ELSE <<>>
      right == IF last \in occupied THEN <<n + Len(third) + Len(left) + 1>> ELSE <<>>
  IN left \o kept \o third \o right
Newest(row) == CHOOSE n \in Range(row) \cup {made} : \A c \in Range(row) \cup {made} : c <= n
\* Mutant: no column is added at the left end.
PruneLeft ==
  /\ columns' = (LET row == Pruned(columns, made, shown', place')
                 IN IF In(row[1], shown') = {} /\ row[1] > made THEN Tail(row) ELSE row)
  /\ made' = Newest(columns')

Prune ==
  /\ columns' = Pruned(columns, made, shown', place')
  /\ made' = Newest(columns') /\ made' <= MaxColumns

\* _updateLinks, for objects of column c: links to the next column, then to the previous
\* one, between each context with such objects and each one with cards there.
LinksAsked(objects, c) ==
  LET row == columns'
      at == CHOOSE i \in DOMAIN row : row[i] = c
      CardsAt(d) == {o \in shown' : o.home = d \/ (o.home \in Files /\ place'[o.home] = d)}
      Asked(s, right) ==
        LET d == row[IF right THEN at + 1 ELSE at - 1]
            Found(t) == \E o \in In(s, objects), p \in In(t, CardsAt(d)) :
                           p.account \in Neighbours(o.account, right)
        IN SetToSeq({Linking(c, d, t, Found(t)) : t \in {o.home : o \in CardsAt(d)}})
  IN [s \in Contexts |->
        IF In(s, objects) = {} THEN <<>> ELSE Asked(s, TRUE) \o Asked(s, FALSE)]

\* A workspace is restored, pruned as it was saved: cards in the inner columns, and maybe
\* a file in the first of them.
Init ==
  /\ patient \in BOOLEAN /\ acts = 0
  /\ made = Len(Restored[patient]) + 2 /\ columns = [i \in 1..made |-> i]
  /\ \E old \in {{}, {CHOOSE f \in Files : TRUE}} :
       LET cards == [c \in Contexts |-> IF c \in 2..(made - 1) THEN Restored[patient][c - 1]
                                        ELSE IF c \in old THEN Filed ELSE {}]
       IN /\ place = [f \in Files |-> IF f \in old THEN 2 ELSE None]
          /\ cluster = [f \in Files |-> IF f \in old THEN 1 ELSE 0]
          /\ shown = {o \in [home : 2..(made - 1) \cup old, account : Accounts, nr : {1}] : o.account \in cards[o.home]}
          /\ server = cards
  /\ hidden = {}
  /\ immediate = {} /\ queue = Nothing
  /\ reply = [c \in Contexts |-> None]
  /\ stuck = {}

-----------------------------------------------------------------------------
(* What the user does. *)

Near(c) ==
  {d \in Contexts : \E i \in DOMAIN columns :
     columns[i] = ColumnOf(d) /\ Index(c) \in {i - 1, i, i + 1}}
\* What requests work on: their contexts, their cards' and those that cards move to.
Moves == {r.move : r \in {q \in Pending : q.op \in {"remove", "details"}}} \ {None}
Busy ==
  {c \in Contexts : queue[c] # <<>>} \cup {r.file : r \in immediate}
    \cup {o.home : o \in HeldCards} \cup {m.file : m \in Moves}
Free(c) == patient => Near(c) \cap Busy = {}

Act(c) ==
  /\ acts < MaxActs /\ Free(c)
  /\ acts' = acts + 1
  /\ UNCHANGED <<patient, server, reply, stuck>>
Hide(objects) == hidden' = hidden \cup objects

\* The toolbar shows a branch that is under way.
Branch(o, right) ==
  /\ o \notin hidden /\ Branching(o, right) \notin Pending
  /\ Act(ColumnOf(o.home)) /\ Free(NextTo(ColumnOf(o.home), right))
  /\ Adding(Only(NextTo(ColumnOf(o.home), right), <<Branching(o, right)>>))
  /\ UNCHANGED viewVars

\* Mutant: the card is disposed before its removal is answered.
RemoveCardFirst(o) ==
  /\ o \notin hidden
  /\ Act(ColumnOf(o.home))
  /\ Show(shown \ {o}, place, cluster)
  /\ Adding(Only(o.home, <<Removing(o, None)>>))
  /\ UNCHANGED <<columns, made>>

RemoveCard(o) ==
  /\ o \notin hidden
  /\ Act(ColumnOf(o.home))
  /\ Hide({o})
  /\ Adding(Only(o.home, <<Removing(o, None)>>))
  /\ UNCHANGED <<columns, made, place, cluster, shown>>

\* All cards of the column that are in no file, hidden ones too.
CleanColumn(c) ==
  /\ Members(c) # {}
  /\ Act(c)
  /\ Hide(Members(c))
  /\ Adding(Only(c, SetToSeq({Removing(o, None) : o \in Members(c)})
                      \o <<Clearing(AccountsOf(Members(c)))>>))
  /\ UNCHANGED <<columns, made, place, cluster, shown>>

Unmade == {f \in Files : place[f] = None}
NewFile == CHOOSE f \in Unmade : TRUE

\* A file for card o, which is then added to it.
CreateFile(o) ==
  /\ o \notin hidden /\ o.home \in Columns /\ Unmade # {}
  /\ Act(o.home)
  /\ place' = [place EXCEPT ![NewFile] = o.home]
  /\ Hide({o})
  /\ Adding([Only(o.home, <<Creating(NewFile, {})>>) EXCEPT ![NewFile] = <<Inserting(o)>>])
  /\ UNCHANGED <<columns, made, cluster, shown>>

\* An empty file in a column, be it one of the empty columns at the ends.
CreateEmpty(c) ==
  /\ Unmade # {}
  /\ Act(c)
  /\ Show(shown, [place EXCEPT ![NewFile] = c], cluster)
  /\ Prune
  /\ Adding(Only(c, <<Creating(NewFile, {})>>))

AddToFile(o, f) ==
  /\ o \notin hidden /\ Live(f) /\ f \notin hidden /\ o.home # f
  /\ Act(ColumnOf(o.home)) /\ Free(place[f])
  /\ Hide({o})
  /\ Adding(Only(f, <<Inserting(o)>>))
  /\ UNCHANGED <<columns, made, place, cluster, shown>>

RemoveFile(f) ==
  /\ Live(f) /\ f \notin hidden
  /\ Act(place[f])
  /\ Hide({f})
  /\ Adding(Only(place[f], <<Deleting(f)>>))
  /\ UNCHANGED <<columns, made, place, cluster, shown>>

\* _onAddFilesToWorkspace, for one file: it comes to the column of the selected object
\* or to the middle one.
AddFile(ids) ==
  LET row == Pruned(columns, made, shown, place)
      middle == row[(Len(row) + 1) \div 2]
      used == {c \in Range(row) : In(c, shown) # {} \/ FilesIn(c) # {}}
  IN /\ Unmade # {}
     /\ \E c \in {middle} \cup used :
          /\ c \in Range(columns) /\ Act(c)
          /\ Show(shown, [place EXCEPT ![NewFile] = c], cluster)
          /\ columns' = Pruned(row, Newest(row), shown', place')
          /\ made' = Newest(columns') /\ {Newest(row), made'} \subseteq Columns
          /\ Adding(Only(c, <<Creating(NewFile, ids)>>))

-----------------------------------------------------------------------------
(* The server: ModifyContextResource, RelatedLinkResource and others. *)

Added(r) ==
  CASE r.op = "branch" -> Neighbours(r.card.account, r.right)
    [] r.op = "insert" -> {r.card.account}
    [] r.op = "fill" -> r.ids
    [] OTHER -> {}
Taken(r) ==
  CASE r.op = "remove" -> {r.card.account}
    [] r.op = "clear" -> r.ids
    [] OTHER -> {}

Serve(c) ==
  /\ queue[c] # <<>> /\ c \notin stuck /\ reply[c] = None
  /\ LET r == Head(queue[c]) IN
       server' = [d \in Contexts |->
         IF r.op = "delete" /\ d = r.file THEN {}
         ELSE IF d = c THEN (server[d] \ Taken(r)) \cup Added(r) ELSE server[d]]
  /\ reply' = [reply EXCEPT ![c] = server'[c]]
  /\ UNCHANGED <<patient, acts, viewVars, immediate, queue, stuck>>

-----------------------------------------------------------------------------
(* The callbacks: c is the request's context, r the request, ids its answer. *)

\* Mutant: the answer fills the column on the other side.
BranchDoneTurned(c, r, ids) ==
  LET t == NextTo(ColumnOf(r.card.home), ~r.right)
      filed == {o \in shown : o.home \in FilesIn(t) /\ o.account \in ids}
      cards == NewCards(t, ids \ AccountsOf(filed))
  IN IF r.card \notin shown \/ ids = {} THEN Done(c, r, Nothing) /\ UNCHANGED viewVars
     ELSE /\ Show((shown \ Members(t)) \cup cards, place, cluster)
          /\ Prune
          /\ Done(c, r, LinksAsked(cards \cup filed, t))

\* The answer fills the column that is next to the card's now.  Accounts that a file
\* there holds get no card; all other cards there are made anew.
BranchDone(c, r, ids) ==
  LET t == NextTo(ColumnOf(r.card.home), r.right)
      filed == {o \in shown : o.home \in FilesIn(t) /\ o.account \in ids}
      cards == NewCards(t, ids \ AccountsOf(filed))
  IN IF r.card \notin shown \/ ids = {} THEN Done(c, r, Nothing) /\ UNCHANGED viewVars
     ELSE /\ Show((shown \ Members(t)) \cup cards, place, cluster)
          /\ Prune
          /\ Done(c, r, LinksAsked(cards \cup filed, t))

\* Mutant: the old cluster is not disposed.
InstallBeside(c, r, f, ids, cards, clusters) ==
  /\ Show(cards \cup {[o EXCEPT !.nr = 9] : o \in NewCards(f, ids)}, place,
          [clusters EXCEPT ![f] = Fresh(HeldClusters(f))])
  /\ Sends(c, r, Expanding(f, cluster'[f]))

\* File f gets a new cluster, which is expanded.
Install(c, r, f, ids, cards, clusters) ==
  /\ Show((cards \ In(f, cards)) \cup NewCards(f, ids), place,
          [clusters EXCEPT ![f] = Fresh(HeldClusters(f))])
  /\ Sends(c, r, Expanding(f, cluster'[f]))

\* The card that was moved appears in its file, as the answer to its insertion told.
Arrive(c, r, move, cards, clusters) ==
  IF Live(move.file) THEN Install(c, r, move.file, move.ids, cards, clusters)
  ELSE Show(cards, place, clusters) /\ Throws(c, r)

\* What follows a removal.
Continue(c, r, cards, clusters) ==
  \/ r.move = None /\ Show(cards, place, clusters) /\ Done(c, r, Nothing)
  \/ r.move # None /\ Arrive(c, r, r.move, cards, clusters)

Unpruned == UNCHANGED <<columns, made>>

\* Mutant: the last card of a file stays in the view.
RemoveDoneKept(c, r, ids) ==
  LET kept == {o \in Members(c) : o.account \in ids}
      cards == (shown \ Members(c)) \cup kept
  IN \/ r.card \notin shown /\ Throws(c, r) /\ UNCHANGED viewVars
     \/ /\ r.card \in shown /\ c \in Columns
        /\ Continue(c, r, shown \ {r.card}, cluster)
        /\ Prune
     \/ /\ r.card \in shown /\ c \in Files /\ Unpruned
        /\ Continue(c, r, IF ids = {} THEN shown ELSE cards, cluster)

\* A card of a column leaves the view; of a file, the cluster follows the server's.  A
\* card that was disposed meanwhile throws.
RemoveDone(c, r, ids) ==
  LET kept == {o \in Members(c) : o.account \in ids}
      new == NewCards(c, ids \ AccountsOf(kept))
      cards == (shown \ Members(c)) \cup kept \cup new
  IN \/ r.card \notin shown /\ Throws(c, r) /\ UNCHANGED viewVars
     \/ /\ r.card \in shown /\ c \in Columns
        /\ Continue(c, r, shown \ {r.card}, cluster)
        /\ Prune
     \/ /\ r.card \in shown /\ c \in Files /\ Unpruned
        /\ IF ids = {} THEN Continue(c, r, shown \ Members(c), [cluster EXCEPT ![c] = 0])
           ELSE IF new = {} THEN Continue(c, r, cards, cluster)
           ELSE Show(cards, place, cluster) /\ Sends(c, r, Detailing(c, r.card, r.move))

\* Mutant: the file shows its members at once, the card stays where it was.
InsertDoneOnly(c, r, ids) == Unpruned /\ Arrive(c, r, [file |-> c, ids |-> ids], shown, cluster)

\* The card is at the server's file now: it is removed where it was.
InsertDone(c, r, ids) ==
  LET move == [file |-> c, ids |-> ids] IN
  /\ Unpruned
  /\ IF r.card \in shown THEN /\ Done(c, r, Only(r.card.home, <<Removing(r.card, move)>>))
                              /\ UNCHANGED <<place, cluster, shown, hidden>>
     ELSE Arrive(c, r, move, shown, cluster)

FillDone(c, r, ids) ==
  /\ Unpruned
  /\ IF Live(c) THEN Install(c, r, c, ids, shown, cluster)
     ELSE Done(c, r, Nothing) /\ UNCHANGED <<place, cluster, shown, hidden>>

\* Mutant: the cards of the file outlive it.
DeleteDoneCards(c, r) ==
  /\ Show(shown, [place EXCEPT ![r.file] = Gone], [cluster EXCEPT ![r.file] = 0])
  /\ Prune
  /\ Done(c, r, Nothing)

DeleteDone(c, r) ==
  /\ Show(shown \ Members(r.file), [place EXCEPT ![r.file] = Gone], [cluster EXCEPT ![r.file] = 0])
  /\ Prune
  /\ Done(c, r, Nothing)

CreateDone(c, r) ==
  /\ Done(c, r, IF r.ids = {} THEN Nothing ELSE Only(r.file, <<Filling(r.ids)>>))
  /\ UNCHANGED viewVars

DetailsDone(c, r) ==
  \/ ~Live(c) /\ Throws(c, r) /\ UNCHANGED viewVars
  \/ Live(c) /\ Unpruned /\ Continue(c, r, shown, cluster)

ExpandDone(c, r) ==
  /\ UNCHANGED viewVars
  /\ IF cluster[c] = r.nr THEN Done(c, r, LinksAsked(Members(c), place[c])) ELSE Throws(c, r)

\* Links are drawn between the columns, which should be there still.
LinksDone(c, r) ==
  /\ IF r.found => r.ends \subseteq Range(columns) THEN Done(c, r, Nothing) ELSE Throws(c, r)
  /\ UNCHANGED viewVars

Answer(c) ==
  /\ reply[c] # None
  /\ reply' = [reply EXCEPT ![c] = None]
  /\ UNCHANGED <<patient, acts, server>>
  /\ LET r == Head(queue[c]) IN
       \/ r.op = "branch" /\ BranchDone(c, r, reply[c])
       \/ r.op = "remove" /\ RemoveDone(c, r, reply[c])
       \/ r.op = "clear" /\ Done(c, r, Nothing) /\ UNCHANGED viewVars
       \/ r.op = "insert" /\ InsertDone(c, r, reply[c])
       \/ r.op = "fill" /\ FillDone(c, r, reply[c])
       \/ r.op = "delete" /\ DeleteDone(c, r)
       \/ r.op = "create" /\ CreateDone(c, r)
       \/ r.op = "links" /\ LinksDone(c, r)

AnswerNow(r) ==
  /\ UNCHANGED <<patient, acts, server, reply>>
  /\ \/ r.op = "details" /\ DetailsDone(r.file, r)
     \/ r.op = "expand" /\ ExpandDone(r.file, r)

Next ==
  \/ \E o \in shown : \/ \E right \in BOOLEAN : Branch(o, right)
                       \/ RemoveCard(o) \/ CreateFile(o)
                       \/ \E f \in Files : AddToFile(o, f)
  \/ \E c \in Range(columns) : CleanColumn(c) \/ CreateEmpty(c)
  \/ \E f \in Files : RemoveFile(f)
  \/ \E ids \in SUBSET Accounts : AddFile(ids)
  \/ \E c \in Contexts : Serve(c) \/ Answer(c)
  \/ \E r \in immediate : AnswerNow(r)

Spec == Init /\ [][Next]_vars

\* As SerialRequests promises, every request is served and answered in its turn; those that
\* wait for no others are answered, too.
FairSpec ==
  /\ Spec /\ \A c \in Contexts : WF_vars(Serve(c) \/ Answer(c))
  /\ WF_vars(\E r \in immediate : AnswerNow(r))

-----------------------------------------------------------------------------
\* Shapes; what is shown is in the workspace, and its columns differ.
TypeOK ==
  /\ patient \in BOOLEAN /\ acts \in 0..MaxActs /\ made \in Columns
  /\ columns \in Seq(1..made) /\ IsInjective(columns)
  /\ place \in [Files -> Range(columns) \cup {None, Gone}]
  /\ cluster \in [Files -> Nat]
  /\ shown \subseteq Card /\ \A o \in shown : ColumnOf(o.home) \in Range(columns)
  /\ hidden \subseteq shown \cup {f \in Files : Live(f)}
  /\ server \in [Contexts -> SUBSET Accounts]
  /\ reply \in [Contexts -> (SUBSET Accounts) \cup {None}]
  /\ stuck \subseteq Contexts
  /\ \A r \in immediate : Immediate(r) /\ r.file \in Files

\* Whatever the user does and in whatever order answers come, there is an empty column at
\* each end (_pruneColumns): a card always has a column to branch into, and links have a
\* next and a previous column to go to.
EndsEmpty ==
  /\ Len(columns) >= 3
  /\ \A c \in {columns[1], columns[Len(columns)]} : Members(c) = {} /\ FilesIn(c) = {}

\* A column or file shows an account once, however the answers of branches, moves and
\* removals mix (_handleBranchingServerResponse, setClusterUIObject, update).
OneCard == \A o, p \in shown : o.home = p.home /\ o.account = p.account => o = p

\* What is not drawn any more is not forgotten: there is still the request whose answer
\* removes it, or leads to its removal (_onRemoveRequest, _onAddCardToContainer).  It stays
\* hidden for good only if that request is behind one whose callback threw.
HiddenPending ==
  \A h \in hidden : \E r \in Pending :
    IF h \in Files THEN r = Deleting(h)
    ELSE r.op \in {"remove", "insert"} /\ r.card = h

Idle == immediate = {} /\ \A c \in Contexts : queue[c] = <<>>

\* If the user acts on a column, or branches or moves a card into it, only while no request
\* works on it, on its two neighbours or on their files, then no callback throws: none works
\* on a card, a cluster, a file or a column that was disposed before its answer came.  So no
\* context stops, and what is to be expanded is always the cluster its file shows.
NoneStuck == patient => stuck = {} /\ \A r \in immediate : r = Expanding(r.file, cluster[r.file])

\* Such a user sees no card that the server's context does not hold: each can be branched,
\* moved and removed.
Agree == patient /\ Idle => \A o \in shown : o.account \in server[o.home]

\* Such a user sees exactly the accounts of a file that the server holds: no move is lost.
FilesAgree ==
  patient /\ Idle => \A f \in Files : Live(f) => AccountsOf(Members(f)) = server[f]

\* For such a user the view comes to rest: every request is answered, those that callbacks
\* made too, and what was hidden is gone.
Settles == patient ~> Idle /\ hidden = {}
=============================================================================
