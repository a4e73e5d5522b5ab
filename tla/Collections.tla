---------------------------- MODULE Collections ----------------------------
(***************************************************************************)
(* Playlists and albums: usecase/collection_usecase.go,                    *)
(* collection_repository.go and the tables of migrations/001_schema.sql.   *)
(* Every handler first reads who owns the collection (getOwned) and, to    *)
(* add an item, who owns the item; the statement that changes something is *)
(* another one, and both rows may be gone by then.  Tables are sets of     *)
(* rows.  The rows of media_items come and go by other handlers.           *)
(***************************************************************************)
EXTENDS Accounts, FiniteSetsExt

CONSTANTS
  Cols, Media,  \* IDs; uuid.New() never repeats one
  Labels,       \* collection names (with their type)
  Positions,    \* positions a client may ask for
  Requests,     \* HTTP handler goroutines
  MaxTime       \* bound: distinct times of adding at any moment

ASSUME CollectionsAssumption ==
  Media # {} /\ Positions # {} /\ MaxTime \in Nat

VARIABLES
  cols,     \* rows of collections
  members,  \* rows of collection_items, with the role that last put them there
  media,    \* rows of media_items: ID and owner
  gone,     \* IDs whose row has been deleted
  req       \* what each handler is doing

tableVars == <<cols, members, media, gone>>
collectionVars == <<tableVars, req>>

Idle == [stage |-> "idle"]
Handlers == {Idle} \cup
  [stage : {"item", "upsert", "remove", "delete"}, by : Tokens,
   col : Cols, item : Media, pos : Positions, added : 0 .. MaxTime]

Reply(r) == req' = [req EXCEPT ![r] = Idle]
In(r, stage) == req[r].stage = stage

Key(x) == <<x.col, x.item>>

\* Rows have their types and respect the unique keys of the schema, whatever
\* statements overlapped.
CollectionsTypeOK ==
  /\ cols \subseteq [id : Cols, owner : Users, name : Labels]
  /\ members \subseteq [col : Cols, item : Media, pos : Positions,
                         added : Nat, via : Roles]
  /\ media \subseteq [id : Media, owner : Users]
  /\ gone \subseteq Cols \cup Media
  /\ req \in [Requests -> Handlers]
  /\ \A x, y \in cols : x.id = y.id \/ (x.owner = y.owner /\ x.name = y.name) => x = y
  /\ \A x, y \in members : Key(x) = Key(y) => x = y

CollectionsInit ==
  /\ cols = {} /\ members = {} /\ media = {} /\ gone = {}
  /\ req = [r \in Requests |-> Idle]

Exists(table, id) == \E x \in table : x.id = id
Fresh(table, id) == ~Exists(table, id) /\ id \notin gone

\* Owners, and whoever logged in as an admin.
MayTouch(t, row) == row.owner = t.uid \/ t.role = "admin"
-----------------------------------------------------------------------------
\* UNIQUE (user_id, name, type).
Taken(u, n) == \E x \in cols : x.owner = u /\ x.name = n

\* POST /collections: one INSERT, which the unique key may refuse.
CreateCollection(t, c, n) ==
  /\ Fresh(cols, c) /\ ~Taken(t.uid, n)
  /\ cols' = cols \cup {[id |-> c, owner |-> t.uid, name |-> n]}
  /\ UNCHANGED <<members, media, gone, req>>

\* Handler r has found collection x and goes on to the given stage.
Found(r, t, x, stage, m, p) ==
  req' = [req EXCEPT ![r] = [stage |-> stage, by |-> t, col |-> x.id,
                             item |-> m, pos |-> p, added |-> 0]]

AnyItem == CHOOSE m \in Media : TRUE
AnyPosition == CHOOSE p \in Positions : TRUE

\* Mutant: RemoveItem looks for the collection but not at its owner.
BeginLoosely(r, t) == \E x \in cols :
  /\ In(r, "idle")
  /\ \/ \E m \in Media, p \in Positions : MayTouch(t, x) /\ Found(r, t, x, "item", m, p)
     \/ \E m \in Media : Found(r, t, x, "remove", m, AnyPosition)
     \/ MayTouch(t, x) /\ Found(r, t, x, "delete", AnyItem, AnyPosition)
  /\ UNCHANGED tableVars

\* POST .../items, DELETE .../items/{mediaID} and DELETE /collections/{id} up
\* to the end of getOwned: the row is there and its owner right.
\* Otherwise the handler answers with an error and nothing changes.
Begin(r, t) == \E x \in cols :
  /\ In(r, "idle") /\ MayTouch(t, x)
  /\ \/ \E m \in Media, p \in Positions : Found(r, t, x, "item", m, p)
     \/ \E m \in Media : Found(r, t, x, "remove", m, AnyPosition)
     \/ Found(r, t, x, "delete", AnyItem, AnyPosition)
  /\ UNCHANGED tableVars

\* The clock moves on between any two adds; only the order of times matters.
Now == 1 + Max({0} \cup {x.added : x \in members}
                  \cup {req[r].added : r \in {q \in Requests : In(q, "upsert")}})

\* Mutant: AddItem only checks that the media item exists.
FindItemLoosely(r) ==
  /\ In(r, "item")
  /\ IF Exists(media, req[r].item)
     THEN Now <= MaxTime /\ req' = [req EXCEPT ![r].stage = "upsert", ![r].added = Now]
     ELSE Reply(r)
  /\ UNCHANGED tableVars

\* AddItem's second check, and the time it takes with it.
FindItem(r) ==
  /\ In(r, "item")
  /\ IF \E m \in media : m.id = req[r].item /\ MayTouch(req[r].by, m)
     THEN Now <= MaxTime /\ req' = [req EXCEPT ![r].stage = "upsert", ![r].added = Now]
     ELSE Reply(r)
  /\ UNCHANGED tableVars

Row(q, added) ==
  [col |-> q.col, item |-> q.item, pos |-> q.pos, added |-> added, via |-> q.by.role]
Added(q) == {x \in members : Key(x) = Key(q)}

\* Mutant: a plain INSERT, on a table without its primary key.
InsertTwice(r) ==
  /\ In(r, "upsert")
  /\ IF Exists(cols, req[r].col) /\ Exists(media, req[r].item)
     THEN members' = members \cup {Row(req[r], req[r].added)}
     ELSE UNCHANGED members
  /\ Reply(r)
  /\ UNCHANGED <<cols, media, gone>>

\* Mutant: the upsert takes over the new time as well as the position.
UpsertAnew(r) ==
  /\ In(r, "upsert")
  /\ IF Exists(cols, req[r].col) /\ Exists(media, req[r].item)
     THEN members' = (members \ Added(req[r])) \cup {Row(req[r], req[r].added)}
     ELSE UNCHANGED members
  /\ Reply(r)
  /\ UNCHANGED <<cols, media, gone>>

\* INSERT ... ON CONFLICT DO UPDATE SET position: an item that is there keeps
\* its time.  The foreign keys refuse a row whose collection or item is gone.
Upsert(r) ==
  /\ In(r, "upsert")
  /\ LET q == req[r]
         there == Added(q)
         times == IF there = {} THEN {q.added} ELSE {x.added : x \in there}
     IN IF Exists(cols, q.col) /\ Exists(media, q.item)
        THEN members' = (members \ there) \cup {Row(q, t) : t \in times}
        ELSE UNCHANGED <<members>>
  /\ Reply(r)
  /\ UNCHANGED <<cols, media, gone>>

\* DELETE FROM collection_items; no row answers "not found".
RemoveItem(r) ==
  /\ In(r, "remove")
  /\ members' = members \ Added(req[r])
  /\ Reply(r)
  /\ UNCHANGED <<cols, media, gone>>

\* DELETE FROM collections, and its items with it.
DeleteCollection(r) ==
  /\ In(r, "delete")
  /\ cols' = {x \in cols : x.id # req[r].col}
  /\ members' = {x \in members : x.col # req[r].col}
  /\ gone' = gone \cup {req[r].col}
  /\ Reply(r)
  /\ UNCHANGED <<media>>

Handle(r) == FindItem(r) \/ Upsert(r) \/ RemoveItem(r) \/ DeleteCollection(r)
-----------------------------------------------------------------------------
\* Uploads and deletions of media items; a deleted one leaves its collections.
AddMedia(m, u) ==
  /\ Fresh(media, m) /\ \E a \in accounts : a.id = u
  /\ media' = media \cup {[id |-> m, owner |-> u]}
  /\ UNCHANGED <<cols, members, gone, req>>

DeleteMedia(m) ==
  /\ Exists(media, m)
  /\ media' = {x \in media : x.id # m}
  /\ members' = {x \in members : x.item # m}
  /\ gone' = gone \cup {m}
  /\ UNCHANGED <<cols, req>>

\* A process that dies takes its handlers with it.
DropRequests ==
  /\ req' = [r \in Requests |-> Idle]
  /\ UNCHANGED tableVars
-----------------------------------------------------------------------------
\* What a collection holds exists and belongs to the collection's owner,
\* unless someone logged in as an admin put it there: no delete can slip
\* between the two ownership checks and the insert.
ItemsOfOwner == \A x \in members : \E c \in cols, m \in media :
  /\ c.id = x.col /\ m.id = x.item
  /\ c.owner = m.owner \/ x.via = "admin"

\* The order of ListItems: by position, then by the time of adding.
Before(x, y) == x.pos < y.pos \/ (x.pos = y.pos /\ x.added < y.added)
=============================================================================
