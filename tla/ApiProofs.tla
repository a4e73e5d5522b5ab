----------------------------- MODULE ApiProofs -----------------------------
(***************************************************************************)
(* Proofs about Api, Migrations, Accounts and Collections for every number *)
(* of files, accounts, collections, items, handlers, stops and restarts.   *)
(***************************************************************************)
EXTENDS Api, WellFoundedInduction, TLAPS

-----------------------------------------------------------------------------
(* Each step of the server is a step of one of its parts.                  *)

\* Only the start, the stop and Migrate itself touch what Migrate keeps.
LEMMA MigrationSteps ==
  [Next]_vars => Boot \/ Migrate \/ Serve \/ Stop \/ UNCHANGED migrationVars
BY DEF Next, vars, Starting, Stopping, AuthRequest, CollectionRequest, MediaRequest, Outside

\* Accounts, tokens and the secret change by these operations only.
LEMMA AccountSteps ==
  [Next]_vars =>
    \/ \E u \in Users, n \in Names : Register(u, n)
    \/ \E n \in Names : Login(n)
    \/ \E t \in tokens : Lapse(t)
    \/ \E a \in accounts, role \in Roles : SetRole(a, role)
    \/ Boot /\ LoadSecret
    \/ UNCHANGED accountVars
BY DEF Next, vars, Starting, Stopping, AuthRequest, CollectionRequest, MediaRequest, Outside

\* Collections, their items and the handlers change by these only.
LEMMA CollectionSteps ==
  [Next]_vars =>
    \/ \E t \in Callers, c \in Cols, n \in Labels : CreateCollection(t, c, n)
    \/ \E r \in Requests, t \in Callers : Begin(r, t)
    \/ \E r \in Requests : Handle(r)
    \/ \E m \in Media, u \in Users : AddMedia(m, u)
    \/ \E m \in Media : DeleteMedia(m)
    \/ DropRequests
    \/ UNCHANGED collectionVars
BY DEF Next, vars, Starting, Stopping, AuthRequest, CollectionRequest, MediaRequest, Outside
-----------------------------------------------------------------------------
(* Migrations.                                                             *)

\* Where Migrate is says what it has done so far, in this start or an earlier
\* one: every file before the current one is recorded.
ProgressInv ==
  /\ phase \in {"apply", "record"} => at \in Files
  /\ phase \in {"check", "apply", "record"} => 1 .. at - 1 \subseteq recorded
  /\ phase = "record" => at \in applied

MigrationInv == MigrationsTypeOK /\ ProgressInv /\ ServesMigrated

\* Applying the next file to a prefix of the files gives a prefix again.
LEMMA PrefixGrows ==
  ASSUME NEW k \in 0 .. NFiles, NEW f \in Files, 1 .. f - 1 \subseteq 1 .. k
  PROVE  \E j \in 0 .. NFiles : (1 .. k) \cup {f} = 1 .. j
<1>1. f <= k + 1
  BY MigrationsAssumption DEF Files
<1>2. CASE f <= k
  BY <1>2, MigrationsAssumption DEF Files
<1>3. CASE f = k + 1
  <2>1. (1 .. k) \cup {f} = 1 .. k + 1
    BY <1>3
  <2>2. k + 1 \in 0 .. NFiles
    BY <1>3, MigrationsAssumption DEF Files
  <2> QED
    BY <2>1, <2>2
<1> QED
  BY <1>1, <1>2, <1>3, MigrationsAssumption DEF Files

\* The database may have been set up by an earlier release.
LEMMA MigrationInit == MigrationsInit => MigrationInv
BY MigrationsAssumption
   DEF MigrationsInit, MigrationInv, MigrationsTypeOK, ProgressInv, ServesMigrated, Files

\* The order "apply, then record" is kept also across stops and restarts.
LEMMA MigrationStep ==
  ASSUME MigrationInv, [Next]_vars
  PROVE  MigrationInv'
<1>0. NFiles \in Nat \ {0} /\ MaxStops \in Nat
  BY MigrationsAssumption
<1> USE <1>0 DEF MigrationInv, MigrationsTypeOK, ProgressInv, ServesMigrated, Files
<1>1. CASE Boot
  BY <1>1 DEF Boot
<1>2. CASE CheckFile
  BY <1>2 DEF CheckFile
<1>3. CASE ApplyFile
  BY <1>3, PrefixGrows DEF ApplyFile
<1>4. CASE RecordFile
  BY <1>4 DEF RecordFile
<1>5. CASE Serve
  BY <1>5 DEF Serve
<1>6. CASE Stop
  BY <1>6 DEF Stop
<1>7. CASE UNCHANGED migrationVars
  BY <1>7 DEF migrationVars
<1> QED
  BY <1>1, <1>2, <1>3, <1>4, <1>5, <1>6, <1>7, MigrationSteps DEF Migrate
-----------------------------------------------------------------------------
(* Accounts and tokens.                                                    *)

\* No token was signed with a secret still to come.
TokensInv == \A t \in tokens : t.key <= key

AccountInv == AccountsTypeOK /\ TokensInv

\* No token has been handed out.
LEMMA AccountInit == AccountsInit => AccountInv
BY DEF AccountsInit, AccountInv, AccountsTypeOK, TokensInv, Roles

\* Tokens are signed with the secret of the process, and secrets are new ones.
LEMMA AccountStep ==
  ASSUME AccountInv, [Next]_vars
  PROVE  AccountInv'
<1> USE DEF AccountInv, AccountsTypeOK, TokensInv
<1>1. ASSUME NEW u \in Users, NEW n \in Names, Register(u, n)
      PROVE  AccountInv'
  BY <1>1 DEF Register, Insert, Roles
<1>2. ASSUME NEW n \in Names, Login(n)
      PROVE  AccountInv'
  <2>1. PICK a \in accounts :
          tokens' = tokens \cup {[uid |-> a.id, role |-> a.role, key |-> key]}
    BY <1>2 DEF Login, ByName
  <2>2. [uid |-> a.id, role |-> a.role, key |-> key] \in Tokens
    BY DEF Tokens
  <2> QED
    BY <1>2, <2>1, <2>2 DEF Login
<1>3. ASSUME NEW t \in tokens, Lapse(t)
      PROVE  AccountInv'
  BY <1>3 DEF Lapse
<1>4. ASSUME NEW a \in accounts, NEW role \in Roles, SetRole(a, role)
      PROVE  AccountInv'
  BY <1>4 DEF SetRole
<1>5. CASE LoadSecret
  <2>1. key' \in Nat /\ key <= key'
    BY <1>5 DEF LoadSecret
  <2>2. tokens \subseteq Tokens /\ \A t \in Tokens : t.key \in Nat
    BY DEF Tokens
  <2> QED
    BY <1>5, <2>1, <2>2 DEF LoadSecret
<1>6. CASE UNCHANGED accountVars
  BY <1>6 DEF accountVars
<1> QED
  BY <1>1, <1>2, <1>3, <1>4, <1>5, <1>6, AccountSteps
-----------------------------------------------------------------------------
(* Collections.                                                            *)

\* The clock of the model stays below its bound.
TimesInv == \A x \in members : x.added <= MaxTime

\* The rows a handler found when it checked their owners are the rows there
\* now, or they are gone for good.
Holds(q) ==
  \/ q.col \in gone /\ ~Exists(cols, q.col)
  \/ \E c \in cols : c.id = q.col /\ MayTouch(q.by, c)

HoldsItem(q) ==
  \/ q.item \in gone /\ ~Exists(media, q.item)
  \/ \E m \in media : m.id = q.item /\ MayTouch(q.by, m)

HandlerInv == \A r \in Requests :
  /\ req[r] # Idle => Holds(req[r])
  /\ In(r, "upsert") => HoldsItem(req[r])

CollectionInv == CollectionsTypeOK /\ TimesInv /\ HandlerInv /\ ItemsOfOwner

IndInv ==
  /\ MigrationInv /\ AccountInv /\ CollectionInv
  /\ roleChanges \in 0 .. MaxRoleChanges

\* Max picks the largest of finitely many numbers.
LEMMA MaxIs ==
  ASSUME NEW n \in Nat, NEW S \in SUBSET (0 .. n), S # {}
  PROVE  Max(S) \in S /\ \A x \in S : x <= Max(S)
<1> DEFINE T == {n - x : x \in S}
<1>1. T \subseteq Nat
  OBVIOUS
<1>2. T # {}
  <2>1. PICK x \in S : TRUE
    OBVIOUS
  <2>2. n - x \in T
    OBVIOUS
  <2> QED
    BY <2>2
<1>3. PICK m \in T : \A y \in T : ~(<<y, m>> \in OpToRel(<, Nat))
  <2> HIDE DEF T
  <2> QED
    BY <1>1, <1>2, NatLessThanWellFounded, WFMin
<1>4. \A y \in T : ~(y < m)
  BY <1>1, <1>3 DEF OpToRel
<1>5. PICK x \in S : m = n - x
  OBVIOUS
<1>6. ASSUME NEW y \in S PROVE x >= y
  <2>1. ~(n - y < n - x)
    BY <1>4, <1>5
  <2> QED
    BY <2>1
<1> QED
  BY <1>5, <1>6 DEF Max

\* What the stages of a handler are made of.
LEMMA HandlerFields ==
  ASSUME CollectionsTypeOK, NEW r \in Requests, req[r] # Idle
  PROVE  /\ req[r] \in Handlers
         /\ req[r].by \in Tokens /\ req[r].col \in Cols /\ req[r].item \in Media
         /\ req[r].pos \in Positions /\ req[r].added \in 0 .. MaxTime
         /\ req[r].by.role \in Roles /\ req[r].by.uid \in Users
BY DEF CollectionsTypeOK, Handlers, Tokens

\* A handler at some stage is not idle.
LEMMA Busy ==
  ASSUME NEW r, In(r, "item") \/ In(r, "upsert") \/ In(r, "remove") \/ In(r, "delete")
  PROVE  req[r] # Idle
BY DEF In, Idle

\* Answering a request leaves the other handlers as they were.
LEMMA Replied ==
  ASSUME CollectionsTypeOK, NEW r \in Requests, Reply(r)
  PROVE  /\ req' \in [Requests -> Handlers]
         /\ \A q \in Requests : req'[q] # Idle => req'[q] = req[q]
         /\ \A q \in Requests : In(q, "upsert")' => req'[q] = req[q] /\ req[q] # Idle
BY DEF CollectionsTypeOK, Reply, Handlers, In, Idle

\* The next time of adding is a number.
LEMMA NowIs ==
  ASSUME CollectionsTypeOK, TimesInv
  PROVE  Now \in Nat
<1>0. MaxTime \in Nat
  BY CollectionsAssumption
<1> DEFINE S == {0} \cup {x.added : x \in members}
                  \cup {req[r].added : r \in {q \in Requests : In(q, "upsert")}}
<1>1. \A x \in members : x.added \in 0 .. MaxTime
  BY <1>0 DEF CollectionsTypeOK, TimesInv
<1>2. \A r \in Requests : In(r, "upsert") => req[r].added \in 0 .. MaxTime
  BY HandlerFields, Busy
<1>3. S \in SUBSET (0 .. MaxTime) /\ S # {}
  BY <1>0, <1>1, <1>2
<1>4. Max(S) \in S
  <2> HIDE DEF S
  <2> QED
    BY <1>0, <1>3, MaxIs
<1>5. Max(S) \in Nat
  BY <1>0, <1>3, <1>4
<1>6. Now = 1 + Max(S)
  BY DEF Now
<1> QED
  BY <1>5, <1>6

\* There are no collections and no handlers at work.
LEMMA CollectionInit == CollectionsInit => CollectionInv
BY CollectionsAssumption
   DEF CollectionsInit, CollectionInv, CollectionsTypeOK, TimesInv, HandlerInv,
       ItemsOfOwner, Handlers, In, Idle

\* POST /collections: the new collection's ID is new, so no handler waits for it.
LEMMA CreateStep ==
  ASSUME CollectionInv, AccountInv,
         NEW t \in Callers, NEW c \in Cols, NEW n \in Labels, CreateCollection(t, c, n)
  PROVE  CollectionInv'
<1>1. /\ Fresh(cols, c) /\ ~Taken(t.uid, n)
      /\ cols' = cols \cup {[id |-> c, owner |-> t.uid, name |-> n]}
      /\ members' = members /\ media' = media /\ gone' = gone /\ req' = req
  BY DEF CreateCollection
<1>2. t.uid \in Users
  BY DEF Callers, AccountInv, AccountsTypeOK, Tokens
<1>3. CollectionsTypeOK'
  BY <1>1, <1>2 DEF CollectionInv, CollectionsTypeOK, Fresh, Exists, Taken, Key
<1>4. TimesInv' /\ ItemsOfOwner'
  BY <1>1 DEF CollectionInv, TimesInv, ItemsOfOwner
<1>5. HandlerInv'
  BY <1>1 DEF CollectionInv, HandlerInv, Holds, HoldsItem, Exists, Fresh, MayTouch, In
<1> QED
  BY <1>3, <1>4, <1>5 DEF CollectionInv

\* getOwned: the row and its owner are as the handler will rely on.
LEMMA BeginStep ==
  ASSUME CollectionInv, AccountInv, NEW r \in Requests, NEW t \in Callers, Begin(r, t)
  PROVE  CollectionInv'
<1>0. MaxTime \in Nat /\ AnyItem \in Media /\ AnyPosition \in Positions
  BY CollectionsAssumption DEF AnyItem, AnyPosition
<1>1. PICK x \in cols, stage \in {"item", "remove", "delete"}, m \in Media, p \in Positions :
        /\ MayTouch(t, x)
        /\ Found(r, t, x, stage, m, p)
        /\ cols' = cols /\ members' = members /\ media' = media /\ gone' = gone
  BY <1>0 DEF Begin, tableVars
<1> DEFINE q == [stage |-> stage, by |-> t, col |-> x.id, item |-> m, pos |-> p, added |-> 0]
<1>2. req' = [req EXCEPT ![r] = q]
  BY <1>1 DEF Found
<1>3. t \in Tokens /\ x.id \in Cols /\ 0 \in 0 .. MaxTime
  BY <1>0 DEF Callers, AccountInv, AccountsTypeOK, CollectionInv, CollectionsTypeOK
<1>4. q \in Handlers
  BY <1>3 DEF Handlers
<1>5. CollectionsTypeOK'
  BY <1>1, <1>2, <1>4 DEF CollectionInv, CollectionsTypeOK, Key
<1>6. TimesInv' /\ ItemsOfOwner'
  BY <1>1 DEF CollectionInv, TimesInv, ItemsOfOwner
<1>7. \A s \in Requests : req'[s] = IF s = r THEN q ELSE req[s]
  BY <1>2 DEF CollectionInv, CollectionsTypeOK
<1>8. ASSUME NEW s \in Requests
      PROVE  /\ req'[s] # Idle => Holds(req[s])'
             /\ In(s, "upsert")' => HoldsItem(req[s])'
  <2>1. CASE s = r
    BY <1>1, <1>7, <2>1 DEF Holds, In
  <2>2. CASE s # r
    BY <1>1, <1>7, <2>2
       DEF CollectionInv, HandlerInv, Holds, HoldsItem, Exists, In, MayTouch
  <2> QED
    BY <2>1, <2>2
<1> QED
  BY <1>5, <1>6, <1>8 DEF CollectionInv, HandlerInv

\* Uploads: the new item's ID is new, so no handler waits for it.
LEMMA AddMediaStep ==
  ASSUME CollectionInv, NEW m \in Media, NEW u \in Users, AddMedia(m, u)
  PROVE  CollectionInv'
<1>1. /\ Fresh(media, m)
      /\ media' = media \cup {[id |-> m, owner |-> u]}
      /\ cols' = cols /\ members' = members /\ gone' = gone /\ req' = req
  BY DEF AddMedia
<1>3. CollectionsTypeOK'
  BY <1>1 DEF CollectionInv, CollectionsTypeOK, Key
<1>4. TimesInv' /\ ItemsOfOwner'
  BY <1>1 DEF CollectionInv, TimesInv, ItemsOfOwner
<1>5. HandlerInv'
  BY <1>1 DEF CollectionInv, HandlerInv, Holds, HoldsItem, Exists, Fresh, MayTouch, In
<1> QED
  BY <1>3, <1>4, <1>5 DEF CollectionInv

\* Deletions: the item leaves its collections in the same statement.
LEMMA DeleteMediaStep ==
  ASSUME CollectionInv, NEW m \in Media, DeleteMedia(m)
  PROVE  CollectionInv'
<1>1. /\ media' = {x \in media : x.id # m}
      /\ members' = {x \in members : x.item # m}
      /\ gone' = gone \cup {m}
      /\ cols' = cols /\ req' = req
  BY DEF DeleteMedia
<1>3. CollectionsTypeOK'
  BY <1>1 DEF CollectionInv, CollectionsTypeOK, Key
<1>4. TimesInv' /\ ItemsOfOwner'
  BY <1>1 DEF CollectionInv, TimesInv, ItemsOfOwner
<1>5. HandlerInv'
  BY <1>1 DEF CollectionInv, HandlerInv, Holds, HoldsItem, Exists, MayTouch, In
<1> QED
  BY <1>3, <1>4, <1>5 DEF CollectionInv

\* A handler that answers leaves every other one with what it relies on.
LEMMA HandlersKeep ==
  ASSUME CollectionInv, NEW r \in Requests, Reply(r),
         UNCHANGED media, gone \subseteq gone',
         \A c \in Cols :
           \/ c \in gone' /\ ~Exists(cols, c)'
           \/ \A x \in cols : x.id = c => x \in cols',
         \A c \in Cols : Exists(cols, c)' => Exists(cols, c)
  PROVE  HandlerInv'
<1>1. /\ \A s \in Requests : req'[s] # Idle => req'[s] = req[s]
      /\ \A s \in Requests : In(s, "upsert")' => req'[s] = req[s] /\ req[s] # Idle
  BY Replied DEF CollectionInv
<1>2. ASSUME NEW s \in Requests, req'[s] # Idle
      PROVE  Holds(req[s])'
  <2>1. req'[s] = req[s] /\ req[s].col \in Cols /\ Holds(req[s])
    BY <1>1, <1>2, HandlerFields DEF CollectionInv, HandlerInv
  <2> QED
    BY <2>1 DEF Holds, Exists, MayTouch
<1>3. ASSUME NEW s \in Requests, In(s, "upsert")'
      PROVE  HoldsItem(req[s])'
  <2>1. req'[s] = req[s] /\ HoldsItem(req[s])
    BY <1>1, <1>3 DEF CollectionInv, HandlerInv, In
  <2> QED
    BY <2>1 DEF HoldsItem, Exists, MayTouch
<1> QED
  BY <1>2, <1>3 DEF HandlerInv

\* AddItem's second check: the item is there and its owner right.
LEMMA FindItemStep ==
  ASSUME CollectionInv, NEW r \in Requests, FindItem(r)
  PROVE  CollectionInv'
<1>0. MaxTime \in Nat /\ Now \in Nat /\ req[r] # Idle
  BY CollectionsAssumption, NowIs, Busy DEF CollectionInv, FindItem
<1>1. cols' = cols /\ members' = members /\ media' = media /\ gone' = gone
  BY DEF FindItem, tableVars
<1>2. TimesInv' /\ ItemsOfOwner'
  BY <1>1 DEF CollectionInv, TimesInv, ItemsOfOwner
<1>3. CASE Reply(r)
  <2>1. CollectionsTypeOK'
    BY <1>1, <1>3, Replied DEF CollectionInv, CollectionsTypeOK, Key
  <2>2. HandlerInv'
    BY <1>1, <1>3, HandlersKeep DEF Exists
  <2> QED
    BY <1>2, <2>1, <2>2 DEF CollectionInv
<1>4. CASE ~Reply(r)
  <2>1. /\ \E m \in media : m.id = req[r].item /\ MayTouch(req[r].by, m)
        /\ Now <= MaxTime
        /\ req' = [req EXCEPT ![r].stage = "upsert", ![r].added = Now]
    BY <1>4 DEF FindItem
  <2> DEFINE q == [req[r] EXCEPT !.stage = "upsert", !.added = Now]
  <2>2. /\ req[r] \in Handlers /\ req[r] # Idle /\ Now \in 0 .. MaxTime
    BY <1>0, <2>1, HandlerFields DEF CollectionInv
  <2>3. /\ q \in Handlers /\ q.by = req[r].by /\ q.col = req[r].col /\ q.item = req[r].item
    BY <2>2 DEF Handlers
  <2>4. req' = [req EXCEPT ![r] = q]
    BY <2>1
  <2> HIDE DEF q
  <2>5. req' \in [Requests -> Handlers] /\ \A s \in Requests : req'[s] = IF s = r THEN q ELSE req[s]
    BY <2>3, <2>4 DEF CollectionInv, CollectionsTypeOK
  <2>6. CollectionsTypeOK'
    BY <1>1, <2>5 DEF CollectionInv, CollectionsTypeOK, Key
  <2>7. ASSUME NEW s \in Requests
        PROVE  /\ req'[s] # Idle => Holds(req[s])'
               /\ In(s, "upsert")' => HoldsItem(req[s])'
    <3>1. CASE s = r
      BY <1>1, <2>1, <2>2, <2>3, <2>5, <3>1
         DEF CollectionInv, HandlerInv, Holds, HoldsItem, Exists, MayTouch
    <3>2. CASE s # r
      BY <1>1, <2>5, <3>2
         DEF CollectionInv, HandlerInv, Holds, HoldsItem, Exists, In, MayTouch
    <3> QED
      BY <3>1, <3>2
  <2> QED
    BY <1>2, <2>6, <2>7 DEF CollectionInv, HandlerInv
<1> QED
  BY <1>3, <1>4

\* What the upsert does: one row for the collection and the item, which takes
\* the time of the row it replaces.
Upserted(q, time) ==
  /\ Exists(cols, q.col) /\ Exists(media, q.item)
  /\ members' = (members \ Added(q)) \cup {Row(q, time)}
  /\ \/ Added(q) = {} /\ time = q.added
     \/ \E y \in members : Added(q) = {y} /\ time = y.added

\* The unique key of collection_items leaves one row at most to replace.
LEMMA UpsertEffect ==
  ASSUME CollectionInv, NEW r \in Requests, Upsert(r)
  PROVE  \/ members' = members
         \/ \E time \in 0 .. MaxTime : Upserted(req[r], time)
<1>0. MaxTime \in Nat /\ req[r].added \in 0 .. MaxTime
  BY CollectionsAssumption, Busy, HandlerFields DEF CollectionInv, Upsert
<1> DEFINE q == req[r]
           times == IF Added(q) = {} THEN {q.added} ELSE {x.added : x \in Added(q)}
<1>1. \/ members' = members
      \/ /\ Exists(cols, q.col) /\ Exists(media, q.item)
         /\ members' = (members \ Added(q)) \cup {Row(q, t) : t \in times}
  BY DEF Upsert
<1>2. CASE Added(q) = {}
  <2>1. {Row(q, t) : t \in times} = {Row(q, q.added)}
    BY <1>2
  <2> QED
    BY <1>0, <1>1, <1>2, <2>1 DEF Upserted
<1>3. CASE Added(q) # {}
  <2>1. PICK y \in members : Key(y) = Key(q)
    BY <1>3 DEF Added
  <2>2. Added(q) = {y}
    BY <2>1 DEF Added, CollectionInv, CollectionsTypeOK
  <2>3. y.added \in 0 .. MaxTime
    BY <1>0 DEF CollectionInv, CollectionsTypeOK, TimesInv
  <2>4. {Row(q, t) : t \in times} = {Row(q, y.added)}
    BY <2>2
  <2> QED
    BY <1>1, <2>2, <2>3, <2>4 DEF Upserted
<1> QED
  BY <1>2, <1>3

\* The upsert puts in what both checks allowed: had an owner's row gone in
\* between, the foreign keys would have refused it.
LEMMA UpsertStep ==
  ASSUME CollectionInv, NEW r \in Requests, Upsert(r)
  PROVE  CollectionInv'
<1>0. MaxTime \in Nat
  BY CollectionsAssumption
<1>1. /\ cols' = cols /\ media' = media /\ gone' = gone
      /\ Reply(r) /\ In(r, "upsert") /\ req[r] # Idle
  BY Busy DEF Upsert
<1>2. HandlerInv'
  BY <1>1, HandlersKeep DEF Exists
<1>3. CASE members' = members
  <2>1. CollectionsTypeOK'
    BY <1>1, <1>3, Replied DEF CollectionInv, CollectionsTypeOK, Key
  <2> QED
    BY <1>1, <1>2, <1>3, <2>1 DEF CollectionInv, TimesInv, ItemsOfOwner
<1>4. ASSUME NEW time \in 0 .. MaxTime, Upserted(req[r], time)
      PROVE  CollectionInv'
  <2> DEFINE q == req[r]
             new == Row(q, time)
  <2>1. /\ q.col \in Cols /\ q.item \in Media /\ q.pos \in Positions
        /\ q.by.role \in Roles /\ q.by.uid \in Users
    BY <1>1, HandlerFields DEF CollectionInv
  <2>2. /\ members' = (members \ Added(q)) \cup {new}
        /\ Exists(cols, q.col) /\ Exists(media, q.item)
    BY <1>4 DEF Upserted
  <2>3. /\ new \in [col : Cols, item : Media, pos : Positions, added : Nat, via : Roles]
        /\ new.col = q.col /\ new.item = q.item /\ new.added = time /\ new.via = q.by.role
        /\ Key(new) = Key(q) /\ time <= MaxTime
    BY <1>0, <2>1 DEF Row, Key
  <2>4. \A x \in members' : x = new \/ (x \in members /\ Key(x) # Key(new))
    BY <2>2, <2>3 DEF Added
  <2>5. Holds(q) /\ HoldsItem(q)
    BY <1>1 DEF CollectionInv, HandlerInv
  <2>6. \E c \in cols, m \in media :
          c.id = new.col /\ m.id = new.item /\ (c.owner = m.owner \/ new.via = "admin")
    BY <2>2, <2>3, <2>5 DEF Holds, HoldsItem, MayTouch
  <2> HIDE DEF q, new
  <2>7. CollectionsTypeOK'
    <3>1. members' \subseteq [col : Cols, item : Media, pos : Positions,
                                added : Nat, via : Roles]
      BY <2>3, <2>4 DEF CollectionInv, CollectionsTypeOK
    <3>2. \A x, y \in members' : Key(x) = Key(y) => x = y
      BY <2>4 DEF CollectionInv, CollectionsTypeOK
    <3>3. req' \in [Requests -> Handlers]
      BY <1>1, Replied DEF CollectionInv
    <3> QED
      BY <1>1, <3>1, <3>2, <3>3 DEF CollectionInv, CollectionsTypeOK, Key
  <2>8. TimesInv'
    BY <2>3, <2>4 DEF CollectionInv, TimesInv
  <2>9. ItemsOfOwner'
    BY <1>1, <2>4, <2>6 DEF CollectionInv, ItemsOfOwner
  <2> QED
    BY <1>2, <2>7, <2>8, <2>9 DEF CollectionInv
<1> QED
  BY <1>3, <1>4, UpsertEffect

\* DELETE .../items/{mediaID} only takes a row away.
LEMMA RemoveStep ==
  ASSUME CollectionInv, NEW r \in Requests, RemoveItem(r)
  PROVE  CollectionInv'
<1>1. /\ cols' = cols /\ media' = media /\ gone' = gone /\ Reply(r)
      /\ members' \subseteq members
  BY DEF RemoveItem
<1>2. HandlerInv'
  BY <1>1, HandlersKeep DEF Exists
<1>3. req' \in [Requests -> Handlers]
  BY <1>1, Replied DEF CollectionInv
<1>4. CollectionsTypeOK'
  BY <1>1, <1>3 DEF CollectionInv, CollectionsTypeOK, Key
<1>5. TimesInv' /\ ItemsOfOwner'
  BY <1>1 DEF CollectionInv, TimesInv, ItemsOfOwner
<1> QED
  BY <1>2, <1>4, <1>5 DEF CollectionInv

\* DELETE /collections/{id}: the row, its items, and the ID for good.
LEMMA DeleteCollectionStep ==
  ASSUME CollectionInv, NEW r \in Requests, DeleteCollection(r)
  PROVE  CollectionInv'
<1>0. req[r].col \in Cols
  BY Busy, HandlerFields DEF CollectionInv, DeleteCollection
<1> DEFINE k == req[r].col
<1>1. /\ cols' = {x \in cols : x.id # k}
      /\ members' = {x \in members : x.col # k}
      /\ gone' = gone \cup {k}
      /\ media' = media /\ Reply(r)
  BY DEF DeleteCollection
<1> HIDE DEF k
<1>2. HandlerInv'
  BY <1>1, HandlersKeep DEF Exists
<1>3. req' \in [Requests -> Handlers]
  BY <1>1, Replied DEF CollectionInv
<1>4. CollectionsTypeOK'
  BY <1>0, <1>1, <1>3 DEF CollectionInv, CollectionsTypeOK, Key, k
<1>5. TimesInv' /\ ItemsOfOwner'
  BY <1>1 DEF CollectionInv, TimesInv, ItemsOfOwner
<1> QED
  BY <1>2, <1>4, <1>5 DEF CollectionInv

\* Every step of the server keeps the collections right.
LEMMA CollectionStep ==
  ASSUME CollectionInv, AccountInv, [Next]_vars
  PROVE  CollectionInv'
<1>1. ASSUME NEW r \in Requests, Handle(r)
      PROVE  CollectionInv'
  BY <1>1, FindItemStep, UpsertStep, RemoveStep, DeleteCollectionStep DEF Handle
<1>2. CASE DropRequests
  BY <1>2
     DEF DropRequests, tableVars, CollectionInv, CollectionsTypeOK, TimesInv,
         ItemsOfOwner, HandlerInv, Handlers, Idle, In, Key
<1>3. CASE UNCHANGED collectionVars
  BY <1>3
     DEF collectionVars, tableVars, CollectionInv, CollectionsTypeOK, TimesInv,
         ItemsOfOwner, HandlerInv, Holds, HoldsItem, Exists, MayTouch, In, Key
<1> QED
  BY <1>1, <1>2, <1>3, CreateStep, BeginStep, AddMediaStep, DeleteMediaStep, CollectionSteps
-----------------------------------------------------------------------------
(* The invariant of the whole.                                             *)

\* The server starts with all of it.
LEMMA InvInit == Init => IndInv
BY MigrationInit, AccountInit, CollectionInit, ApiAssumption DEF Init, IndInv

\* Role changes are counted up to their bound.
LEMMA RoleChangesStep ==
  ASSUME roleChanges \in 0 .. MaxRoleChanges, [Next]_vars
  PROVE  roleChanges' \in 0 .. MaxRoleChanges
BY ApiAssumption
   DEF Next, vars, Starting, Stopping, AuthRequest, CollectionRequest, MediaRequest, Outside

\* Every step keeps all of it.
LEMMA InvStep == IndInv /\ [Next]_vars => IndInv'
BY MigrationStep, AccountStep, CollectionStep, RoleChangesStep DEF IndInv

\* IndInv holds throughout.
LEMMA Invariance == Spec => []IndInv
BY InvInit, InvStep, PTL DEF Spec

\* Api.TypeOK: the tables respect the unique keys of the schema, whatever
\* statements of whatever handlers overlap.
THEOREM ApiTypeCorrect == Spec => []TypeOK
<1>1. IndInv => TypeOK
  BY DEF IndInv, MigrationInv, AccountInv, CollectionInv, TypeOK
<1> QED
  BY <1>1, Invariance, PTL

\* Migrations.ServesMigrated: requests are served on the whole schema only,
\* and files get there in order, however often the start is cut off.
THEOREM SchemaBeforeRequests == Spec => []ServesMigrated
<1>1. IndInv => ServesMigrated
  BY DEF IndInv, MigrationInv
<1> QED
  BY <1>1, Invariance, PTL

\* Collections.ItemsOfOwner: what a collection holds exists and belongs to its
\* owner, unless an admin put it there.
THEOREM ItemsStayOwned == Spec => []ItemsOfOwner
<1>1. IndInv => ItemsOfOwner
  BY DEF IndInv, CollectionInv
<1> QED
  BY <1>1, Invariance, PTL
-----------------------------------------------------------------------------
(* What no step does.                                                      *)

\* One step of OnlyOwnersChange, of OrderStable and of SessionsAndRestarts.
OwnersStep == \A x \in cols :
  /\ x \notin cols' => Entitled(x)
  /\ {y \in members : y.col = x.id /\ Exists(media', y.item)}
       # {y \in members' : y.col = x.id} => Entitled(x)

OrderStep == \A x, y \in members, v, w \in members' :
  /\ x.col = y.col /\ Before(x, y)
  /\ Key(x) = Key(v) /\ x.pos = v.pos /\ Key(y) = Key(w) /\ y.pos = w.pos
  => Before(v, w)

SessionsStep ==
  /\ fixedKey => \A t \in tokens : Accepted(t) => Accepted(t)' \/ t \notin tokens'
  /\ ~fixedKey /\ phase = "down" /\ phase' # "down" => \A t \in tokens : ~Accepted(t)'

\* A handler at work may touch the collection it names, if it is there.
LEMMA AtWork ==
  ASSUME CollectionInv, NEW r \in Requests, req[r] # Idle,
         NEW x \in cols, x.id = req[r].col
  PROVE  Entitled(x)
<1>1. Holds(req[r])
  BY DEF CollectionInv, HandlerInv
<1>2. MayTouch(req[r].by, x)
  BY <1>1 DEF Holds, Exists, CollectionInv, CollectionsTypeOK
<1> QED
  BY <1>2 DEF Entitled

\* Steps that leave the collections and what is in them alone.
LEMMA NothingChanges ==
  ASSUME CollectionInv, cols \subseteq cols',
         \A y \in members : Exists(media, y.item) /\ Exists(media', y.item) => y \in members',
         members' \subseteq {y \in members : Exists(media', y.item)}
  PROVE  OwnersStep
<1>1. \A y \in members : Exists(media, y.item)
  BY DEF CollectionInv, ItemsOfOwner, Exists
<1>2. members' = {y \in members : Exists(media', y.item)}
  BY <1>1
<1> QED
  BY <1>2 DEF OwnersStep

\* Steps of one handler change its own collection at most.
LEMMA OnlyItsOwn ==
  ASSUME CollectionInv, NEW r \in Requests, req[r] # Idle, media' = media,
         \A x \in cols : x \notin cols' => x.id = req[r].col,
         \A y \in members : y.col # req[r].col => y \in members',
         \A y \in members' : y.col # req[r].col => y \in members
  PROVE  OwnersStep
<1>1. \A y \in members : Exists(media, y.item)
  BY DEF CollectionInv, ItemsOfOwner, Exists
<1>2. ASSUME NEW x \in cols, x.id # req[r].col
      PROVE  /\ x \in cols'
             /\ {y \in members : y.col = x.id /\ Exists(media', y.item)}
                  = {y \in members' : y.col = x.id}
  BY <1>1, <1>2
<1> QED
  BY <1>2, AtWork DEF OwnersStep

\* Each operation changes nothing, or the collection of its handler only, or
\* takes items out with their media item.
LEMMA OwnersChange ==
  ASSUME CollectionInv, [Next]_vars
  PROVE  OwnersStep
<1>0. \A y \in members : Exists(media, y.item)
  BY DEF CollectionInv, ItemsOfOwner, Exists
<1>1. ASSUME cols \subseteq cols', UNCHANGED <<members, media>>
      PROVE  OwnersStep
  BY <1>0, <1>1, NothingChanges
<1>2. ASSUME NEW t \in Callers, NEW c \in Cols, NEW n \in Labels, CreateCollection(t, c, n)
      PROVE  OwnersStep
  BY <1>1, <1>2 DEF CreateCollection
<1>3. ASSUME NEW r \in Requests, NEW t \in Callers, Begin(r, t)
      PROVE  OwnersStep
  BY <1>1, <1>3 DEF Begin, tableVars
<1>4. ASSUME NEW r \in Requests, FindItem(r)
      PROVE  OwnersStep
  BY <1>1, <1>4 DEF FindItem, tableVars
<1>5. ASSUME NEW r \in Requests, Upsert(r)
      PROVE  OwnersStep
  <2>1. cols' = cols /\ media' = media /\ req[r] # Idle
    BY <1>5, Busy DEF Upsert
  <2>2. CASE members' = members
    BY <1>1, <2>1, <2>2
  <2>3. ASSUME NEW time \in 0 .. MaxTime, Upserted(req[r], time)
        PROVE  OwnersStep
    <3>1. /\ \A y \in Added(req[r]) : y.col = req[r].col
          /\ Row(req[r], time).col = req[r].col
      BY DEF Added, Key, Row
    <3>2. members' = (members \ Added(req[r])) \cup {Row(req[r], time)}
      BY <2>3 DEF Upserted
    <3> QED
      BY <2>1, <3>1, <3>2, OnlyItsOwn
  <2> QED
    BY <1>5, <2>2, <2>3, UpsertEffect
<1>6. ASSUME NEW r \in Requests, RemoveItem(r)
      PROVE  OwnersStep
  <2>1. cols' = cols /\ media' = media /\ req[r] # Idle
    BY <1>6, Busy DEF RemoveItem
  <2>2. members' = members \ Added(req[r]) /\ \A y \in Added(req[r]) : y.col = req[r].col
    BY <1>6 DEF RemoveItem, Added, Key
  <2> QED
    BY <2>1, <2>2, OnlyItsOwn
<1>7. ASSUME NEW r \in Requests, DeleteCollection(r)
      PROVE  OwnersStep
  <2>1. media' = media /\ req[r] # Idle
    BY <1>7, Busy DEF DeleteCollection
  <2>2. /\ cols' = {x \in cols : x.id # req[r].col}
        /\ members' = {x \in members : x.col # req[r].col}
    BY <1>7 DEF DeleteCollection
  <2> QED
    BY <2>1, <2>2, OnlyItsOwn
<1>8. ASSUME NEW m \in Media, NEW u \in Users, AddMedia(m, u)
      PROVE  OwnersStep
  <2>1. cols' = cols /\ members' = members /\ media \subseteq media'
    BY <1>8 DEF AddMedia
  <2>2. \A y \in members : Exists(media', y.item)
    BY <1>0, <2>1 DEF Exists
  <2> QED
    BY <2>1, <2>2, NothingChanges
<1>9. ASSUME NEW m \in Media, DeleteMedia(m)
      PROVE  OwnersStep
  <2>1. /\ cols' = cols
        /\ media' = {x \in media : x.id # m}
        /\ members' = {x \in members : x.item # m}
    BY <1>9 DEF DeleteMedia
  <2>2. \A y \in members : Exists(media', y.item) <=> y.item # m
    BY <1>0, <2>1 DEF Exists
  <2> QED
    BY <2>1, <2>2, NothingChanges
<1>10. CASE DropRequests
  BY <1>1, <1>10 DEF DropRequests, tableVars
<1>11. CASE UNCHANGED collectionVars
  BY <1>1, <1>11 DEF collectionVars, tableVars
<1> QED
  BY <1>2, <1>3, <1>4, <1>5, <1>6, <1>7, <1>8, <1>9, <1>10, <1>11, CollectionSteps DEF Handle

\* OnlyOwnersChange: collections and their items are changed by their owner
\* or by an admin, although every handler checks first and changes later.
THEOREM OnlyOwnersChangeCollections == Spec => OnlyOwnersChange
<1>1. IndInv /\ [Next]_vars => OwnersStep
  BY OwnersChange DEF IndInv
<1>2. OwnersStep => [OwnersStep]_vars
  OBVIOUS
<1> QED
  BY <1>1, Invariance, PTL DEF Spec, OnlyOwnersChange, OwnersStep

\* The row of an item in a collection keeps its time for as long as it is there.
LEMMA TimesKept ==
  ASSUME CollectionInv, [Next]_vars,
         NEW x \in members, NEW v \in members', Key(x) = Key(v)
  PROVE  v.added = x.added
<1>1. v \in members => v = x
  BY DEF CollectionInv, CollectionsTypeOK
<1>2. CASE members' \subseteq members
  BY <1>1, <1>2
<1>3. ASSUME NEW r \in Requests, Upsert(r)
      PROVE  v.added = x.added
  <2>1. CASE v \in members
    BY <1>1, <2>1
  <2>2. ASSUME NEW time \in 0 .. MaxTime, Upserted(req[r], time), v \notin members
        PROVE  v.added = x.added
    <3>1. v = Row(req[r], time)
      BY <2>2 DEF Upserted
    <3>2. v.added = time /\ x \in Added(req[r])
      BY <3>1 DEF Row, Added, Key
    <3> QED
      BY <2>2, <3>2 DEF Upserted
  <2> QED
    BY <1>3, <2>1, <2>2, UpsertEffect
<1>4. \/ members' \subseteq members
      \/ \E r \in Requests : Upsert(r)
  BY CollectionSteps
     DEF CreateCollection, Begin, Handle, FindItem, RemoveItem, DeleteCollection,
         AddMedia, DeleteMedia, DropRequests, tableVars, collectionVars
<1> QED
  BY <1>2, <1>3, <1>4

\* OrderStable: adding an item again where it is does not move it, however
\* the handlers that add it overlap.
THEOREM OrderStaysStable == Spec => OrderStable
<1>1. IndInv /\ [Next]_vars => OrderStep
  <2> SUFFICES ASSUME CollectionInv, [Next]_vars,
                      NEW x \in members, NEW y \in members,
                      NEW v \in members', NEW w \in members',
                      Before(x, y),
                      Key(x) = Key(v), x.pos = v.pos, Key(y) = Key(w), y.pos = w.pos
               PROVE  Before(v, w)
    BY DEF IndInv, OrderStep
  <2>1. v.added = x.added /\ w.added = y.added
    BY TimesKept
  <2> QED
    BY <2>1 DEF Before
<1>2. OrderStep => [OrderStep]_vars
  OBVIOUS
<1> QED
  BY <1>1, Invariance, PTL DEF Spec, OrderStable, OrderStep

\* SessionsAndRestarts: with JWT_SECRET set a session ends by its expiry only;
\* without it a restart ends every session.
THEOREM SessionsEndAsSaid == Spec => SessionsAndRestarts
<1>1. IndInv /\ [Next]_vars => SessionsStep
  <2> SUFFICES ASSUME IndInv, [Next]_vars PROVE SessionsStep
    OBVIOUS
  <2>0. key \in Nat /\ \A t \in tokens : t.key \in Nat /\ t.key <= key
    BY DEF IndInv, AccountInv, AccountsTypeOK, TokensInv, Tokens
  <2>1. CASE Boot /\ LoadSecret
    BY <2>0, <2>1 DEF LoadSecret, Accepted, SessionsStep
  <2>2. CASE ~(Boot /\ LoadSecret)
    <3>1. key' = key
      BY <2>2, AccountSteps DEF Register, Login, Lapse, SetRole, accountVars
    <3>2. phase = "down" => phase' = "down"
      BY <2>2
         DEF Next, vars, Starting, Stopping, AuthRequest, CollectionRequest, MediaRequest,
             Outside, Migrate, CheckFile, ApplyFile, RecordFile, Serve, Stop, migrationVars
    <3> QED
      BY <3>1, <3>2 DEF Accepted, SessionsStep
  <2> QED
    BY <2>1, <2>2
<1>2. SessionsStep => [SessionsStep]_vars
  OBVIOUS
<1> QED
  BY <1>1, Invariance, PTL DEF Spec, SessionsAndRestarts, SessionsStep
=============================================================================
