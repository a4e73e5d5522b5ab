-------------------------------- MODULE Api --------------------------------
(***************************************************************************)
(* The server without its media: start-up and migrations, accounts and     *)
(* tokens, and collections, behind one process that may stop at any time.  *)
(* HTTP is served only once Migrate is through; a restart forgets handlers *)
(* and, unless JWT_SECRET is set, makes every token worthless.             *)
(***************************************************************************)
EXTENDS Collections, Migrations, FiniteSets

CONSTANTS MaxLogins, MaxRoleChanges  \* bounds

ASSUME ApiAssumption == MaxLogins \in Nat /\ MaxRoleChanges \in Nat

VARIABLE roleChanges  \* counter for MaxRoleChanges

vars == <<migrationVars, accountVars, collectionVars, roleChanges>>

TypeOK ==
  /\ MigrationsTypeOK /\ AccountsTypeOK /\ CollectionsTypeOK
  /\ roleChanges \in 0 .. MaxRoleChanges

Init ==
  /\ MigrationsInit /\ AccountsInit /\ CollectionsInit /\ roleChanges = 0
  /\ accounts # {} => applied # {}

Starting ==
  \/ Boot /\ LoadSecret /\ UNCHANGED <<collectionVars, roleChanges>>
  \/ (Migrate \/ Serve) /\ UNCHANGED <<accountVars, collectionVars, roleChanges>>

Stopping == Stop /\ DropRequests /\ UNCHANGED <<accountVars, roleChanges>>

AuthRequest ==
  /\ phase = "up"
  /\ \/ \E u \in Users, n \in Names : Register(u, n)
     \/ \E n \in Names : Login(n) /\ Cardinality(tokens') <= MaxLogins
  /\ UNCHANGED <<migrationVars, collectionVars, roleChanges>>

CollectionRequest ==
  /\ phase = "up"
  /\ \/ \E t \in Callers, c \in Cols, n \in Labels : CreateCollection(t, c, n)
     \/ \E r \in Requests, t \in Callers : Begin(r, t)
     \/ \E r \in Requests : Handle(r)
  /\ UNCHANGED <<migrationVars, accountVars, roleChanges>>

MediaRequest ==
  /\ phase = "up"
  /\ \/ \E m \in Media, u \in Users : AddMedia(m, u)
     \/ \E m \in Media : DeleteMedia(m)
  /\ UNCHANGED <<migrationVars, accountVars, roleChanges>>

\* Time, and whoever has access to the database.
Outside ==
  /\ \/ \E t \in tokens : Lapse(t) /\ UNCHANGED roleChanges
     \/ /\ roleChanges < MaxRoleChanges /\ roleChanges' = roleChanges + 1
        /\ \E a \in accounts, role \in Roles : SetRole(a, role)
  /\ UNCHANGED <<migrationVars, collectionVars>>

Next == Starting \/ Stopping \/ AuthRequest \/ CollectionRequest \/ MediaRequest \/ Outside

Spec == Init /\ [][Next]_vars
-----------------------------------------------------------------------------
\* Collections and their items are changed by their owner or by someone who
\* was an admin at login; otherwise items leave only with their media item.
\* Checks and statements are steps apart: this rests on owners not changing.
Entitled(x) == \E r \in Requests :
  req[r] # Idle /\ req[r].col = x.id /\ MayTouch(req[r].by, x)

OnlyOwnersChange == [][\A x \in cols :
  /\ x \notin cols' => Entitled(x)
  /\ {y \in members : y.col = x.id /\ Exists(media', y.item)}
       # {y \in members' : y.col = x.id} => Entitled(x)]_vars

\* Items keep their order in a collection while they keep their positions:
\* adding an item again where it is does not move it.
OrderStable == [][\A x, y \in members, v, w \in members' :
  /\ x.col = y.col /\ Before(x, y)
  /\ Key(x) = Key(v) /\ x.pos = v.pos /\ Key(y) = Key(w) /\ y.pos = w.pos
  => Before(v, w)]_vars

\* With JWT_SECRET set a session ends by its expiry and by nothing else, not
\* even a restart; without it a restart ends every session.
SessionsAndRestarts == [][
  /\ fixedKey => \A t \in tokens : Accepted(t) => Accepted(t)' \/ t \notin tokens'
  /\ ~fixedKey /\ phase = "down" /\ phase' # "down" => \A t \in tokens : ~Accepted(t)']_vars
=============================================================================
