------------------------------ MODULE Accounts ------------------------------
(***************************************************************************)
(* Accounts and the tokens that stand for them: usecase/auth_usecase.go,   *)
(* user_repository.go, the Auth middleware, and the signing secret of      *)
(* config.Load, which the process makes up at every start when JWT_SECRET  *)
(* is not set.  A token carries the role its account had at login; nothing *)
(* looks at the account again while the token lasts.                       *)
(***************************************************************************)
EXTENDS Naturals

CONSTANTS
  Users,  \* account IDs
  Names   \* usernames, lower case: the unique index is on lower(username)

Roles == {"user", "admin"}

VARIABLES
  accounts,  \* rows of users
  tokens,    \* tokens handed out and not past their expiry
  key,       \* the secret this process signs and checks with
  fixedKey   \* whether JWT_SECRET is set

accountVars == <<accounts, tokens, key, fixedKey>>

Tokens == [uid : Users, role : Roles, key : Nat]

AccountsTypeOK ==
  /\ accounts \subseteq [id : Users, name : Names, role : Roles]
  /\ tokens \subseteq Tokens
  /\ key \in Nat
  /\ fixedKey \in BOOLEAN

\* An empty database, or one whose first account has been made an admin.
AccountsInit ==
  /\ \/ accounts = {}
     \/ \E u \in Users, n \in Names : accounts = {[id |-> u, name |-> n, role |-> "admin"]}
  /\ tokens = {}
  /\ key = 0
  /\ fixedKey \in BOOLEAN

\* FindByUsername: the rows of that name, which the index keeps to one.
ByName(n) == {a \in accounts : a.name = n}

\* Create: one INSERT, which the unique index refuses for a name in use.
Insert(u, n, role) ==
  /\ ByName(n) = {} /\ \A a \in accounts : a.id # u
  /\ accounts' = accounts \cup {[id |-> u, name |-> n, role |-> role]}

\* Every account starts as a user.
Register(u, n) ==
  /\ Insert(u, n, "user")
  /\ UNCHANGED <<tokens, key, fixedKey>>

\* The right password gets a token with the row's ID and role, and a new
\* expiry.  (A wrong one, or an unknown name, changes nothing.)
Login(n) == \E a \in ByName(n) :
  /\ tokens' = tokens \cup {[uid |-> a.id, role |-> a.role, key |-> key]}
  /\ UNCHANGED <<accounts, key, fixedKey>>

\* ValidateToken.
Accepted(t) == t \in tokens /\ t.key = key

\* Those whom the Auth middleware lets through; others are answered 401.
Callers == {t \in tokens : Accepted(t)}

Lapse(t) ==
  /\ t \in tokens
  /\ tokens' = tokens \ {t}
  /\ UNCHANGED <<accounts, key, fixedKey>>

\* Accounts are promoted (and demoted) directly in the database.
SetRole(a, role) ==
  /\ a \in accounts /\ a.role # role
  /\ accounts' = (accounts \ {a}) \cup {[a EXCEPT !.role = role]}
  /\ UNCHANGED <<tokens, key, fixedKey>>

\* Mutant: the generated secret is used even when one is configured.
NewKeyAlways == key' = key + 1 /\ UNCHANGED <<accounts, tokens, fixedKey>>

\* The part of config.Load that a restart repeats.
LoadSecret ==
  /\ key' = IF fixedKey THEN key ELSE key + 1
  /\ UNCHANGED <<accounts, tokens, fixedKey>>
=============================================================================
