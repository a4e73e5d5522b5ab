----------------------------- MODULE Migrations -----------------------------
(***************************************************************************)
(* The start of the process as far as the database is concerned:          *)
(* internal/repository/postgres/migrate.go, called by cmd/server/main.go.  *)
(* Each embedded SQL file is applied (all its statements or none) and then *)
(* recorded, by two statements.  A process that dies or whose statement    *)
(* fails exits, and its supervisor (docker-compose.yml) starts it again.   *)
(***************************************************************************)
EXTENDS Naturals

CONSTANTS
  NFiles,    \* embedded *.sql files, in lexical order
  MaxStops   \* bound: times the process exits

ASSUME MigrationsAssumption == NFiles \in Nat \ {0} /\ MaxStops \in Nat

Files == 1 .. NFiles

VARIABLES
  phase,     \* "down", Migrate's next statement, or "up" (serving HTTP)
  at,        \* the file Migrate is at
  applied,   \* files whose statements are in the database
  recorded,  \* rows of schema_migrations
  stops

migrationVars == <<phase, at, applied, recorded, stops>>

MigrationsTypeOK ==
  /\ phase \in {"down", "check", "apply", "record", "up"}
  /\ at \in 1 .. NFiles + 1
  /\ applied \subseteq Files
  /\ recorded \subseteq Files
  /\ stops \in 0 .. MaxStops

\* The database may have been set up by docker-entrypoint-initdb.d from the
\* files of an earlier release, which records nothing.
MigrationsInit ==
  /\ phase = "down" /\ at = 1
  /\ \E k \in 0 .. NFiles : applied = 1 .. k
  /\ recorded = {}
  /\ stops = 0

\* run() up to Migrate's loop; schema_migrations is created if not there.
Boot ==
  /\ phase = "down"
  /\ phase' = "check" /\ at' = 1
  /\ UNCHANGED <<applied, recorded, stops>>

CheckFile ==
  /\ phase = "check" /\ at \in Files
  /\ \/ at \in recorded /\ at' = at + 1 /\ UNCHANGED phase
     \/ at \notin recorded /\ phase' = "apply" /\ UNCHANGED at
  /\ UNCHANGED <<applied, recorded, stops>>

\* The files say IF NOT EXISTS everywhere: applying one twice changes nothing.
ApplyFile ==
  /\ phase = "apply"
  /\ applied' = applied \cup {at}
  /\ phase' = "record"
  /\ UNCHANGED <<at, recorded, stops>>

RecordFile ==
  /\ phase = "record"
  /\ recorded' = recorded \cup {at}
  /\ phase' = "check" /\ at' = at + 1
  /\ UNCHANGED <<applied, stops>>

\* Mutant: run() goes on although Migrate returned an error.
ServeRegardless ==
  /\ phase \notin {"down", "up"}
  /\ phase' = "up"
  /\ UNCHANGED <<at, applied, recorded, stops>>

Serve ==
  /\ phase = "check" /\ at = NFiles + 1
  /\ phase' = "up"
  /\ UNCHANGED <<at, applied, recorded, stops>>

\* The process dies, or a statement of Migrate fails and run() returns.  A
\* statement that commits and reports an error is the statement, then this.
Stop ==
  /\ phase # "down" /\ stops < MaxStops
  /\ phase' = "down" /\ stops' = stops + 1
  /\ UNCHANGED <<at, applied, recorded>>

Migrate == CheckFile \/ ApplyFile \/ RecordFile

\* Requests are served on the whole schema only; a file is recorded only once
\* it is in the database; and files get there in order (later files alter the
\* tables of earlier ones), wherever earlier starts were cut off.
ServesMigrated ==
  /\ recorded \subseteq applied
  /\ \E k \in 0 .. NFiles : applied = 1 .. k
  /\ phase = "up" => applied = Files
=============================================================================
