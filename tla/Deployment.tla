----------------------------- MODULE Deployment -----------------------------
(***************************************************************************)
(* Migrating a database, gating a rollout on it and starting the           *)
(* application (scripts/db_migrate.py, 5K/alembic, schema_baseline.py).    *)
(*                                                                         *)
(* Any number of operators run the commands at once against one database;  *)
(* each command reads it in several statements, and "upgrade" runs Alembic *)
(* between two looks of its own.  Every statement sees what is committed   *)
(* (READ COMMITTED), every command may fail or be killed at any point.     *)
(* The package on disk does not change while commands run.                 *)
(***************************************************************************)
EXTENDS MigrationGraph, Settings

CONSTANTS
  Operators,       \* who runs commands, deployment jobs and starts of the application
  Packages,        \* what may be on disk
  Situations,      \* an operator's environment and the server its URL leads to
  Configurations,  \* an application's environment and the servers it finds
  SelfCommitting,  \* the revisions whose SQL file ends with a COMMIT of its own
  Repeatable,      \* the revisions whose SQL can run twice without an error
  Redefining,      \* the revisions that define anew what a repeatable one defines
  VectorAt         \* the revision that creates the extension "vector"

ASSUME DeploymentAssumption ==
  /\ SelfCommitting \subseteq 1..N /\ Repeatable \subseteq 1..N /\ Redefining \subseteq 1..N
  /\ SelfCommitting \cap Repeatable = {}
  /\ VectorAt \in 1..N /\ Frozen \in Packages

\* A directory has finitely many files, a wrapper one id or none (the constant is
\* a string, or it is not), and finitely many parents.
ASSUME PackageAssumption ==
  \A p \in Packages :
    /\ IsFiniteSet(p.files)
    /\ \A f \in p.files :
         /\ f.revision = {} \/ \E id \in f.revision : f.revision = {id} /\ id # Ended
         /\ IsFiniteSet(f.down)

VARIABLES
  package,     \* the migration package on disk
  schema,      \* the revisions whose objects the database has
  table,       \* whether it has an alembic_version table
  version,     \* the rows of that table
  extensions,  \* the extensions installed
  reverted,    \* the revisions whose definitions an earlier revision, run late, has undone
  pc,          \* where each operator's command is
  at,          \* the revision Alembic believes the database to be at, 0 for none
  holding,     \* the operators whose transaction has written the version row
  fine,        \* what a command has read so far is as it should be
  link,        \* where it said it would connect, and where it did
  settings,    \* the configuration of the application that is started
  result,      \* what the operator's last command has reported, "none" for a failure
  altered      \* history: the roles whose password was set, and where

dbVars == <<schema, table, version, extensions, reverted>>
vars == <<package, schema, table, version, extensions, reverted, pc, at, holding, fine,
          link, settings, result, altered>>

REQUIRED_EXTENSIONS == {"pg_stat_statements", "pgcrypto", "vector"}
RUNTIME_ROLES  == {"app_api", "app_worker", "app_readonly"}
LOOPBACK_HOSTS == {"127.0.0.1", "::1", "localhost"}
LOOPBACK_SERVER_ADDRESSES == {"127.0.0.1", "::1"}
PASSWORD_ENVIRONMENTS == {"local", "test"}
MINIMUM_POSTGRES == 16
MINIMUM_REDIS_VERSION == <<7, 2>>

Unknown == N + 1   \* the revision of a newer build

NoLink == [named |-> "nowhere", dialled |-> "nowhere", database |-> "nowhere"]
NoSettings == [process |-> "none"]
Migrating == {"migrating", "applied", "recorded"}
Steps == {"idle", "walking", "check connected", "check read",
          "gate inspected", "gate connected", "gate read",
          "upgrade inspected", "upgrade connected", "upgrade read", "alembic started", "heads read", "after alembic",
          "app connected", "app checked"} \cup Migrating
Results == {"none", "graph ok", "head ok", "gate ok", "upgrade ok", "password ok",
            "app verified", "app gated"}

ExtensionsOf(k) ==
  (IF k = 1 THEN {"pg_stat_statements", "pgcrypto"} ELSE {})
    \cup (IF k = VectorAt THEN {"vector"} ELSE {})

\* A database is new, migrated to some revision, by Alembic or outside it, or
\* by a newer build; an empty version table and one with several rows occur as
\* well, and a restored database may lack its extensions.
Init ==
  /\ package \in Packages
  /\ \E k \in 0..Unknown :
       /\ schema = 1..k
       /\ \/ table = FALSE /\ version = {}
          \/ table = TRUE /\ version = {k} \ {0}
          \/ table = TRUE /\ k > 1 /\ version = {k - 1, k}
       /\ extensions \in {{}, UNION {ExtensionsOf(i) : i \in 1..k}}
  /\ reverted = {}
  /\ pc = [o \in Operators |-> "idle"]
  /\ at = [o \in Operators |-> 0]
  /\ holding = {}
  /\ fine = [o \in Operators |-> TRUE]
  /\ link = [o \in Operators |-> NoLink]
  /\ settings = [o \in Operators |-> NoSettings]
  /\ result = [o \in Operators |-> "none"]
  /\ altered = {}

-----------------------------------------------------------------------------
(* How commands begin and end                                              *)

\* main: a command ends; its transaction is over.  Where it connected is kept,
\* for the properties, if it reported something about that place.
End(o, outcome) ==
  /\ pc' = [pc EXCEPT ![o] = "idle"]
  /\ at' = [at EXCEPT ![o] = 0]
  /\ fine' = [fine EXCEPT ![o] = TRUE]
  /\ holding' = holding \ {o}
  /\ result' = [result EXCEPT ![o] = outcome]
  /\ IF outcome \in {"gate ok", "app verified", "app gated"} THEN UNCHANGED <<link, settings>>
     ELSE /\ link' = [link EXCEPT ![o] = NoLink]
          /\ settings' = [settings EXCEPT ![o] = NoSettings]
  /\ UNCHANGED package

Step(o, step, sofar) ==
  /\ pc' = [pc EXCEPT ![o] = step]
  /\ fine' = [fine EXCEPT ![o] = sofar]
  /\ UNCHANGED <<package, at, holding, link, settings, result, altered>>

\* A command that reaches the server begins: its URL named one target, and
\* libpq dialled one.
Connect(o, step, s) ==
  /\ pc' = [pc EXCEPT ![o] = step]
  /\ link' = [link EXCEPT ![o] =
       [named |-> [host |-> s.url.host, port |-> s.url.port, dbname |-> s.url.database,
                   user |-> s.url.user],
        dialled |-> LibpqDials(s.url, s.variables), database |-> s.server.database]]
  /\ result' = [result EXCEPT ![o] = "none"]
  /\ settings' = [settings EXCEPT ![o] = NoSettings]
  /\ UNCHANGED <<package, dbVars, at, holding, fine, altered>>

\* It is refused, or fails: a transaction that is open is rolled back.
Refuse(o) == End(o, "none") /\ UNCHANGED <<dbVars, altered>>

\* An error, a lost connection, a lock timeout; or the process is killed.
Fail(o) == pc[o] # "idle" /\ Refuse(o)

-----------------------------------------------------------------------------
(* What a migration command checks before it connects                      *)

SAFE_LIBPQ_QUERY_PARAMETERS == {"application_name", "connect_timeout", "sslmode", "sslrootcert"}

_migration_url(s) ==
  s.url.parses /\ s.url.driver = "postgresql+psycopg" /\ s.url.user \notin RUNTIME_ROLES

\* Mutant of migration_target: the PG* variables are not looked at.
TargetWhateverVariables(s) ==
  /\ s.url.query \subseteq SAFE_LIBPQ_QUERY_PARAMETERS
  /\ is_single_host(s.url.host) /\ Port(s.url)
  /\ s.url.database # Absent /\ s.url.user # Absent

migration_target(s) ==
  /\ s.url.query \subseteq SAFE_LIBPQ_QUERY_PARAMETERS
  /\ s.variables = {}
  /\ is_single_host(s.url.host) /\ Port(s.url)
  /\ s.url.database # Absent /\ s.url.user # Absent

missing_prerequisites(server) ==
  \/ server.version < MINIMUM_POSTGRES
  \/ ~(REQUIRED_EXTENSIONS \subseteq server.available)
  \/ ~server.preloaded

\* command_graph, by itself or as the beginning of another command.  A walk
\* that comes to no end lasts until somebody kills it.
Inspects(o, step) ==
  /\ pc[o] = "idle"
  /\ IF package.present /\ ~WalkEnds(read_revisions(package))
     THEN pc' = [pc EXCEPT ![o] = "walking"]
     ELSE validate_frozen_baseline(package) /\ pc' = [pc EXCEPT ![o] = step]
  /\ result' = [result EXCEPT ![o] = IF pc'[o] = "idle" THEN "graph ok" ELSE "none"]
  /\ link' = [link EXCEPT ![o] = NoLink]
  /\ settings' = [settings EXCEPT ![o] = NoSettings]
  /\ UNCHANGED <<package, dbVars, at, holding, fine, altered>>

Graph(o) == Inspects(o, "idle")
GateInspects(o) == Inspects(o, "gate inspected")
UpgradeInspects(o) == Inspects(o, "upgrade inspected")

\* _validated_graph raises
Inspected(o) ==
  /\ pc[o] = "idle"
  /\ ~package.present \/ WalkEnds(read_revisions(package))
  /\ ~validate_frozen_baseline(package)
  /\ Refuse(o)

\* command_check: the extensions are read, then the revisions.
Check(o, s) ==
  /\ pc[o] = "idle"
  /\ IF _migration_url(s) /\ migration_target(s) /\ ~missing_prerequisites(s.server)
     THEN Connect(o, "check connected", s) ELSE Refuse(o)

CheckExtensions(o) ==
  /\ pc[o] = "check connected"
  /\ Step(o, "check read", REQUIRED_EXTENSIONS \subseteq extensions)
  /\ UNCHANGED dbVars

\* revision_problem finds none
AtHead == table /\ version = {N}

\* With --expect-head; without it, nothing is said of the revision.
CheckRevisions(o) ==
  /\ pc[o] = "check read"
  /\ End(o, IF AtHead /\ fine[o] THEN "head ok" ELSE "none")
  /\ UNCHANGED <<dbVars, altered>>

\* command_gate, from the graph to the connected identity
Gate(o, s) ==
  /\ pc[o] = "gate inspected"
  /\ IF /\ s.expected = N
        /\ _migration_url(s) /\ migration_target(s)
        /\ {s.server.session, s.server.current} \cap RUNTIME_ROLES = {}
        /\ s.server.database = s.url.database
     THEN Connect(o, "gate connected", s) ELSE Refuse(o)

GateRevisions(o) ==
  /\ pc[o] = "gate connected"
  /\ Step(o, "gate read", AtHead)
  /\ UNCHANGED dbVars

\* Mutant of GateExtensions: only the extensions are told of.
GateExtensionsOnly(o) ==
  /\ pc[o] = "gate read"
  /\ End(o, IF REQUIRED_EXTENSIONS \subseteq extensions THEN "gate ok" ELSE "none")
  /\ UNCHANGED <<dbVars, altered>>

GateExtensions(o) ==
  /\ pc[o] = "gate read"
  /\ End(o, IF fine[o] /\ REQUIRED_EXTENSIONS \subseteq extensions THEN "gate ok" ELSE "none")
  /\ UNCHANGED <<dbVars, altered>>

-----------------------------------------------------------------------------
(* command_upgrade, and Alembic within it                                  *)

Upgrade(o, s) ==
  /\ pc[o] = "upgrade inspected"
  /\ IF _migration_url(s) /\ migration_target(s)
     THEN Connect(o, "upgrade connected", s) ELSE Refuse(o)

UpgradeRevisions(o) ==
  /\ pc[o] = "upgrade connected"
  /\ IF Cardinality(version) > 1 THEN Refuse(o)
     ELSE Step(o, "upgrade read", table) /\ UNCHANGED dbVars

\* Mutant of UpgradeSentinel: a database migrated outside Alembic is not seen.
UpgradeBlindly(o) ==
  /\ pc[o] = "upgrade read"
  /\ Step(o, "alembic started", TRUE)
  /\ UNCHANGED dbVars

\* A second statement, the schema of revision 1 is looked for.
UpgradeSentinel(o) ==
  /\ pc[o] = "upgrade read"
  /\ IF ~fine[o] /\ 1 \in schema THEN Refuse(o)
     ELSE Step(o, "alembic started", TRUE) /\ UNCHANGED dbVars

\* The child process reads the version table, once.  It knows the revisions of
\* the package only.
AlembicStarts(o) ==
  /\ pc[o] = "alembic started"
  /\ IF Cardinality(version) > 1 \/ Unknown \in version THEN Refuse(o)
     ELSE /\ at' = [at EXCEPT ![o] = IF version = {} THEN 0 ELSE The(version)]
          /\ pc' = [pc EXCEPT ![o] = IF version = {} THEN "heads read" ELSE "migrating"]
          /\ UNCHANGED <<package, dbVars, holding, fine, link, settings, result, altered>>

\* If it read no row it creates the table, unless there is one by now, in the
\* transaction of its first migration; it waits for another that is doing so.
_ensure_version_table(o) ==
  /\ pc[o] = "heads read"
  /\ table \/ \A p \in Operators : pc[p] \notin Migrating
  /\ pc' = [pc EXCEPT ![o] = "migrating"]
  /\ UNCHANGED <<package, dbVars, at, holding, fine, link, settings, result, altered>>

Next_(o) == at[o] + 1

\* Run after revision k, the repeatable revision j puts back its own definition
\* of what k has redefined.
Replaces(j, k) == j < k /\ j \in Repeatable /\ k \in Redefining

\* Another transaction, in progress, has made or redefined the same objects:
\* PostgreSQL waits for it.
Blocked(o) == \E p \in Operators \ {o} :
  /\ pc[p] \in {"applied", "recorded"} /\ Next_(p) \notin SelfCommitting
  /\ Next_(p) = Next_(o) \/ Replaces(Next_(p), Next_(o)) \/ Replaces(Next_(o), Next_(p))

\* run_frozen_sql: a transaction is begun and the file is run.  It fails on
\* objects that are there.  A COMMIT in the file ends the transaction, with the
\* objects, and the version table if Alembic created it, made durable.
Apply(o) ==
  /\ pc[o] = "migrating" /\ at[o] < N /\ ~Blocked(o)
  /\ Next_(o) \notin schema \ Repeatable
  /\ pc' = [pc EXCEPT ![o] = "applied"]
  /\ IF Next_(o) \in SelfCommitting
     THEN /\ schema' = schema \cup {Next_(o)} /\ table' = TRUE
          /\ extensions' = extensions \cup ExtensionsOf(Next_(o))
     ELSE UNCHANGED <<schema, table, extensions>>
  /\ UNCHANGED <<package, version, reverted, at, holding, fine, link, settings, result, altered>>

\* The rows that the statement of o changes: the old one and the new.
Touched(o) == {at[o], Next_(o)}

\* The root revision: INSERT, whatever other rows there are.  A later one:
\* UPDATE ... WHERE version_num = the revision before, and exactly one row must
\* match.  version_num is the primary key, and the statement waits for another
\* that has written one of its rows.
Record(o) ==
  /\ pc[o] = "applied"
  /\ \A p \in holding : Touched(o) \cap Touched(p) = {}
  /\ at[o] = 0 \/ at[o] \in version
  /\ Next_(o) \notin version
  /\ pc' = [pc EXCEPT ![o] = "recorded"]
  /\ holding' = holding \cup {o}
  /\ UNCHANGED <<package, dbVars, at, fine, link, settings, result, altered>>

\* transaction_per_migration: objects and version row become durable together.
CommitRevision(o) ==
  /\ pc[o] = "recorded"
  /\ schema' = schema \cup {Next_(o)}
  /\ extensions' = extensions \cup ExtensionsOf(Next_(o))
  /\ reverted' = (reverted \cup {k \in schema : Replaces(Next_(o), k)}) \ {Next_(o)}
  /\ table' = TRUE
  /\ version' = (version \ {at[o]}) \cup {Next_(o)}
  /\ \/ /\ at' = [at EXCEPT ![o] = Next_(o)]
        /\ pc' = [pc EXCEPT ![o] = "migrating"]
        /\ holding' = holding \ {o}
        /\ UNCHANGED <<package, fine, link, settings, result>>
     \/ End(o, "none")   \* the answer is lost
  /\ UNCHANGED altered

AlembicEnds(o) ==
  /\ pc[o] = "migrating" /\ at[o] = N
  /\ pc' = [pc EXCEPT ![o] = "after alembic"]
  /\ UNCHANGED <<package, dbVars, at, holding, fine, link, settings, result, altered>>

UpgradeEnds(o) ==
  /\ pc[o] = "after alembic"
  /\ End(o, IF AtHead THEN "upgrade ok" ELSE "none")
  /\ UNCHANGED <<dbVars, altered>>

-----------------------------------------------------------------------------
\* command_set_runtime_password: everything is checked before the connection,
\* and the server that was reached before the role is altered.
SetRuntimePassword(o, s) ==
  /\ pc[o] = "idle"
  /\ IF /\ s.environment \in PASSWORD_ENVIRONMENTS
        /\ ValidDatabaseUrl(s.runtime)
        /\ _migration_url(s) /\ migration_target(s)
        /\ s.runtime.port # 0
        /\ {s.runtime.host, s.url.host} \subseteq LOOPBACK_HOSTS
        /\ <<target(s.runtime).host, target(s.runtime).port, target(s.runtime).database>> =
             <<s.url.host, s.url.port, s.url.database>>
        /\ s.runtime.user \in RUNTIME_ROLES /\ s.password
        /\ s.server.address \in LOOPBACK_SERVER_ADDRESSES
        /\ s.server.port = s.url.port /\ s.server.database = s.url.database
     THEN /\ altered' = altered \cup
               {[environment |-> s.environment, address |-> s.server.address,
                 port |-> s.server.port, database |-> s.server.database,
                 role |-> s.runtime.user, named |-> target(s.runtime)]}
          /\ End(o, "password ok")
          /\ UNCHANGED dbVars
     ELSE Refuse(o)

-----------------------------------------------------------------------------
(* The application starts: load_settings, verify_database_baseline and     *)
(* RedisClient.verify_baseline                                             *)

\* _parse_major_minor gives <<0, 0>> for what it cannot read.
RedisAccepted(pair) ==
  \/ pair[1] > MINIMUM_REDIS_VERSION[1]
  \/ pair[1] = MINIMUM_REDIS_VERSION[1] /\ pair[2] >= MINIMUM_REDIS_VERSION[2]

StartApp(o, c) ==
  /\ pc[o] = "idle"
  /\ IF /\ Accepted(c.process, c.dotenv)
        /\ c.version >= MINIMUM_POSTGRES /\ ~c.superuser /\ ~c.bypassrls
     THEN LET url == Complete(c.process, c.dotenv)["DATABASE"] IN
          /\ pc' = [pc EXCEPT ![o] = "app connected"]
          /\ settings' = [settings EXCEPT ![o] = c]
          /\ link' = [link EXCEPT ![o] =
               [named |-> target(url), dialled |-> AsyncpgDials(url), database |-> url.database]]
          /\ result' = [result EXCEPT ![o] = "none"]
          /\ UNCHANGED <<package, dbVars, at, holding, fine, altered>>
     ELSE Refuse(o)

VerifyExtensions(o) ==
  /\ pc[o] = "app connected"
  /\ IF REQUIRED_EXTENSIONS \subseteq extensions
     THEN Step(o, "app checked", TRUE) /\ UNCHANGED dbVars ELSE Refuse(o)

\* The runtime role may read alembic_version, or the gate is trusted for it.
VerifyRevision(o) ==
  /\ pc[o] = "app checked"
  /\ IF ~table \/ (settings[o].canRead /\ version # {N}) \/ ~RedisAccepted(settings[o].redis)
     THEN Refuse(o)
     ELSE /\ End(o, IF settings[o].canRead THEN "app verified" ELSE "app gated")
          /\ UNCHANGED <<dbVars, altered>>

-----------------------------------------------------------------------------
\* A step of the command that operator o runs, or the beginning of one.
Command(o) ==
  \/ Graph(o) \/ GateInspects(o) \/ UpgradeInspects(o) \/ Inspected(o)
  \/ \E s \in Situations : Check(o, s) \/ Gate(o, s) \/ Upgrade(o, s) \/ SetRuntimePassword(o, s)
  \/ \E c \in Configurations : StartApp(o, c)
  \/ CheckExtensions(o) \/ CheckRevisions(o)
  \/ GateRevisions(o) \/ GateExtensions(o)
  \/ UpgradeRevisions(o) \/ UpgradeSentinel(o)
  \/ AlembicStarts(o) \/ _ensure_version_table(o) \/ Apply(o) \/ Record(o) \/ CommitRevision(o) \/ AlembicEnds(o)
  \/ UpgradeEnds(o)
  \/ VerifyExtensions(o) \/ VerifyRevision(o)
  \/ Fail(o)

Next == \E o \in Operators : Command(o)

Spec == Init /\ [][Next]_vars

-----------------------------------------------------------------------------
(* Properties                                                              *)

TypeOK ==
  /\ package \in Packages
  /\ schema \subseteq 1..Unknown /\ version \subseteq 1..Unknown /\ reverted \subseteq 1..Unknown
  /\ table \in BOOLEAN /\ (version # {} => table)
  /\ extensions \subseteq REQUIRED_EXTENSIONS
  /\ pc \in [Operators -> Steps]
  /\ at \in [Operators -> 0..N]
  /\ holding \subseteq Operators
  /\ fine \in [Operators -> BOOLEAN]
  /\ result \in [Operators -> Results]
  /\ DOMAIN link = Operators /\ DOMAIN settings = Operators

\* The database has the revisions up to some one, and the newest version row
\* names that one.  Only a revision that commits by itself may be there before
\* it is named (env.py promises that none is).
VersionAgrees ==
  /\ \E k \in 0..Unknown : schema = 1..k
  /\ version # {} => \E v \in version :
       /\ \A w \in version : w <= v
       /\ 1..v \subseteq schema /\ schema \ (1..v) \subseteq {v + 1} \cap SelfCommitting
  /\ table /\ version = {} => schema \subseteq {1} \cap SelfCommitting

\* No two transactions write the same row, or run the same revision, and each
\* goes on from what is there.
OneWriter ==
  /\ \A o \in Operators : pc[o] = "recorded" <=> o \in holding
  /\ \A o, p \in holding : o # p => Touched(o) \cap Touched(p) = {}
  /\ \A o \in holding : Next_(o) \notin version /\ (at[o] = 0 \/ at[o] \in version)
  /\ \A o, p \in Operators :
       pc[o] \in {"applied", "recorded"} /\ pc[p] \in {"applied", "recorded"} /\ at[o] = at[p] => o = p
  /\ \A o \in Operators :
       pc[o] \in {"applied", "recorded"} /\ Next_(o) \in SelfCommitting => Next_(o) \in schema

\* Alembic is never ahead of the newest row, it is never at work on objects that
\* were made outside it, one operator creates the version table, and only a
\* repeatable revision is run again when later ones are there.
MigrationInStep(o) ==
  /\ pc[o] \in {"alembic started", "heads read"} \cup Migrating => table \/ schema = {}
  /\ pc[o] = "heads read" => at[o] = 0
  /\ pc[o] \in Migrating => at[o] = 0 \/ \E v \in version : at[o] <= v
  /\ pc[o] \in Migrating /\ ~table => \A p \in Operators : pc[p] \in Migrating => p = o
  /\ pc[o] \in {"applied", "recorded"} => at[o] < N
  /\ pc[o] \in {"applied", "recorded"} /\ Next_(o) \notin Repeatable => \A v \in version : v <= at[o]

\* A second row beside the newest one is that of repeatable revisions which an
\* upgrade that had read an empty table has run late, or nobody migrates.
RowsAreLate ==
  \/ \A v, w \in version : v < w => 1..v \subseteq Repeatable
  \/ \A o \in Operators : pc[o] \notin {"heads read"} \cup Migrating

\* Definitions that have been undone are never unseen: there is a second row, and
\* with it every later gate, check, upgrade and verified start is refused.
RevertedIsSeen == reverted # {} => \E v, w \in version : v < w

\* The head has been reached, and rows beside it are late ones.
HeadReached ==
  table /\ N \in version /\ \A v \in version \ {N} : 1..v \subseteq Repeatable

\* What a command has read stays true while it runs, whoever migrates: of the
\* head, that it has been reached.
ReadingLasts(o) ==
  /\ pc[o] = "check read" /\ fine[o] => REQUIRED_EXTENSIONS \subseteq extensions
  /\ pc[o] = "gate read" /\ fine[o] => HeadReached
  /\ pc[o] = "upgrade read" /\ fine[o] => table
  /\ pc[o] = "app checked" => REQUIRED_EXTENSIONS \subseteq extensions

\* The package is the frozen one; what a checkout adds to it does not matter.
IsFrozen(p) ==
  p.present /\ p.files = Frozen.files /\ p.sqls = Frozen.sqls /\ p.content = Frozen.content

\* A gate and an upgrade go on with the frozen package only.
InspectedFirst(o) ==
  pc[o] \in {"gate inspected", "gate connected", "gate read", "upgrade inspected",
             "upgrade connected", "upgrade read", "alembic started", "heads read", "after alembic"}
              \cup Migrating => IsFrozen(package)

\* A command that says the database is at the head says so truly: the package
\* is the frozen one, and the database has every revision and the head's row,
\* which nothing that any operator does later takes away.  What may join that
\* row later is the row of a repeatable revision only.
TrueReport(o) ==
  /\ result[o] \in {"gate ok", "head ok", "upgrade ok", "app verified"} =>
       HeadReached /\ schema = 1..N
  /\ result[o] \in {"gate ok", "head ok", "app verified", "app gated"} =>
       REQUIRED_EXTENSIONS \subseteq extensions
  /\ result[o] \in {"gate ok", "upgrade ok", "graph ok"} => IsFrozen(package)

\* Every report is true.  And what a command reads to give one, a single row that
\* names the head, means every revision as it was written.
HeadIsTrue ==
  /\ \A o \in Operators : TrueReport(o)
  /\ AtHead => schema = 1..N /\ reverted = {}

\* An application that starts uses what its environment may use: a test its own
\* database, a deployment TLS and nothing of a dotenv file, and none of them a
\* role that row-level security does not bind.
Declared(c, dialled) ==
  LET s == Complete(c.process, c.dotenv) IN
  /\ c.process["ENVIRONMENT"] = s["ENVIRONMENT"]
  /\ s["ENVIRONMENT"] = "test" => dialled.database \in TestDatabases
  /\ s["ENVIRONMENT"] \in ProductionLike =>
       /\ s["DATABASE"].ssl \in TLSModes /\ s["REDIS"].scheme = "rediss"
       /\ \A name \in DOMAIN s \ DOMAIN Defaults : s[name] = c.process[name]
  /\ dialled.user \notin FORBIDDEN_RUNTIME_DATABASE_USERS
  /\ ~c.superuser /\ ~c.bypassrls

\* A command connects to the server, database and role that its URL names and
\* to no other, whatever options, variables and defaults the driver knows of; a
\* gate that passed looked at the database it was asked about; and what an
\* application connects with is declared.
ConnectedAs(o) ==
  /\ link[o].named = link[o].dialled
  /\ pc[o] \in {"gate connected", "gate read"} \/ result[o] = "gate ok" =>
       link[o].database = link[o].named.dbname
  /\ pc[o] \in {"app connected", "app checked"} \/ result[o] \in {"app verified", "app gated"} =>
       Declared(settings[o], link[o].dialled)

\* So does every operator's; and a password is set only on this machine, for a
\* runtime role, away from any tenant.
ConnectsAsDeclared ==
  /\ \A o \in Operators : ConnectedAs(o)
  /\ \A a \in altered :
       /\ a.environment \notin ProductionLike /\ a.address \in LOOPBACK_SERVER_ADDRESSES
       /\ a.role \in RUNTIME_ROLES
       /\ a.port = a.named.port /\ a.database = a.named.database

\* The version row and the objects agree, and every command's view of them is
\* true, at every step of every command.
Inductive ==
  /\ TypeOK /\ VersionAgrees /\ OneWriter /\ RowsAreLate /\ RevertedIsSeen
  /\ \A o \in Operators : MigrationInStep(o) /\ ReadingLasts(o) /\ InspectedFirst(o)
  /\ HeadIsTrue /\ ConnectsAsDeclared

\* The walk over the package finds a chain exactly when its revisions are one.
\* It comes to an end, unless two wrappers claim the same id.
ChainIsLinear ==
  LET revisions == read_revisions(package) IN
  IF WalkEnds(revisions)
  THEN LET chain == _walk_chain(revisions) IN
       /\ IsLinear(revisions) <=> chain # <<>>
       /\ chain # <<>> => \E order \in Orders(revisions) :
            \A i \in DOMAIN order : order[i].revision = {chain[i]}
  ELSE \E r1, r2 \in revisions : r1 # r2 /\ r1.revision = r2.revision
=============================================================================
