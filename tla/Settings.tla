------------------------------ MODULE Settings ------------------------------
(***************************************************************************)
(* What the settings accept, and where the drivers connect with them       *)
(* (platform/config, apps/api/settings.py, engine.py).                     *)
(*                                                                         *)
(* A URL is the record of its parts; a port that is absent is 0.           *)
(* Hosts, names and values are representatives of what the code tells      *)
(* apart.                                                                  *)
(***************************************************************************)
EXTENDS Naturals, FiniteSets

\* [parses, driver, user, host, port, database, query, ssl]: query is the set
\* of the option names, ssl the value of that option ("twice" when repeated).

\* The part of a URL that is not there.
Absent == ""

\* is_single_host: one DNS name or one address, no list and no socket path.
SingleHosts == {"db", "localhost", "127.0.0.1", "::1"}
is_single_host(host) == host \in SingleHosts

DATABASE_DRIVER       == "postgresql+asyncpg"
DEFAULT_POSTGRES_PORT == 5432
TestDatabases         == {"voice_agent_test_1"}   \* TEST_DATABASE_NAME_PREFIX
FORBIDDEN_RUNTIME_DATABASE_USERS == {"postgres", "app_migration", "app_platform_admin"}
TLSModes  == {"require", "verify-ca", "verify-full"}
SSLValues == {"disable", "allow", "prefer"} \cup TLSModes
ProductionLike == {"staging", "production"}

Port(url) == url.port \in 1..65535

\* DatabaseSettings._validate_url
ValidDatabaseUrl(url) ==
  /\ url.parses /\ url.driver = DATABASE_DRIVER
  /\ url.host # Absent /\ url.database # Absent /\ url.user # Absent
  /\ is_single_host(url.host)
  /\ url.port = 0 \/ Port(url)
  /\ url.query \subseteq {"ssl"}
  /\ "ssl" \in url.query => url.ssl \in SSLValues
  /\ url.user \notin FORBIDDEN_RUNTIME_DATABASE_USERS

\* DatabaseSettings.target, the identity the engine hands to the driver
target(url) ==
  [host |-> url.host, port |-> IF url.port = 0 THEN DEFAULT_POSTGRES_PORT ELSE url.port,
   database |-> url.database, user |-> url.user]

\* RedisSettings._validate_url, of [parses, scheme, host, extras]
ValidRedisUrl(url) ==
  url.parses /\ url.scheme \in {"redis", "rediss"} /\ url.host # Absent /\ ~url.extras

\* An origin is [scheme, host, port, rest]; "rest" is whatever else it has.
DefaultPort(scheme) == IF scheme = "https" THEN 443 ELSE 80
_is_valid_origin(origin) ==
  /\ origin.scheme \in {"http", "https"} /\ origin.rest = Absent
  /\ origin.host \in {"name", "ipv6"}
  /\ origin.port = 0 \/ (Port(origin) /\ origin.port # DefaultPort(origin.scheme))

\* The bounds of the numeric fields: what the pool, the probes and the
\* deadlines of the other modules take for granted.
Limits ==
  [pool_size |-> 1..100, max_overflow |-> 0..100, pool_timeout_seconds |-> 1..60,
   connect_timeout_seconds |-> 1..60, command_timeout_seconds |-> 1..300]
InLimits(numbers) == \A field \in DOMAIN numbers : numbers[field] \in Limits[field]

-----------------------------------------------------------------------------
(* load_settings: the process environment, and a dotenv file               *)

\* Pydantic takes a name from the environment before it looks in the file.
Over(process, dotenv) ==
  [name \in DOMAIN process \cup DOMAIN dotenv |->
     IF name \in DOMAIN process THEN process[name] ELSE dotenv[name]]

\* Only ENVIRONMENT=local, in the environment itself, lets the file be read.
Given(process, dotenv) ==
  IF "ENVIRONMENT" \in DOMAIN process /\ process["ENVIRONMENT"] = "local"
  THEN Over(process, dotenv) ELSE process

Defaults ==
  [LOG_FORMAT |-> "json", LOG_LEVEL |-> "INFO", ORIGINS |-> {},
   NUMBERS |-> [pool_size |-> 10, max_overflow |-> 5, pool_timeout_seconds |-> 10,
                connect_timeout_seconds |-> 5, command_timeout_seconds |-> 30]]

\* Mutant of EnvironmentRules: a test may use any database.
EnvironmentRulesAnyDatabase(s) ==
  s["ENVIRONMENT"] \in ProductionLike =>
    /\ s["DATABASE"].ssl \in TLSModes
    /\ s["REDIS"].scheme = "rediss"
    /\ s["LOG_FORMAT"] = "json" /\ s["LOG_LEVEL"] # "DEBUG"
    /\ \A origin \in s["ORIGINS"] : origin.scheme = "https"

\* _enforce_environment_rules and _enforce_api_environment_rules
EnvironmentRules(s) ==
  /\ s["ENVIRONMENT"] = "test" => target(s["DATABASE"]).database \in TestDatabases
  /\ s["ENVIRONMENT"] \in ProductionLike =>
       /\ s["DATABASE"].ssl \in TLSModes
       /\ s["REDIS"].scheme = "rediss"
       /\ s["LOG_FORMAT"] = "json" /\ s["LOG_LEVEL"] # "DEBUG"
       /\ \A origin \in s["ORIGINS"] : origin.scheme = "https"

Complete(process, dotenv) == Over(Given(process, dotenv), Defaults)

\* ApiSettings: every field has a value, each is valid, and so are all of them
Accepted(process, dotenv) ==
  LET s == Complete(process, dotenv) IN
  /\ {"ENVIRONMENT", "DATABASE", "REDIS"} \subseteq DOMAIN s
  /\ s["ENVIRONMENT"] \in {"local", "test"} \cup ProductionLike
  /\ ValidDatabaseUrl(s["DATABASE"]) /\ ValidRedisUrl(s["REDIS"])
  /\ InLimits(s["NUMBERS"])
  /\ \A origin \in s["ORIGINS"] : _is_valid_origin(origin)
  /\ EnvironmentRules(s)

-----------------------------------------------------------------------------
(* Where the drivers connect, given a URL and the environment              *)

\* asyncpg: the engine passes the identity explicitly, which wins over the
\* options of the URL and the PG* variables; a path is taken for a socket.
AsyncpgDials(url) ==
  [target(url) EXCEPT !.host = IF is_single_host(@) THEN @ ELSE "elsewhere"]

\* libpq: an option of the URL, a PG* variable or a default may stand in for
\* a part, and then it is somebody else who decides.
LibpqDials(url, variables) ==
  [host |-> IF \/ url.query \cap {"host", "hostaddr", "service", "servicefile"} # {}
               \/ variables # {} \/ ~is_single_host(url.host)
            THEN "elsewhere" ELSE url.host,
   port |-> IF "port" \in url.query \/ ~Port(url) THEN 0 ELSE url.port,
   dbname |-> IF "dbname" \in url.query \/ url.database = Absent THEN "another" ELSE url.database,
   user |-> IF "user" \in url.query \/ url.user = Absent THEN "another" ELSE url.user]
=============================================================================
