---------------------------- MODULE MCDeployment ----------------------------
(* A small instance of Deployment: three revisions, the last of which        *)
(* commits by itself.  Packages, environments and configurations are a good  *)
(* one and what deviates from it in one thing, or in two that matter together.*)
EXTENDS Deployment, TLC

Symmetry == Permutations(Operators)

With(files) == [Frozen EXCEPT !.files = files]

\* Every way to wire three wrappers, with or without a copy of one of them
\* under another name.
Wired == {With({[Wrapper(i) EXCEPT !.down = down[i]] : i \in 1..3}) :
            down \in [1..3 -> {{}, {1}, {2}, {3}}]}
Copied == {With({[Wrapper(i) EXCEPT !.stem = i, !.revision = IF i = 3 THEN {id} ELSE {i},
                                    !.down = IF i = 3 THEN down ELSE Wrapper(i).down] : i \in 1..3}) :
             id \in {1, 2}, down \in {{}, {1}, {2}}}

AllPackages ==
  Wired \cup Copied \cup
  {Frozen, [Frozen EXCEPT !.checkout = "CRLF"], [Frozen EXCEPT !.content = "edited"],
   [Frozen EXCEPT !.present = FALSE, !.files = {}, !.sqls = {}],
   [Frozen EXCEPT !.sqls = 1..2], [Frozen EXCEPT !.sqls = 1..4],
   With({Wrapper(1), Wrapper(2)}), With({Wrapper(i) : i \in 1..4}),
   With({Wrapper(1), Wrapper(2), [Wrapper(3) EXCEPT !.down = {1, 2}]}),
   With({Wrapper(1), Wrapper(2), [Wrapper(3) EXCEPT !.revision = {}]}),
   With({Wrapper(1), Wrapper(2), [Wrapper(3) EXCEPT !.sql = {2}]}),
   With({Wrapper(1), Wrapper(2), [Wrapper(3) EXCEPT !.revision = {0}]})}

-----------------------------------------------------------------------------
Good ==
  [url |-> [parses |-> TRUE, driver |-> "postgresql+psycopg", user |-> "deploy",
            host |-> "127.0.0.1", port |-> 5433, database |-> "voice_agent",
            query |-> {"sslmode"}, ssl |-> Absent],
   variables |-> {}, environment |-> "local", expected |-> N, password |-> TRUE,
   runtime |-> [parses |-> TRUE, driver |-> DATABASE_DRIVER, user |-> "app_api",
                host |-> "127.0.0.1", port |-> 5433, database |-> "voice_agent",
                query |-> {}, ssl |-> Absent],
   server |-> [database |-> "voice_agent", address |-> "127.0.0.1", port |-> 5433,
               session |-> "deploy", current |-> "deploy", version |-> 18,
               available |-> REQUIRED_EXTENSIONS, preloaded |-> TRUE]]

AllSituations ==
  {Good, [Good EXCEPT !.expected = N - 1], [Good EXCEPT !.variables = {"PGHOSTADDR"}],
   [Good EXCEPT !.environment = "production"], [Good EXCEPT !.password = FALSE]}
  \cup {[Good EXCEPT !.url.query = {"sslmode", option}] : option \in {"hostaddr", "dbname", "user", "port"}}
  \cup {[Good EXCEPT !.url.host = host] : host \in {Absent, "h1,h2"}}
  \cup {[Good EXCEPT !.url.port = 0], [Good EXCEPT !.url.database = Absent],
        [Good EXCEPT !.url.user = "app_worker"], [Good EXCEPT !.url.user = Absent],
        [Good EXCEPT !.url.parses = FALSE], [Good EXCEPT !.url.driver = DATABASE_DRIVER]}
  \cup {[Good EXCEPT !.server.current = "app_api"], [Good EXCEPT !.server.database = "alias"],
        [Good EXCEPT !.server.address = "172.17.0.2"], [Good EXCEPT !.server.version = 15],
        [Good EXCEPT !.server.preloaded = FALSE], [Good EXCEPT !.server.available = {"pgcrypto"}]}
  \cup {[Good EXCEPT !.runtime.host = "db"], [Good EXCEPT !.runtime.port = 5434],
        [Good EXCEPT !.runtime.port = 0], [Good EXCEPT !.runtime.user = "postgres"]}

-----------------------------------------------------------------------------
Database(name, ssl) ==
  [parses |-> TRUE, driver |-> DATABASE_DRIVER, user |-> "app_api", host |-> "db", port |-> 0,
   database |-> name, query |-> IF ssl = Absent THEN {} ELSE {"ssl"}, ssl |-> ssl]
Redis(scheme) == [parses |-> TRUE, scheme |-> scheme, host |-> "redis", extras |-> FALSE]
Environment(name, database, redis) == [ENVIRONMENT |-> name, DATABASE |-> database, REDIS |-> redis]
Also(name, value) == [x \in {name} |-> value]

Local == [process |-> Environment("local", Database("voice_agent", Absent), Redis("redis")),
          dotenv |-> Also("LOG_FORMAT", "console"),
          version |-> 18, superuser |-> FALSE, bypassrls |-> FALSE, canRead |-> FALSE, redis |-> <<7, 2>>]
Production ==
  [Local EXCEPT !.process = Environment("production", Database("voice_agent", "verify-full"), Redis("rediss"))]
Test == [Local EXCEPT !.process = Environment("test", Database("voice_agent_test_1", Absent), Redis("redis"))]
FromFile ==   \* only the environment's name is in the environment
  {[Local EXCEPT !.process = Also("ENVIRONMENT", name),
                 !.dotenv = [x \in {"ENVIRONMENT", "DATABASE", "REDIS"} |-> Local.process[x]]] :
     name \in {"local", "production"}}

AllConfigurations ==
  {Local, Production, Test, [Production EXCEPT !.canRead = TRUE],
   [Test EXCEPT !.process = Environment("test", Database("voice_agent", Absent), Redis("redis"))],
   [Production EXCEPT !.process = Environment("staging", Database("voice_agent", "prefer"), Redis("rediss"))],
   [Production EXCEPT !.process = Environment("production", Database("voice_agent", "require"), Redis("redis"))],
   [Local EXCEPT !.superuser = TRUE], [Local EXCEPT !.bypassrls = TRUE], [Local EXCEPT !.version = 15],
   [Local EXCEPT !.redis = <<7, 0>>], [Local EXCEPT !.redis = <<0, 0>>],
   [Local EXCEPT !.process.DATABASE.user = "app_migration"],
   [Local EXCEPT !.process.DATABASE.host = "/run/postgresql"],
   [Local EXCEPT !.process.DATABASE.query = {"ssl", "database"}],
   [Local EXCEPT !.dotenv = Also("NUMBERS", [Defaults.NUMBERS EXCEPT !.pool_size = 0])],
   [Local EXCEPT !.process = Over(@, Also("ORIGINS", {[scheme |-> "http", host |-> "name", port |-> 80, rest |-> Absent]}))],
   [Production EXCEPT !.process = Over(@, Also("ORIGINS", {[scheme |-> "http", host |-> "name", port |-> 0, rest |-> Absent]}))],
   [Production EXCEPT !.process = Over(@, Also("LOG_LEVEL", "DEBUG"))]} \cup FromFile

-----------------------------------------------------------------------------
\* What is on disk when it is not the frozen package does not depend on the
\* database, so one database is enough for it.
MCInit == Init /\ (package # Frozen => schema = {} /\ ~table)
MCSpec == MCInit /\ [][Next]_vars
=============================================================================
