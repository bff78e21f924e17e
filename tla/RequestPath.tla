---------------------------- MODULE RequestPath ----------------------------
(***************************************************************************)
(* A request from the middleware to its answer: correlation id, CORS,      *)
(* error capture, routes, the request's transaction (Database.transaction  *)
(* behind get_db_session), the readiness probes, and a shutdown that may   *)
(* begin at any moment.                                                    *)
(*                                                                         *)
(* An asyncio task serves one request after another; it runs undisturbed   *)
(* from one await to the next, and may be cancelled at each of them.  What *)
(* the network, PostgreSQL and Redis do is a choice; "truth" remembers     *)
(* what really went wrong, for the properties to compare with the answer.  *)
(***************************************************************************)
EXTENDS DatabaseErrors, ErrorCatalog, FiniteSets

CONSTANTS
  Tasks,        \* the tasks that serve requests
  MaxRequests,  \* bound on the requests one task serves
  PoolSize      \* pool_size + max_overflow

ASSUME RequestAssumption ==
  MaxRequests \in Nat /\ PoolSize \in Nat \ {0} /\ IsFiniteSet(Tasks)

\* The failures below have at most three links, and _MAX_CHAIN (8) reaches them.
ASSUME ChainsAreSeen == MaxChain >= 3

VARIABLES
  pc,       \* where each task is
  kind,     \* what its request asks for
  serial,   \* how many requests it has begun
  context,  \* the context variables of the task: the request id, or NoId
  fault,    \* the exception that is being raised, or NoFault
  truth,    \* history: what went wrong in the request, "none" for nothing
  tx,       \* history: what PostgreSQL did with the request's transaction
  conn,     \* the tasks whose session holds a pooled connection
  closing,  \* connections of cancelled tasks that are still being given back
  checks,   \* readiness: the results so far
  probed,   \* history: the runtime's stage when the Redis probe began
  reply,    \* the response that was started, or NoReply
  logged,   \* history: the log lines of failures of the requests in progress,
            \* each <<request id, event>>
  stage     \* how far the runtime's shutdown has come

vars == <<pc, kind, serial, context, fault, truth, tx, conn, closing, checks,
          probed, reply, logged, stage>>

Kinds  == {"transaction", "readiness", "liveness", "preflight"}
Steps  == {"idle", "arrived", "acquiring", "in endpoint", "committing",
           "rolling back", "committed", "raised", "pinging postgres",
           "pinging redis", "sending"}
Stages == {"ready", "stopping", "closing redis", "disposing", "stopped"}

NoId    == <<>>
Ids     == Tasks \X (1..MaxRequests)
Id(t)   == <<t, serial[t]>>   \* generate_uuid7: no two requests get the same
NoFault == [type |-> "none", status |-> 0, links |-> <<>>]
NoReply == [status |-> 0, code |-> "none", header |-> NoId, envelope |-> NoId]
Unprobed == [postgres |-> "skipped", redis |-> "skipped"]

\* _closing of the Redis client and _disposing of the database
RedisClosing == stage \in {"closing redis", "disposing", "stopped"}
Disposing    == stage \in {"disposing", "stopped"}

Init ==
  /\ pc = [t \in Tasks |-> "idle"]
  /\ kind = [t \in Tasks |-> "none"]
  /\ serial = [t \in Tasks |-> 0]
  /\ context = [t \in Tasks |-> NoId]
  /\ fault = [t \in Tasks |-> NoFault]
  /\ truth = [t \in Tasks |-> "none"]
  /\ tx = [t \in Tasks |-> "none"]
  /\ conn = {} /\ closing = 0
  /\ checks = [t \in Tasks |-> Unprobed]
  /\ probed = [t \in Tasks |-> "none"]
  /\ reply = [t \in Tasks |-> NoReply]
  /\ logged = {}
  /\ stage = "ready"

-----------------------------------------------------------------------------
(* What can go wrong, and the exceptions that report it                    *)

Exception(type, status, links) == [type |-> type, status |-> status, links |-> links]
Other(links) == Exception("other", 0, links)

\* PostgreSQL, or the way to it, is gone
OutageReports ==
  {Other(<<"DBAPIError", "57P01">>), Other(<<"connection_invalidated", "08">>),
   Other(<<"PoolTimeoutError">>), Other(<<"Multiple exceptions">>),
   Other(<<"application", "DBAPIError", "ConnectionDoesNotExistError">>)}

\* The database takes no connections; or a statement finds an object unready
RefusalReports == {Other(<<"DBAPIError", "55000">>)}

\* The request, its data or the program is at fault.  An error raised while an
\* outage is handled, but not from it, shows no more of it than the others do.
RequestReports ==
  {Other(<<"DBAPIError", "23505">>), Other(<<"application">>),
   Other(<<"application", "CancelledError", "TimeoutError">>),
   Exception("HTTPException", 404, <<"application">>),
   Exception("HTTPException", 409, <<"application">>),
   Exception("RequestValidationError", 422, <<"application">>),
   Exception("PlatformError", 0, <<"application">>)}

\* Another service the endpoint talks to fails on the network.
NeighbourReports == {Other(<<"ConnectionError">>)}

\* No route, or another method, or a body that is no JSON.
RoutingReports ==
  {Exception("HTTPException", 404, <<>>), Exception("HTTPException", 405, <<>>),
   Exception("RequestValidationError", 400, <<>>)}

AcquisitionFailures ==
  {<<"outage", e>> : e \in OutageReports} \cup {<<"refusal", e>> : e \in RefusalReports}
    \cup {<<"request", Other(<<"28P01">>)>>}

StatementFailures ==
  {<<"outage", e>> : e \in OutageReports} \cup {<<"request", e>> : e \in RefusalReports \cup RequestReports}
    \cup {<<"neighbour", e>> : e \in NeighbourReports}
    \cup {<<"cache", Exception("CacheError", 0, <<"application">>)>>}

CommitFailures ==
  {<<"outage", e>> : e \in OutageReports} \cup {<<"request", Other(<<"DBAPIError", "23505">>)>>}

\* _unreachable
DatabaseError == Exception("DatabaseError", 0, <<"application">>)

\* What leaves transaction() when "exc" is raised in its body or its commit
TransactionRaises(exc) ==
  IF exc.type # "DatabaseError" /\ is_database_unavailable(exc.links) THEN DatabaseError ELSE exc

\* What leaves it when the connection could not be had
AcquisitionRaises(exc) ==
  IF is_connection_acquisition_unavailable(exc.links) THEN DatabaseError
  ELSE TransactionRaises(exc)

-----------------------------------------------------------------------------
(* CorrelationIdMiddleware                                                 *)

\* Mutant of Arrive: the context is kept in a global, not per task.
ArriveGlobal(t, k) ==
  /\ pc[t] = "idle" /\ serial[t] < MaxRequests
  /\ serial' = [serial EXCEPT ![t] = @ + 1]
  /\ context' = [u \in Tasks |-> <<t, serial'[t]>>]
  /\ pc' = [pc EXCEPT ![t] = "arrived"]
  /\ kind' = [kind EXCEPT ![t] = k]
  /\ UNCHANGED <<fault, truth, tx, conn, closing, checks, probed, reply, logged, stage>>

\* A request comes in and is given its id; its body is then waited for.
Arrive(t, k) ==
  /\ pc[t] = "idle" /\ serial[t] < MaxRequests
  /\ serial' = [serial EXCEPT ![t] = @ + 1]
  /\ context' = [context EXCEPT ![t] = <<t, serial'[t]>>]
  /\ pc' = [pc EXCEPT ![t] = "arrived"]
  /\ kind' = [kind EXCEPT ![t] = k]
  /\ UNCHANGED <<fault, truth, tx, conn, closing, checks, probed, reply, logged, stage>>

\* The response starts: send_with_request_id adds the header on the way out.
\* "body" has an envelope only when it is an error's.
Send(t, body) ==
  /\ reply' = [reply EXCEPT ![t] =
                 [status |-> body.status, code |-> body.code,
                  header |-> Id(t), envelope |-> body.envelope]]
  /\ pc' = [pc EXCEPT ![t] = "sending"]

Plain(status) == [status |-> status, code |-> "none", envelope |-> NoId]

Log(t, event) == logged' = logged \cup {<<context[t], event>>}

\* The application returns or raises: the context is reset in any case, and
\* what was local to the request is gone.
Leave(t) ==
  /\ pc' = [pc EXCEPT ![t] = "idle"]
  /\ context' = [context EXCEPT ![t] = NoId]
  /\ kind' = [kind EXCEPT ![t] = "none"]
  /\ fault' = [fault EXCEPT ![t] = NoFault]
  /\ truth' = [truth EXCEPT ![t] = "none"]
  /\ checks' = [checks EXCEPT ![t] = Unprobed]
  /\ probed' = [probed EXCEPT ![t] = "none"]
  /\ tx' = [tx EXCEPT ![t] = "none"]
  /\ reply' = [reply EXCEPT ![t] = NoReply]
  /\ logged' = {line \in logged : line[1] # Id(t)}

\* The response is complete; or something fails when headers are on the wire,
\* so that the server must abort the connection.
Sent(t) ==
  /\ pc[t] = "sending"
  /\ Leave(t)
  /\ UNCHANGED <<serial, conn, closing, stage>>

\* Mutant of Cancel: the session is left as it is.
CancelForgets(t) ==
  /\ pc[t] # "idle"
  /\ Leave(t)
  /\ UNCHANGED <<serial, conn, closing, stage>>

\* The client is gone, or the server gives up on the request.  No handler sees
\* a cancellation; the session is closed by a task of its own.
Cancel(t) ==
  /\ pc[t] # "idle"
  /\ conn' = conn \ {t}
  /\ closing' = IF t \in conn THEN closing + 1 ELSE closing
  /\ Leave(t)
  /\ UNCHANGED <<serial, stage>>

ConnectionClosed ==
  /\ closing > 0
  /\ closing' = closing - 1
  /\ UNCHANGED <<pc, kind, serial, context, fault, truth, tx, conn, checks, probed, reply, logged, stage>>

-----------------------------------------------------------------------------
(* CORS, and the routes                                                    *)

\* ApiCorsMiddleware answers a preflight itself, inside the correlation id.
Preflight(t) ==
  /\ pc[t] = "arrived" /\ kind[t] = "preflight"
  /\ \/ Send(t, Plain(200)) /\ UNCHANGED logged
     \/ /\ Send(t, error_response("VALIDATION_ERROR", 400, context[t]))
        /\ Log(t, "cors_preflight_rejected")
  /\ UNCHANGED <<kind, serial, context, fault, truth, tx, conn, closing, checks, probed, stage>>

Liveness(t) ==
  /\ pc[t] = "arrived" /\ kind[t] = "liveness"
  /\ Send(t, Plain(200))
  /\ UNCHANGED <<kind, serial, context, fault, truth, tx, conn, closing, checks, probed, logged, stage>>

Raise(t, why, exc) ==
  /\ pc' = [pc EXCEPT ![t] = "raised"]
  /\ fault' = [fault EXCEPT ![t] = exc]
  /\ truth' = [truth EXCEPT ![t] = why]

Unroutable(t) ==
  /\ pc[t] = "arrived" /\ kind[t] = "transaction"
  /\ \E exc \in RoutingReports : Raise(t, "request", exc)
  /\ UNCHANGED <<kind, serial, context, tx, conn, closing, checks, probed, reply, logged, stage>>

\* get_db_session: the runtime must be READY.  A RuntimeError is nobody's.
RouteToDatabase(t) ==
  /\ pc[t] = "arrived" /\ kind[t] = "transaction"
  /\ IF stage = "ready"
     THEN pc' = [pc EXCEPT ![t] = "acquiring"] /\ UNCHANGED <<fault, truth>>
     ELSE Raise(t, "shutdown", Other(<<"RuntimeError">>))
  /\ UNCHANGED <<kind, serial, context, tx, conn, closing, checks, probed, reply, logged, stage>>

-----------------------------------------------------------------------------
(* Database.transaction(), and the endpoint inside it                      *)

CheckedOut == Cardinality(conn) + closing

Acquire(t) ==
  /\ pc[t] = "acquiring" /\ CheckedOut < PoolSize
  /\ conn' = conn \cup {t}
  /\ tx' = [tx EXCEPT ![t] = "open"]
  /\ pc' = [pc EXCEPT ![t] = "in endpoint"]
  /\ UNCHANGED <<kind, serial, context, fault, truth, closing, checks, probed, reply, logged, stage>>

\* The pool is exhausted, the connect fails, or PostgreSQL refuses.
AcquireFails(t) ==
  /\ pc[t] = "acquiring"
  /\ \E f \in AcquisitionFailures : Raise(t, f[1], AcquisitionRaises(f[2]))
  /\ UNCHANGED <<kind, serial, context, tx, conn, closing, checks, probed, reply, logged, stage>>

\* Mutant of EndpointReturns: the dependency has the scope of the request, so
\* the response goes out before the commit.
EndpointReturnsAndSends(t) ==
  /\ pc[t] = "in endpoint"
  /\ pc' = [pc EXCEPT ![t] = "committing"]
  /\ reply' = [reply EXCEPT ![t] =
                 [status |-> 200, code |-> "none", header |-> Id(t), envelope |-> NoId]]
  /\ UNCHANGED <<kind, serial, context, fault, truth, tx, conn, closing, checks, probed, logged, stage>>

\* The endpoint returns: with scope="function" the transaction commits first.
EndpointReturns(t) ==
  /\ pc[t] = "in endpoint"
  /\ pc' = [pc EXCEPT ![t] = "committing"]
  /\ UNCHANGED <<kind, serial, context, fault, truth, tx, conn, closing, checks, probed, reply, logged, stage>>

\* It raises, or a statement, an initializer or its serialization does.
EndpointFails(t) ==
  /\ pc[t] = "in endpoint"
  /\ \E f \in StatementFailures :
       /\ fault' = [fault EXCEPT ![t] = TransactionRaises(f[2])]
       /\ truth' = [truth EXCEPT ![t] = f[1]]
  /\ pc' = [pc EXCEPT ![t] = "rolling back"]
  /\ UNCHANGED <<kind, serial, context, tx, conn, closing, checks, probed, reply, logged, stage>>

\* PostgreSQL commits, and the connection goes back to the pool.
Commit(t) ==
  /\ pc[t] = "committing"
  /\ tx' = [tx EXCEPT ![t] = "committed"]
  /\ conn' = conn \ {t}
  /\ pc' = [pc EXCEPT ![t] = "committed"]
  /\ UNCHANGED <<kind, serial, context, fault, truth, closing, checks, probed, reply, logged, stage>>

\* The commit fails; or it is made, and its acknowledgement is lost.
CommitFails(t) ==
  /\ pc[t] = "committing"
  /\ \E f \in CommitFailures :
       /\ Raise(t, f[1], TransactionRaises(f[2]))
       /\ \E end \in IF f[1] = "outage" THEN {"committed", "rolled back"} ELSE {"rolled back"} :
            tx' = [tx EXCEPT ![t] = end]
  /\ conn' = conn \ {t}
  /\ UNCHANGED <<kind, serial, context, closing, checks, probed, reply, logged, stage>>

\* The session is rolled back and closed before the exception leaves.
RollBack(t) ==
  /\ pc[t] = "rolling back"
  /\ tx' = [tx EXCEPT ![t] = "rolled back"]
  /\ conn' = conn \ {t}
  /\ pc' = [pc EXCEPT ![t] = "raised"]
  /\ UNCHANGED <<kind, serial, context, fault, truth, closing, checks, probed, reply, logged, stage>>

Succeed(t) ==
  /\ pc[t] = "committed"
  /\ Send(t, Plain(200))
  /\ UNCHANGED <<kind, serial, context, fault, truth, tx, conn, closing, checks, probed, logged, stage>>

-----------------------------------------------------------------------------
(* The exception handlers, and the middleware that catches what is left    *)

\* Mutant of Answer: nobody catches what no handler claims.
AnswerClaimed(t) ==
  /\ pc[t] = "raised" /\ Claimed(fault[t])
  /\ LET handler == Handler(fault[t]) IN
     /\ Send(t, error_response(handler.code, handler.status, context[t]))
     /\ IF handler.event = "none" THEN UNCHANGED logged ELSE Log(t, handler.event)
  /\ UNCHANGED <<kind, serial, context, fault, truth, tx, conn, closing, checks, probed, stage>>

Answer(t) ==
  /\ pc[t] = "raised"
  /\ LET handler == IF Claimed(fault[t]) THEN Handler(fault[t])
                    ELSE [code |-> "INTERNAL_ERROR", status |-> 0, event |-> "unhandled_exception"] IN
     /\ Send(t, error_response(handler.code, handler.status, context[t]))
     /\ IF handler.event = "none" THEN UNCHANGED logged ELSE Log(t, handler.event)
  /\ UNCHANGED <<kind, serial, context, fault, truth, tx, conn, closing, checks, probed, stage>>

-----------------------------------------------------------------------------
(* Readiness: check_readiness, Database.ping, RedisClient.ping             *)

\* The report is sent; its body names the checks.
Report(t, results) ==
  /\ checks' = [checks EXCEPT ![t] = results]
  /\ Send(t, Plain(IF \A x \in DOMAIN results : results[x] = "ok" THEN 200 ELSE 503))

\* The references are read here, once.  A runtime that is not READY is not
\* probed; else the ping of PostgreSQL begins.
ReadinessBegins(t) ==
  /\ pc[t] = "arrived" /\ kind[t] = "readiness"
  /\ IF stage = "ready"
     THEN pc' = [pc EXCEPT ![t] = "pinging postgres"] /\ UNCHANGED <<checks, reply>>
     ELSE Report(t, Unprobed)
  /\ UNCHANGED <<kind, serial, context, fault, truth, tx, conn, closing, probed, logged, stage>>

\* SELECT 1 needs a connection of the pool, like any transaction.
PingConnects(t) ==
  /\ pc[t] = "pinging postgres" /\ t \notin conn /\ CheckedOut < PoolSize
  /\ conn' = conn \cup {t}
  /\ UNCHANGED <<pc, kind, serial, context, fault, truth, tx, closing, checks, probed, reply, logged, stage>>

\* Mutant of PostgresAnswers: the Redis ping does not look at _closing.
PostgresAnswersAnyway(t) ==
  /\ pc[t] = "pinging postgres" /\ t \in conn
  /\ conn' = conn \ {t}
  /\ probed' = [probed EXCEPT ![t] = stage]
  /\ checks' = [checks EXCEPT ![t].postgres = "ok"]
  /\ pc' = [pc EXCEPT ![t] = "pinging redis"]
  /\ UNCHANGED <<kind, serial, context, fault, truth, tx, closing, reply, logged, stage>>

\* It came back: the ping of Redis begins, unless the client is closing.
PostgresAnswers(t) ==
  /\ pc[t] = "pinging postgres" /\ t \in conn
  /\ conn' = conn \ {t}
  /\ probed' = [probed EXCEPT ![t] = stage]
  /\ IF RedisClosing
     THEN /\ Report(t, [postgres |-> "ok", redis |-> "failed"])
          /\ Log(t, "readiness_check_failed")
     ELSE /\ checks' = [checks EXCEPT ![t].postgres = "ok"]
          /\ pc' = [pc EXCEPT ![t] = "pinging redis"]
          /\ UNCHANGED <<reply, logged>>
  /\ UNCHANGED <<kind, serial, context, fault, truth, tx, closing, stage>>

\* Any of CONNECTIVITY_ERRORS, the timeout of the probe among them.
PostgresFails(t) ==
  /\ pc[t] = "pinging postgres"
  /\ conn' = conn \ {t}
  /\ Report(t, [postgres |-> "failed", redis |-> "skipped"])
  /\ Log(t, "readiness_check_failed")
  /\ UNCHANGED <<kind, serial, context, fault, truth, tx, closing, probed, stage>>

\* PONG, and nothing else, is an answer; a client closed under the ping raises.
RedisAnswers(t) ==
  /\ pc[t] = "pinging redis"
  /\ Report(t, [postgres |-> "ok", redis |-> "ok"])
  /\ UNCHANGED <<kind, serial, context, fault, truth, tx, conn, closing, probed, logged, stage>>

RedisFails(t) ==
  /\ pc[t] = "pinging redis"
  /\ Report(t, [postgres |-> "ok", redis |-> "failed"])
  /\ Log(t, "readiness_check_failed")
  /\ UNCHANGED <<kind, serial, context, fault, truth, tx, conn, closing, probed, stage>>

-----------------------------------------------------------------------------
\* The shutdown of InfrastructureRuntime, as far as a request can see it.
NextStage ==
  [s \in Stages \ {"stopped"} |->
     CASE s = "ready" -> "stopping"
       [] s = "stopping" -> "closing redis"
       [] s = "closing redis" -> "disposing"
       [] s = "disposing" -> "stopped"]

Shutdown ==
  /\ stage # "stopped"
  /\ stage' = NextStage[stage]
  /\ UNCHANGED <<pc, kind, serial, context, fault, truth, tx, conn, closing, checks, probed, reply, logged>>

\* What the event loop, the timeouts and the client's patience see to.
Progress(t) ==
  \/ Preflight(t) \/ Liveness(t) \/ Unroutable(t) \/ RouteToDatabase(t)
  \/ Acquire(t) \/ AcquireFails(t)
  \/ EndpointReturns(t) \/ EndpointFails(t)
  \/ Commit(t) \/ CommitFails(t) \/ RollBack(t) \/ Succeed(t)
  \/ Answer(t)
  \/ ReadinessBegins(t) \/ PingConnects(t) \/ PostgresAnswers(t) \/ PostgresFails(t)
  \/ RedisAnswers(t) \/ RedisFails(t)
  \/ Sent(t)

Next ==
  \/ \E t \in Tasks : Progress(t) \/ Cancel(t) \/ \E k \in Kinds : Arrive(t, k)
  \/ ConnectionClosed
  \/ Shutdown

Spec == Init /\ [][Next]_vars

\* Every await of the path is bounded by a timeout: the pool's, the connect's
\* and the command's, the probes', the server's.
Fairness == (\A t \in Tasks : WF_vars(Progress(t))) /\ WF_vars(ConnectionClosed)

FairSpec == Spec /\ Fairness

-----------------------------------------------------------------------------
(* Properties                                                              *)

\* What can have gone wrong; a dependency was lost, or taken for lost.
Lost   == {"outage", "refusal", "cache", "neighbour"}
Truths == Lost \cup {"none", "request", "shutdown"}

\* The exceptions a request can meet.
Reports ==
  {NoFault, DatabaseError, Other(<<"RuntimeError">>)} \cup RoutingReports
    \cup {f[2] : f \in AcquisitionFailures \cup StatementFailures \cup CommitFailures}

Codes == DOMAIN Catalog

\* The log lines of a request that fails; the first four tell of the server.
ServerEvents == {"dependency_unavailable", "unmapped_platform_error",
                 "uncataloged_http_status", "unhandled_exception"}
Events == ServerEvents \cup {"cors_preflight_rejected", "readiness_check_failed"}

TypeOK ==
  /\ pc \in [Tasks -> Steps]
  /\ kind \in [Tasks -> Kinds \cup {"none"}]
  /\ serial \in [Tasks -> 0..MaxRequests]
  /\ context \in [Tasks -> Ids \cup {NoId}]
  /\ fault \in [Tasks -> Reports]
  /\ truth \in [Tasks -> Truths]
  /\ tx \in [Tasks -> {"none", "open", "committed", "rolled back"}]
  /\ conn \subseteq Tasks /\ closing \in 0..PoolSize
  /\ checks \in [Tasks -> [postgres : {"skipped", "ok", "failed"},
                          redis : {"skipped", "ok", "failed"}]]
  /\ probed \in [Tasks -> Stages \cup {"none"}]
  /\ reply \in [Tasks -> [status : Nat, code : Codes \cup {"none"},
                           header : Ids \cup {NoId}, envelope : Ids \cup {NoId}]]
  /\ logged \subseteq Ids \X Events
  /\ stage \in Stages

\* The pool is never over its limit, and a connection is out only while its
\* request is in its transaction, or pings: an answer is sent, and a task left,
\* with the connection given back (checked_out_connections).
ConnectionsAccounted ==
  /\ CheckedOut <= PoolSize
  /\ \A t \in conn : pc[t] \in {"in endpoint", "committing", "rolling back", "pinging postgres"}

\* Where a request is tells what PostgreSQL has done for it.
TransactionInStep(t) ==
  /\ pc[t] \in {"in endpoint", "committing", "rolling back"} => tx[t] = "open" /\ t \in conn
  /\ pc[t] = "committed" => tx[t] = "committed"
  /\ pc[t] \in {"idle", "arrived", "acquiring"} => tx[t] = "none"
  /\ pc[t] = "raised" /\ tx[t] = "committed" => fault[t] = DatabaseError

\* It tells what the request is and what is known of it: its kind, what
\* the probes found, and that nothing is answered before it is sent.
RequestInStep(t) ==
  /\ pc[t] = "idle" => kind[t] = "none"
  /\ pc[t] # "idle" => serial[t] > 0
  /\ pc[t] # "sending" => reply[t] = NoReply
  /\ pc[t] \in {"acquiring", "in endpoint", "committing", "rolling back", "committed", "raised"} =>
       kind[t] = "transaction"
  /\ pc[t] \in {"pinging postgres", "pinging redis"} => kind[t] = "readiness"
  /\ pc[t] = "pinging redis" => probed[t] \in {"ready", "stopping"}

\* An exception tells what went wrong: it is one of the platform's two dependency
\* errors exactly when a dependency was lost.
Tells(exc, why) ==
  /\ exc.type \in {"DatabaseError", "CacheError"} <=> why \in Lost
  /\ exc.type = "RequestValidationError" => exc.status \in {400, 422}

\* What is raised tells the truth, and nothing has gone wrong before.
FaultInStep(t) ==
  /\ pc[t] \in {"rolling back", "raised"} => Tells(fault[t], truth[t])
  /\ pc[t] \notin {"rolling back", "raised", "sending"} => truth[t] = "none"

\* An answer says what is so.  Success: the transaction is committed.  A
\* definite error: it is not; only DEPENDENCY_UNAVAILABLE leaves it open.
\* Ready: both probes succeeded, each begun before its dependency was closing.
Honest(t) ==
  /\ kind[t] = "transaction" /\ reply[t].status = 200 => tx[t] = "committed"
  /\ kind[t] = "transaction" /\ reply[t].code \notin {"none", "DEPENDENCY_UNAVAILABLE"} =>
       tx[t] # "committed"
  /\ kind[t] = "readiness" /\ reply[t].status = 200 =>
       checks[t] = [postgres |-> "ok", redis |-> "ok"] /\ probed[t] \in {"ready", "stopping"}

HonestAnswer == \A t \in Tasks : Honest(t)

\* DEPENDENCY_UNAVAILABLE, which invites a retry, answers an outage, a refused
\* connection or a failing cache, and nothing else does.  A network failure of
\* another service inside the transaction is taken for PostgreSQL's.
TellsOutage(t) ==
  pc[t] = "sending" /\ kind[t] = "transaction" =>
    (reply[t].code = "DEPENDENCY_UNAVAILABLE" <=> truth[t] \in Lost)

OutageMeansOutage == \A t \in Tasks : TellsOutage(t)

\* Every response carries the id of its own request, an error's envelope the
\* same one, whatever other tasks do in between; a task between two requests
\* has none; and every answered failure of the server is in the log under it.
Traceable(t) ==
  /\ context[t] = IF pc[t] = "idle" THEN NoId ELSE Id(t)
  /\ reply[t] # NoReply => reply[t].header = Id(t)
  /\ reply[t].code # "none" => reply[t].envelope = reply[t].header
  /\ reply[t].code # "none" /\ reply[t].status >= 500 =>
       \E event \in ServerEvents : <<reply[t].header, event>> \in logged

AnswersAreTraceable == \A t \in Tasks : Traceable(t)

\* The three promises to the client, with what they rest on in every step.
Inductive ==
  /\ TypeOK /\ ConnectionsAccounted
  /\ \A t \in Tasks : TransactionInStep(t) /\ RequestInStep(t) /\ FaultInStep(t)
  /\ HonestAnswer /\ OutageMeansOutage /\ AnswersAreTraceable

\* Every request ends: answered, aborted or cancelled, with its context reset.
RequestsEnd == \A t \in Tasks : pc[t] # "idle" ~> pc[t] = "idle"
=============================================================================
