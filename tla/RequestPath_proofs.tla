------------------------- MODULE RequestPath_proofs -------------------------
(***************************************************************************)
(* Proofs about RequestPath, for any number of tasks and requests, any     *)
(* size of the pool, and chains of causes that are followed for at least   *)
(* three links: what the classification of failures returns, the inductive *)
(* invariant, and the promises to the client that are part of it.          *)
(***************************************************************************)
EXTENDS RequestPath, FiniteSetTheorems, SequenceTheorems, TLAPS

-----------------------------------------------------------------------------
(* Which exceptions mean that PostgreSQL is unavailable                    *)

\* _MAX_CHAIN cuts nothing from the failures the model raises.
LEMMA ShortChain ==
  ASSUME NEW S, NEW exc \in Seq(S), Len(exc) <= 3
  PROVE  Causes(exc) = exc
<1>1. Len(exc) <= MaxChain /\ MaxChain \in Nat
  BY ChainAssumption, ChainsAreSeen
<1>. QED
  BY <1>1, SubSeqFull DEF Causes

\* What is_database_unavailable asks of a chain that is not cut.
LEMMA UnavailableInChain ==
  ASSUME NEW S, NEW n \in {1, 2, 3}, NEW exc \in Seq(S), Len(exc) = n
  PROVE  is_database_unavailable(exc) <=>
           \E i \in 1..n : Unavailable(exc[i]) /\ \A j \in 1..i : exc[j] # "CancelledError"
<1>1. Causes(exc) = exc /\ DOMAIN exc = 1..n
  BY ShortChain
<1>. QED
  BY <1>1 DEF is_database_unavailable, Found, IsBaseException

\* The same for one link, two and three.
LEMMA OneLink ==
  \A a : is_database_unavailable(<<a>>) <=> a # "CancelledError" /\ Unavailable(a)
<1> SUFFICES ASSUME NEW a
             PROVE  is_database_unavailable(<<a>>) <=> a # "CancelledError" /\ Unavailable(a)
  OBVIOUS
<1>1. PICK exc : exc = [i \in 1..1 |-> a]
  OBVIOUS
<1>. DEFINE S == {a}
<1>2. exc \in Seq(S) /\ Len(exc) = 1 /\ exc[1] = a
  BY <1>1
<1>. HIDE DEF S
<1>3. is_database_unavailable(exc) <=>
        \E i \in 1..1 : Unavailable(exc[i]) /\ \A j \in 1..i : exc[j] # "CancelledError"
  BY <1>2, UnavailableInChain, Zenon
<1>4. is_database_unavailable(exc) <=> a # "CancelledError" /\ Unavailable(a)
  BY <1>2, <1>3
<1>5. exc = <<a>>
  BY <1>1
<1>. QED
  BY <1>4, <1>5

\* An exception with one cause is an outage by either, unless a cancellation is before it.
LEMMA TwoLinks ==
  \A a, b : is_database_unavailable(<<a, b>>) <=>
              /\ a # "CancelledError"
              /\ Unavailable(a) \/ (b # "CancelledError" /\ Unavailable(b))
<1> SUFFICES ASSUME NEW a, NEW b
             PROVE  is_database_unavailable(<<a, b>>) <=>
                      /\ a # "CancelledError"
                      /\ Unavailable(a) \/ (b # "CancelledError" /\ Unavailable(b))
  OBVIOUS
<1>1. PICK exc : exc = [i \in 1..2 |-> IF i = 1 THEN a ELSE b]
  OBVIOUS
<1>. DEFINE S == {a, b}
<1>2. exc \in Seq(S) /\ Len(exc) = 2 /\ exc[1] = a /\ exc[2] = b
  BY <1>1
<1>. HIDE DEF S
<1>3. is_database_unavailable(exc) <=>
        \E i \in 1..2 : Unavailable(exc[i]) /\ \A j \in 1..i : exc[j] # "CancelledError"
  BY <1>2, UnavailableInChain, Zenon
<1>4. is_database_unavailable(exc) <=>
        /\ a # "CancelledError"
        /\ Unavailable(a) \/ (b # "CancelledError" /\ Unavailable(b))
  BY <1>2, <1>3
<1>5. exc = <<a, b>>
  BY <1>1
<1>. QED
  BY <1>4, <1>5

\* And an exception with a cause that has a cause.
LEMMA ThreeLinks ==
  \A a, b, c : is_database_unavailable(<<a, b, c>>) <=>
                 /\ a # "CancelledError"
                 /\ \/ Unavailable(a)
                    \/ /\ b # "CancelledError"
                       /\ Unavailable(b) \/ (c # "CancelledError" /\ Unavailable(c))
<1> SUFFICES ASSUME NEW a, NEW b, NEW c
             PROVE  is_database_unavailable(<<a, b, c>>) <=>
                      /\ a # "CancelledError"
                      /\ \/ Unavailable(a)
                         \/ /\ b # "CancelledError"
                            /\ Unavailable(b) \/ (c # "CancelledError" /\ Unavailable(c))
  OBVIOUS
<1>1. PICK exc : exc = [i \in 1..3 |-> IF i = 1 THEN a ELSE IF i = 2 THEN b ELSE c]
  OBVIOUS
<1>. DEFINE S == {a, b, c}
<1>2. exc \in Seq(S) /\ Len(exc) = 3 /\ exc[1] = a /\ exc[2] = b /\ exc[3] = c
  BY <1>1
<1>. HIDE DEF S
<1>3. is_database_unavailable(exc) <=>
        \E i \in 1..3 : Unavailable(exc[i]) /\ \A j \in 1..i : exc[j] # "CancelledError"
  BY <1>2, UnavailableInChain, Zenon
<1>4. is_database_unavailable(exc) <=>
        /\ a # "CancelledError"
        /\ \/ Unavailable(a)
           \/ /\ b # "CancelledError"
              /\ Unavailable(b) \/ (c # "CancelledError" /\ Unavailable(c))
  BY <1>2, <1>3
<1>5. exc = <<a, b, c>>
  BY <1>1
<1>. QED
  BY <1>4, <1>5

\* Every report of an outage is recognised, in whatever link it shows, and so is
\* the failure of a neighbour on the network; what reports a refusal or a fault
\* of the request is not.
LEMMA OnlyOutagesAreSeen ==
  /\ \A exc \in OutageReports \cup NeighbourReports :
       is_database_unavailable(exc.links) /\ exc.type = "other"
  /\ \A exc \in RefusalReports \cup RequestReports : ~is_database_unavailable(exc.links)
<1>. USE DEF Other, Exception
<1>0. /\ Unavailable("57P01") /\ Unavailable("connection_invalidated")
      /\ Unavailable("PoolTimeoutError") /\ Unavailable("Multiple exceptions")
      /\ Unavailable("ConnectionDoesNotExistError") /\ Unavailable("ConnectionError")
      /\ ~Unavailable("DBAPIError") /\ ~Unavailable("application")
      /\ ~Unavailable("55000") /\ ~Unavailable("23505")
  BY DEF Unavailable, UnavailableStates, NetworkFailures
<1>1. ASSUME NEW exc \in OutageReports 
      PROVE  is_database_unavailable(exc.links) /\ exc.type = "other"
  <2>1. is_database_unavailable(<<"DBAPIError", "57P01">>)
    BY <1>0, TwoLinks, Zenon
  <2>2. is_database_unavailable(<<"connection_invalidated", "08">>)
    BY <1>0, TwoLinks, Zenon
  <2>3. is_database_unavailable(<<"PoolTimeoutError">>)
    BY <1>0, OneLink, Zenon
  <2>4. is_database_unavailable(<<"Multiple exceptions">>)
    BY <1>0, OneLink, Zenon
  <2>5. is_database_unavailable(<<"application", "DBAPIError", "ConnectionDoesNotExistError">>)
    BY <1>0, ThreeLinks, Zenon
  <2>6. \A links : Other(links).links = links /\ Other(links).type = "other"
    OBVIOUS
  <2>7. \/ exc = Other(<<"DBAPIError", "57P01">>)
        \/ exc = Other(<<"connection_invalidated", "08">>)
        \/ exc = Other(<<"PoolTimeoutError">>)
        \/ exc = Other(<<"Multiple exceptions">>)
        \/ exc = Other(<<"application", "DBAPIError", "ConnectionDoesNotExistError">>)
    BY <1>1, Zenon DEF OutageReports
  <2>. HIDE DEF Other
  <2>. QED
    BY <2>1, <2>2, <2>3, <2>4, <2>5, <2>6, <2>7, Zenon
<1>2. ASSUME NEW exc \in NeighbourReports 
      PROVE  is_database_unavailable(exc.links) /\ exc.type = "other"
  <2>1. is_database_unavailable(<<"ConnectionError">>)
    BY <1>0, OneLink, Zenon
  <2>. QED
    BY <2>1 DEF NeighbourReports
<1>3. ASSUME NEW exc \in RefusalReports PROVE ~is_database_unavailable(exc.links)
  <2>1. ~is_database_unavailable(<<"DBAPIError", "55000">>)
    BY <1>0, TwoLinks, Zenon
  <2>. QED
    BY <2>1 DEF RefusalReports
<1>4. ASSUME NEW exc \in RequestReports PROVE ~is_database_unavailable(exc.links)
  <2>1. ~is_database_unavailable(<<"DBAPIError", "23505">>)
    BY <1>0, TwoLinks, Zenon
  <2>2. ~is_database_unavailable(<<"application">>)
    BY <1>0, OneLink, Zenon
  <2>3. ~is_database_unavailable(<<"application", "CancelledError", "TimeoutError">>)
    BY <1>0, ThreeLinks, Zenon
  <2>. QED
    BY <2>1, <2>2, <2>3 DEF RequestReports
<1>. QED
  BY <1>1, <1>2, <1>3, <1>4

\* While a connection is made, a refusal counts as well, and a wrong password
\* (28P01) does not.
LEMMA RefusalsAreSeen ==
  /\ \A exc \in OutageReports : is_connection_acquisition_unavailable(exc.links)
  /\ \A exc \in RefusalReports : is_connection_acquisition_unavailable(exc.links)
  /\ ~is_connection_acquisition_unavailable(<<"28P01">>)
  /\ ~is_database_unavailable(<<"28P01">>)
<1>1. ASSUME NEW exc \in OutageReports
      PROVE  is_connection_acquisition_unavailable(exc.links)
  BY OnlyOutagesAreSeen, Zenon DEF is_connection_acquisition_unavailable
<1>2. is_connection_acquisition_unavailable(<<"DBAPIError", "55000">>)
  <2>1. PICK exc : exc = [i \in 1..2 |-> IF i = 1 THEN "DBAPIError" ELSE "55000"]
    OBVIOUS
  <2>2. /\ exc \in Seq({"DBAPIError", "55000"}) /\ Len(exc) <= 3 /\ DOMAIN exc = 1..2
        /\ exc[1] = "DBAPIError" /\ exc[2] = "55000"
    BY <2>1
  <2>3. Causes(exc) = exc
    BY <2>2, ShortChain, Zenon
  <2>4. /\ 2 \in DOMAIN Causes(exc) /\ Causes(exc)[2] \in AcquisitionOnlyStates
        /\ \A j \in 1..2 : ~IsBaseException(Causes(exc)[j])
    BY <2>2, <2>3 DEF AcquisitionOnlyStates, IsBaseException
  <2>5. Found(exc, LAMBDA link : link \in AcquisitionOnlyStates)
    BY <2>4, Zenon DEF Found
  <2>6. exc = <<"DBAPIError", "55000">>
    BY <2>1
  <2>. QED
    BY <2>5, <2>6, Zenon DEF is_connection_acquisition_unavailable
<1>3. ASSUME NEW exc \in RefusalReports
      PROVE  is_connection_acquisition_unavailable(exc.links)
  BY <1>2 DEF RefusalReports, Other, Exception
<1>4. ~is_database_unavailable(<<"28P01">>)
  <2>1. ~Unavailable("28P01")
    BY DEF Unavailable, UnavailableStates, NetworkFailures
  <2>. QED
    BY <2>1, OneLink, Zenon
<1>5. ~is_connection_acquisition_unavailable(<<"28P01">>)
  <2>1. PICK exc : exc = [i \in 1..1 |-> "28P01"]
    OBVIOUS
  <2>2. exc \in Seq({"28P01"}) /\ Len(exc) <= 3 /\ DOMAIN exc = 1..1 /\ exc[1] = "28P01"
    BY <2>1
  <2>3. Causes(exc) = exc
    BY <2>2, ShortChain, Zenon
  <2>4. \A i \in DOMAIN Causes(exc) : Causes(exc)[i] \notin AcquisitionOnlyStates
    BY <2>2, <2>3 DEF AcquisitionOnlyStates
  <2>5. ~Found(exc, LAMBDA link : link \in AcquisitionOnlyStates)
    BY <2>4, Zenon DEF Found
  <2>6. exc = <<"28P01">>
    BY <2>1
  <2>. QED
    BY <1>4, <2>5, <2>6, Zenon DEF is_connection_acquisition_unavailable
<1>. QED
  BY <1>1, <1>3, <1>4, <1>5, Zenon

\* What leaves the transaction is of a dependency exactly when one was lost,
\* however deep in the chain the loss shows.
LEMMA AcquisitionTells ==
  ASSUME NEW f \in AcquisitionFailures
  PROVE  /\ f[1] \in Truths \ {"none"} /\ AcquisitionRaises(f[2]) \in Reports
         /\ Tells(AcquisitionRaises(f[2]), f[1])
<1>1. CASE \E e \in OutageReports : f = <<"outage", e>>
  <2>1. AcquisitionRaises(f[2]) = DatabaseError /\ f[1] = "outage"
    BY <1>1, RefusalsAreSeen DEF AcquisitionRaises
  <2>. QED
    BY <2>1 DEF Truths, Lost, Reports, Tells, DatabaseError, Exception
<1>2. CASE \E e \in RefusalReports : f = <<"refusal", e>>
  <2>1. AcquisitionRaises(f[2]) = DatabaseError /\ f[1] = "refusal"
    BY <1>2, RefusalsAreSeen DEF AcquisitionRaises
  <2>. QED
    BY <2>1 DEF Truths, Lost, Reports, Tells, DatabaseError, Exception
<1>3. CASE f = <<"request", Other(<<"28P01">>)>>
  <2>1. AcquisitionRaises(f[2]) = f[2] /\ f[2] = Other(<<"28P01">>) /\ f[1] = "request"
    BY <1>3, RefusalsAreSeen DEF AcquisitionRaises, TransactionRaises, Other, Exception
  <2>2. f[2] \in Reports
    BY DEF Reports
  <2>. QED
    BY <2>1, <2>2 DEF Truths, Lost, Tells, Other, Exception
<1>. QED
  BY <1>1, <1>2, <1>3 DEF AcquisitionFailures

\* What a statement raises tells, as transaction() passes it on, what went wrong.
LEMMA StatementTells ==
  ASSUME NEW f \in StatementFailures
  PROVE  /\ f[1] \in Truths \ {"none"} /\ TransactionRaises(f[2]) \in Reports
         /\ Tells(TransactionRaises(f[2]), f[1])
<1>0. f[2] \in Reports
  BY DEF Reports
<1>1. CASE \E e \in OutageReports : f = <<"outage", e>>
  <2>1. TransactionRaises(f[2]) = DatabaseError /\ f[1] = "outage"
    BY <1>1, OnlyOutagesAreSeen DEF TransactionRaises
  <2>. QED
    BY <2>1 DEF Truths, Lost, Reports, Tells, DatabaseError, Exception
<1>2. CASE \E e \in RefusalReports \cup RequestReports : f = <<"request", e>>
  <2>1. TransactionRaises(f[2]) = f[2] /\ f[1] = "request"
    BY <1>2, OnlyOutagesAreSeen DEF TransactionRaises
  <2>2. Tells(f[2], f[1])
    BY <1>2 DEF Tells, Lost, RefusalReports, RequestReports, Other, Exception
  <2>. QED
    BY <1>0, <2>1, <2>2 DEF Truths, Lost
<1>3. CASE \E e \in NeighbourReports : f = <<"neighbour", e>>
  <2>1. TransactionRaises(f[2]) = DatabaseError /\ f[1] = "neighbour"
    BY <1>3, OnlyOutagesAreSeen DEF TransactionRaises
  <2>. QED
    BY <2>1 DEF Truths, Lost, Reports, Tells, DatabaseError, Exception
<1>4. CASE f = <<"cache", Exception("CacheError", 0, <<"application">>)>>
  <2>1. TransactionRaises(f[2]) \in {f[2], DatabaseError} /\ f[1] = "cache"
    BY <1>4 DEF TransactionRaises
  <2>. QED
    BY <1>0, <1>4, <2>1 DEF Truths, Lost, Reports, Tells, DatabaseError, Exception
<1>. QED
  BY <1>1, <1>2, <1>3, <1>4 DEF StatementFailures

\* So does what a commit raises, and a lost commit is always told as an outage.
LEMMA CommitTells ==
  ASSUME NEW f \in CommitFailures
  PROVE  /\ f[1] \in Truths \ {"none"} /\ TransactionRaises(f[2]) \in Reports
         /\ Tells(TransactionRaises(f[2]), f[1])
         /\ f[1] = "outage" => TransactionRaises(f[2]) = DatabaseError
<1>1. CASE \E e \in OutageReports : f = <<"outage", e>>
  <2>1. f \in StatementFailures
    BY <1>1 DEF StatementFailures
  <2>2. TransactionRaises(f[2]) = DatabaseError
    BY <1>1, OnlyOutagesAreSeen DEF TransactionRaises
  <2>. QED
    BY <2>1, <2>2, StatementTells
<1>2. CASE f = <<"request", Other(<<"DBAPIError", "23505">>)>>
  <2>1. Other(<<"DBAPIError", "23505">>) \in RequestReports
    BY Zenon DEF RequestReports
  <2>2. f \in StatementFailures /\ f[1] = "request"
    BY <1>2, <2>1 DEF StatementFailures
  <2>. QED
    BY <2>2, StatementTells
<1>. QED
  BY <1>1, <1>2 DEF CommitFailures

-----------------------------------------------------------------------------
(* What the handlers and the middleware behind them answer                 *)

\* Every code has its statuses, and the default is the first.
LEMMA CatalogHolds ==
  /\ Codes = {"VALIDATION_ERROR", "RESOURCE_NOT_FOUND", "METHOD_NOT_ALLOWED",
              "INTERNAL_ERROR", "DEPENDENCY_UNAVAILABLE"}
  /\ StatusOf("VALIDATION_ERROR", 400) = 400 /\ Cataloged("VALIDATION_ERROR", 400)
  /\ StatusOf("VALIDATION_ERROR", 422) = 422 /\ Cataloged("VALIDATION_ERROR", 422)
  /\ StatusOf("RESOURCE_NOT_FOUND", 404) = 404 /\ Cataloged("RESOURCE_NOT_FOUND", 404)
  /\ StatusOf("METHOD_NOT_ALLOWED", 405) = 405 /\ Cataloged("METHOD_NOT_ALLOWED", 405)
  /\ StatusOf("INTERNAL_ERROR", 0) = 500 /\ Cataloged("INTERNAL_ERROR", 0)
  /\ StatusOf("DEPENDENCY_UNAVAILABLE", 0) = 503 /\ Cataloged("DEPENDENCY_UNAVAILABLE", 0)
<1>1. Head(<<500>>) = 500 /\ Head(<<503>>) = 503
  OBVIOUS
<1>2. /\ Catalog["VALIDATION_ERROR"].statuses = <<422, 400>>
      /\ Catalog["RESOURCE_NOT_FOUND"].statuses = <<404>>
      /\ Catalog["METHOD_NOT_ALLOWED"].statuses = <<405>>
      /\ Catalog["INTERNAL_ERROR"].statuses = <<500>>
      /\ Catalog["DEPENDENCY_UNAVAILABLE"].statuses = <<503>>
  BY DEF Catalog
<1>3. Codes = {"VALIDATION_ERROR", "RESOURCE_NOT_FOUND", "METHOD_NOT_ALLOWED",
               "INTERNAL_ERROR", "DEPENDENCY_UNAVAILABLE"}
  BY DEF Codes, Catalog
<1>. QED
  BY <1>1, <1>2, <1>3 DEF StatusOf, Cataloged

\* What answers an exception: its handler, or the middleware behind them all.
Answerer(exc) ==
  IF Claimed(exc) THEN Handler(exc)
  ELSE [code |-> "INTERNAL_ERROR", status |-> 0, event |-> "unhandled_exception"]

\* A handler that finds its code and status in the catalog is the answerer.
LEMMA HandlerAnswers ==
  ASSUME NEW exc, Handler(exc).code \in Codes,
         Cataloged(Handler(exc).code, Handler(exc).status)
  PROVE  Answerer(exc) = Handler(exc)
<1>1. Unclaimed.code \notin Codes
  BY CatalogHolds DEF Unclaimed
<1>2. Handler(exc) # Unclaimed
  BY <1>1, Zenon
<1>. QED
  BY <1>2, Zenon DEF Answerer, Claimed

\* An exception is answered with an error: the dependency's for the two types of
\* the platform that mean one, a client's error with the status it was raised
\* with, and else an internal error, which is logged.
LEMMA AnswersAreErrors ==
  ASSUME NEW exc, exc.type = "RequestValidationError" => exc.status \in {400, 422},
         NEW id, NEW body,
         body = error_response(Answerer(exc).code, Answerer(exc).status, id)
  PROVE  /\ body.code \in Codes /\ body.envelope = id
         /\ body.status \in {400, 404, 405, 422, 500, 503}
         /\ body.code = "DEPENDENCY_UNAVAILABLE" <=> exc.type \in {"DatabaseError", "CacheError"}
         /\ Answerer(exc).event \in Events \cup {"none"}
         /\ body.status >= 500 => Answerer(exc).event \in ServerEvents
<1>0. /\ body.code = Answerer(exc).code /\ body.envelope = id
      /\ body.status = StatusOf(Answerer(exc).code, Answerer(exc).status)
  BY DEF error_response
<1>1. CASE exc.type \in {"DatabaseError", "CacheError"}
  <2>1. Handler(exc) = [code |-> "DEPENDENCY_UNAVAILABLE", status |-> 0, event |-> "dependency_unavailable"]
    BY <1>1 DEF Handler, _handle_platform_error
  <2>2. /\ Handler(exc).code = "DEPENDENCY_UNAVAILABLE" /\ Handler(exc).status = 0
        /\ Handler(exc).event = "dependency_unavailable"
    BY <2>1
  <2>3. Answerer(exc) = Handler(exc)
    BY <2>2, CatalogHolds, HandlerAnswers
  <2>4. /\ body.code = "DEPENDENCY_UNAVAILABLE" /\ body.status = 503
        /\ Answerer(exc).event = "dependency_unavailable"
    BY <1>0, <2>2, <2>3, CatalogHolds
  <2>. QED
    BY <1>0, <1>1, <2>4, CatalogHolds DEF Events, ServerEvents
<1>2. CASE exc.type = "PlatformError"
  <2>1. Handler(exc) = [code |-> "INTERNAL_ERROR", status |-> 0, event |-> "unmapped_platform_error"]
    BY <1>2 DEF Handler, _handle_platform_error
  <2>2. /\ Handler(exc).code = "INTERNAL_ERROR" /\ Handler(exc).status = 0
        /\ Handler(exc).event = "unmapped_platform_error"
    BY <2>1
  <2>3. Answerer(exc) = Handler(exc)
    BY <2>2, CatalogHolds, HandlerAnswers
  <2>4. /\ body.code = "INTERNAL_ERROR" /\ body.status = 500
        /\ Answerer(exc).event = "unmapped_platform_error"
    BY <1>0, <2>2, <2>3, CatalogHolds
  <2>. QED
    BY <1>0, <1>2, <2>4, CatalogHolds DEF Events, ServerEvents
<1>3. CASE exc.type = "HTTPException" /\ exc.status \notin HttpStatusCodes
  <2>1. Handler(exc) = [code |-> "INTERNAL_ERROR", status |-> 0, event |-> "uncataloged_http_status"]
    BY <1>3 DEF Handler, _handle_http_exception
  <2>2. /\ Handler(exc).code = "INTERNAL_ERROR" /\ Handler(exc).status = 0
        /\ Handler(exc).event = "uncataloged_http_status"
    BY <2>1
  <2>3. Answerer(exc) = Handler(exc)
    BY <2>2, CatalogHolds, HandlerAnswers
  <2>4. /\ body.code = "INTERNAL_ERROR" /\ body.status = 500
        /\ Answerer(exc).event = "uncataloged_http_status"
    BY <1>0, <2>2, <2>3, CatalogHolds
  <2>. QED
    BY <1>0, <1>3, <2>4, CatalogHolds DEF Events, ServerEvents
<1>4. CASE exc.type \in {"HTTPException", "RequestValidationError"} /\ exc.status = 400
  <2>1. Handler(exc) = [code |-> "VALIDATION_ERROR", status |-> 400, event |-> "none"]
    BY <1>4 DEF Handler, _handle_http_exception, _handle_request_validation_error,
                  HttpStatusCodes, CodeOfStatus
  <2>2. /\ Handler(exc).code = "VALIDATION_ERROR" /\ Handler(exc).status = 400
        /\ Handler(exc).event = "none"
    BY <2>1
  <2>3. Answerer(exc) = Handler(exc)
    BY <2>2, CatalogHolds, HandlerAnswers
  <2>4. /\ body.code = "VALIDATION_ERROR" /\ body.status = 400
        /\ Answerer(exc).event = "none"
    BY <1>0, <2>2, <2>3, CatalogHolds
  <2>. QED
    BY <1>0, <1>4, <2>4, CatalogHolds DEF Events, ServerEvents
<1>5. CASE exc.type \in {"HTTPException", "RequestValidationError"} /\ exc.status = 422
  <2>1. Handler(exc) = [code |-> "VALIDATION_ERROR", status |-> 422, event |-> "none"]
    BY <1>5 DEF Handler, _handle_http_exception, _handle_request_validation_error,
                  HttpStatusCodes, CodeOfStatus
  <2>2. /\ Handler(exc).code = "VALIDATION_ERROR" /\ Handler(exc).status = 422
        /\ Handler(exc).event = "none"
    BY <2>1
  <2>3. Answerer(exc) = Handler(exc)
    BY <2>2, CatalogHolds, HandlerAnswers
  <2>4. /\ body.code = "VALIDATION_ERROR" /\ body.status = 422
        /\ Answerer(exc).event = "none"
    BY <1>0, <2>2, <2>3, CatalogHolds
  <2>. QED
    BY <1>0, <1>5, <2>4, CatalogHolds DEF Events, ServerEvents
<1>6. CASE exc.type = "HTTPException" /\ exc.status = 404
  <2>1. Handler(exc) = [code |-> "RESOURCE_NOT_FOUND", status |-> 404, event |-> "none"]
    BY <1>6 DEF Handler, _handle_http_exception, HttpStatusCodes, CodeOfStatus
  <2>2. /\ Handler(exc).code = "RESOURCE_NOT_FOUND" /\ Handler(exc).status = 404
        /\ Handler(exc).event = "none"
    BY <2>1
  <2>3. Answerer(exc) = Handler(exc)
    BY <2>2, CatalogHolds, HandlerAnswers
  <2>4. /\ body.code = "RESOURCE_NOT_FOUND" /\ body.status = 404
        /\ Answerer(exc).event = "none"
    BY <1>0, <2>2, <2>3, CatalogHolds
  <2>. QED
    BY <1>0, <1>6, <2>4, CatalogHolds DEF Events, ServerEvents
<1>7. CASE exc.type = "HTTPException" /\ exc.status = 405
  <2>1. Handler(exc) = [code |-> "METHOD_NOT_ALLOWED", status |-> 405, event |-> "none"]
    BY <1>7 DEF Handler, _handle_http_exception, HttpStatusCodes, CodeOfStatus
  <2>2. /\ Handler(exc).code = "METHOD_NOT_ALLOWED" /\ Handler(exc).status = 405
        /\ Handler(exc).event = "none"
    BY <2>1
  <2>3. Answerer(exc) = Handler(exc)
    BY <2>2, CatalogHolds, HandlerAnswers
  <2>4. /\ body.code = "METHOD_NOT_ALLOWED" /\ body.status = 405
        /\ Answerer(exc).event = "none"
    BY <1>0, <2>2, <2>3, CatalogHolds
  <2>. QED
    BY <1>0, <1>7, <2>4, CatalogHolds DEF Events, ServerEvents
<1>8. CASE exc.type \notin {"DatabaseError", "CacheError", "PlatformError", "HTTPException",
                            "RequestValidationError"}
  <2>1. ~Claimed(exc)
    BY <1>8 DEF Handler, Claimed
  <2>2. /\ Answerer(exc).code = "INTERNAL_ERROR" /\ Answerer(exc).status = 0
        /\ Answerer(exc).event = "unhandled_exception"
    BY <2>1 DEF Answerer
  <2>3. body.code = "INTERNAL_ERROR" /\ body.status = 500
    BY <1>0, <2>2, CatalogHolds
  <2>. QED
    BY <1>0, <1>8, <2>2, <2>3, CatalogHolds DEF Events, ServerEvents
<1>. QED
  BY <1>1, <1>2, <1>3, <1>4, <1>5, <1>6, <1>7, <1>8 DEF HttpStatusCodes

-----------------------------------------------------------------------------
(* Type correctness                                                        *)

\* Idle tasks and an empty pool are of their types.
LEMMA TypeInit == Init => TypeOK
<1> SUFFICES ASSUME Init PROVE TypeOK
  OBVIOUS
<1>. USE RequestAssumption DEF Init
<1>1. /\ pc \in [Tasks -> Steps] /\ serial \in [Tasks -> 0..MaxRequests]
      /\ kind \in [Tasks -> Kinds \cup {"none"}]
      /\ context \in [Tasks -> Ids \cup {NoId}]
      /\ tx \in [Tasks -> {"none", "open", "committed", "rolled back"}]
  BY DEF Steps
<1>2. conn \subseteq Tasks /\ closing \in 0..PoolSize /\ stage \in Stages
  BY DEF Stages
<1>3. fault \in [Tasks -> Reports] /\ truth \in [Tasks -> Truths]
  BY DEF Reports, Truths
<1>4. checks \in [Tasks -> [postgres : {"skipped", "ok", "failed"},
                            redis : {"skipped", "ok", "failed"}]]
  BY DEF Unprobed
<1>5. /\ probed \in [Tasks -> Stages \cup {"none"}]
      /\ reply \in [Tasks -> [status : Nat, code : Codes \cup {"none"},
                              header : Ids \cup {NoId}, envelope : Ids \cup {NoId}]]
  BY DEF NoReply
<1>6. logged \subseteq Ids \X Events
  OBVIOUS
<1>. HIDE DEF Init
<1>. QED
  BY <1>1, <1>2, <1>3, <1>4, <1>5, <1>6, Zenon DEF TypeOK

\* A request that has begun has an id, which no other task's has.
LEMMA OwnId ==
  ASSUME TypeOK, NEW t \in Tasks, serial[t] > 0
  PROVE  Id(t) \in Ids /\ Id(t) # NoId
<1>1. serial[t] \in 1..MaxRequests
  <2>1. serial[t] \in 0..MaxRequests
    BY DEF TypeOK
  <2>. QED
    BY <2>1, RequestAssumption
<1>. QED
  BY <1>1 DEF Id, Ids, NoId

\* A response has the type of a reply, and a task that sends one is sending.
LEMMA SendType ==
  ASSUME TypeOK, NEW t \in Tasks, serial[t] > 0, NEW body,
         body.status \in Nat, body.code \in Codes \cup {"none"},
         body.envelope \in Ids \cup {NoId}, Send(t, body)
  PROVE  /\ reply' \in [Tasks -> [status : Nat, code : Codes \cup {"none"},
                                  header : Ids \cup {NoId}, envelope : Ids \cup {NoId}]]
         /\ pc' \in [Tasks -> Steps]
<1>1. [status |-> body.status, code |-> body.code,
       header |-> Id(t), envelope |-> body.envelope]
        \in [status : Nat, code : Codes \cup {"none"},
             header : Ids \cup {NoId}, envelope : Ids \cup {NoId}]
  BY OwnId
<1>2. reply' \in [Tasks -> [status : Nat, code : Codes \cup {"none"},
                            header : Ids \cup {NoId}, envelope : Ids \cup {NoId}]]
  BY <1>1 DEF TypeOK, Send
<1>3. pc' \in [Tasks -> Steps]
  BY DEF TypeOK, Send, Steps
<1>. QED
  BY <1>2, <1>3

\* A response without an error.
LEMMA PlainType ==
  ASSUME TypeOK, NEW t \in Tasks, serial[t] > 0, NEW status \in Nat, Send(t, Plain(status))
  PROVE  /\ reply' \in [Tasks -> [status : Nat, code : Codes \cup {"none"},
                                  header : Ids \cup {NoId}, envelope : Ids \cup {NoId}]]
         /\ pc' \in [Tasks -> Steps]
<1>. DEFINE body == Plain(status)
<1>1. body.status \in Nat /\ body.code = "none" /\ body.envelope = NoId
  BY DEF Plain
<1>2. Send(t, body)
  OBVIOUS
<1>. HIDE DEF body
<1>. QED
  BY <1>1, <1>2, SendType

\* A line of the log carries the id in the task's context.
LEMMA LogType ==
  ASSUME TypeOK, NEW t \in Tasks, context[t] \in Ids, NEW event \in Events, Log(t, event)
  PROVE  logged' \subseteq Ids \X Events
<1>1. <<context[t], event>> \in Ids \X Events
  OBVIOUS
<1>2. logged \subseteq Ids \X Events
  BY DEF TypeOK
<1>. QED
  BY <1>1, <1>2, Zenon DEF Log

\* A request that ends leaves its task of its types.
LEMMA LeaveType ==
  ASSUME TypeOK, NEW t \in Tasks, Leave(t)
  PROVE  /\ pc' \in [Tasks -> Steps] /\ kind' \in [Tasks -> Kinds \cup {"none"}]
         /\ context' \in [Tasks -> Ids \cup {NoId}]
         /\ fault' \in [Tasks -> Reports] /\ truth' \in [Tasks -> Truths]
         /\ tx' \in [Tasks -> {"none", "open", "committed", "rolled back"}]
         /\ checks' \in [Tasks -> [postgres : {"skipped", "ok", "failed"},
                                   redis : {"skipped", "ok", "failed"}]]
         /\ probed' \in [Tasks -> Stages \cup {"none"}]
         /\ reply' \in [Tasks -> [status : Nat, code : Codes \cup {"none"},
                                  header : Ids \cup {NoId}, envelope : Ids \cup {NoId}]]
         /\ logged' \subseteq Ids \X Events
<1>. USE DEF TypeOK, Leave
<1>1. /\ pc' \in [Tasks -> Steps] /\ kind' \in [Tasks -> Kinds \cup {"none"}]
      /\ context' \in [Tasks -> Ids \cup {NoId}]
      /\ tx' \in [Tasks -> {"none", "open", "committed", "rolled back"}]
      /\ probed' \in [Tasks -> Stages \cup {"none"}]
      /\ logged' \subseteq Ids \X Events
  BY DEF Steps
<1>2. fault' \in [Tasks -> Reports] /\ truth' \in [Tasks -> Truths]
  <2>1. NoFault \in Reports /\ "none" \in Truths
    BY DEF Reports, Truths
  <2>. QED
    BY <2>1
<1>3. checks' \in [Tasks -> [postgres : {"skipped", "ok", "failed"},
                             redis : {"skipped", "ok", "failed"}]]
  <2>1. Unprobed \in [postgres : {"skipped", "ok", "failed"},
                      redis : {"skipped", "ok", "failed"}]
    BY DEF Unprobed
  <2>. QED
    BY <2>1
<1>4. reply' \in [Tasks -> [status : Nat, code : Codes \cup {"none"},
                            header : Ids \cup {NoId}, envelope : Ids \cup {NoId}]]
  <2>1. NoReply \in [status : Nat, code : Codes \cup {"none"},
                     header : Ids \cup {NoId}, envelope : Ids \cup {NoId}]
    BY DEF NoReply
  <2>. QED
    BY <2>1
<1>. QED
  BY <1>1, <1>2, <1>3, <1>4

\* So does an exception on its way to a handler.
LEMMA RaiseType ==
  ASSUME TypeOK, NEW t \in Tasks, NEW why \in Truths, NEW exc \in Reports, Raise(t, why, exc)
  PROVE  /\ pc' \in [Tasks -> Steps] /\ fault' \in [Tasks -> Reports]
         /\ truth' \in [Tasks -> Truths]
  BY DEF TypeOK, Raise, Steps

\* A report of the readiness endpoint.
LEMMA ReportType ==
  ASSUME TypeOK, NEW t \in Tasks, serial[t] > 0,
         NEW results \in [postgres : {"skipped", "ok", "failed"},
                          redis : {"skipped", "ok", "failed"}],
         Report(t, results)
  PROVE  /\ reply' \in [Tasks -> [status : Nat, code : Codes \cup {"none"},
                                  header : Ids \cup {NoId}, envelope : Ids \cup {NoId}]]
         /\ pc' \in [Tasks -> Steps]
         /\ checks' \in [Tasks -> [postgres : {"skipped", "ok", "failed"},
                                   redis : {"skipped", "ok", "failed"}]]
<1>. DEFINE body == Plain(IF \A x \in DOMAIN results : results[x] = "ok" THEN 200 ELSE 503)
<1>1. body.status \in Nat /\ body.code = "none" /\ body.envelope = NoId
  BY DEF Plain
<1>2. Send(t, body)
  BY DEF Report
<1>3. checks' \in [Tasks -> [postgres : {"skipped", "ok", "failed"},
                             redis : {"skipped", "ok", "failed"}]]
  BY DEF Report, TypeOK
<1>. HIDE DEF body
<1>. QED
  BY <1>1, <1>2, <1>3, SendType

\* Taking a connection and giving one back change the count by one.
LEMMA PoolCounts ==
  ASSUME TypeOK, NEW t \in Tasks
  PROVE  /\ Cardinality(conn) \in Nat
         /\ t \in conn => Cardinality(conn \ {t}) = Cardinality(conn) - 1 /\ Cardinality(conn) > 0
         /\ t \notin conn => /\ Cardinality(conn \ {t}) = Cardinality(conn)
                             /\ Cardinality(conn \cup {t}) = Cardinality(conn) + 1
<1>1. IsFiniteSet(conn)
  BY RequestAssumption, FS_Subset DEF TypeOK
<1>2. Cardinality(conn) \in Nat
  BY <1>1, FS_CardinalityType
<1>3. ASSUME t \in conn
      PROVE  Cardinality(conn \ {t}) = Cardinality(conn) - 1 /\ Cardinality(conn) > 0
  <2>1. Cardinality(conn \ {t}) = Cardinality(conn) - 1
    BY <1>1, <1>3, FS_RemoveElement
  <2>2. Cardinality(conn \ {t}) \in Nat
    BY <1>1, FS_RemoveElement, FS_CardinalityType
  <2>. QED
    BY <1>2, <2>1, <2>2
<1>4. ASSUME t \notin conn
      PROVE  /\ Cardinality(conn \ {t}) = Cardinality(conn)
             /\ Cardinality(conn \cup {t}) = Cardinality(conn) + 1
  <2>1. conn \ {t} = conn
    BY <1>4
  <2>. QED
    BY <1>1, <1>4, <2>1, FS_AddElement
<1>. QED
  BY <1>2, <1>3, <1>4

\* Type correctness, kept by every step.
LEMMA TypeStep == Inductive /\ [Next]_vars => TypeOK'
<1> SUFFICES ASSUME Inductive, [Next]_vars PROVE TypeOK'
  OBVIOUS
<1>0. TypeOK
  BY DEF Inductive
<1>a. ASSUME NEW t \in Tasks, pc[t] # "idle"
      PROVE  serial[t] > 0 /\ context[t] = Id(t) /\ context[t] \in Ids
  BY <1>0, <1>a, OwnId DEF TypeOK, Inductive, RequestInStep, AnswersAreTraceable, Traceable
<1>b. closing \in 0..PoolSize /\ serial \in [Tasks -> 0..MaxRequests]
  BY <1>0 DEF TypeOK
<1>1. ASSUME NEW t \in Tasks, Preflight(t) PROVE TypeOK'
  <2>1. serial[t] > 0 /\ context[t] \in Ids
    BY <1>a, <1>1 DEF Preflight
  <2>2. CASE Send(t, Plain(200)) /\ UNCHANGED logged
    BY <1>0, <1>1, <2>1, <2>2, PlainType DEF Preflight, TypeOK
  <2>3. CASE /\ Send(t, error_response("VALIDATION_ERROR", 400, context[t]))
             /\ Log(t, "cors_preflight_rejected")
    <3>. DEFINE body == error_response("VALIDATION_ERROR", 400, context[t])
    <3>1. body.status = 400 /\ body.code \in Codes /\ body.envelope \in Ids
      BY <2>1, CatalogHolds DEF error_response
    <3>2. "cors_preflight_rejected" \in Events
      BY DEF Events
    <3>3. /\ reply' \in [Tasks -> [status : Nat, code : Codes \cup {"none"},
                                  header : Ids \cup {NoId}, envelope : Ids \cup {NoId}]]
          /\ pc' \in [Tasks -> Steps]
      <4>. HIDE DEF body
      <4>1. Send(t, body)
        BY <2>3 DEF body
      <4>. QED
        BY <1>0, <2>1, <3>1, <4>1, SendType
    <3>. QED
      BY <1>0, <1>1, <2>1, <2>3, <3>2, <3>3, LogType DEF Preflight, TypeOK
  <2>. QED
    BY <1>1, <2>2, <2>3 DEF Preflight
<1>2. ASSUME NEW t \in Tasks, Liveness(t) PROVE TypeOK'
  BY <1>0, <1>a, <1>2, PlainType DEF Liveness, TypeOK
<1>3. ASSUME NEW t \in Tasks, Unroutable(t) PROVE TypeOK'
  <2>1. PICK exc \in RoutingReports : Raise(t, "request", exc)
    BY <1>3 DEF Unroutable
  <2>2. exc \in Reports /\ "request" \in Truths
    BY DEF Reports, Truths
  <2>. QED
    BY <1>0, <1>3, <2>1, <2>2, RaiseType DEF TypeOK, Unroutable
<1>4. ASSUME NEW t \in Tasks, RouteToDatabase(t) PROVE TypeOK'
  <2>1. CASE stage = "ready"
    BY <1>0, <1>4, <2>1 DEF TypeOK, RouteToDatabase, Steps
  <2>2. CASE stage # "ready"
    <3>1. Other(<<"RuntimeError">>) \in Reports /\ "shutdown" \in Truths
      BY DEF Reports, Truths
    <3>. QED
      BY <1>0, <1>4, <2>2, <3>1, RaiseType DEF TypeOK, RouteToDatabase
  <2>. QED
    BY <2>1, <2>2
<1>5. ASSUME NEW t \in Tasks, Acquire(t) PROVE TypeOK'
  BY <1>0, <1>5 DEF TypeOK, Acquire, Steps
<1>6. ASSUME NEW t \in Tasks, AcquireFails(t) PROVE TypeOK'
  <2>1. PICK f \in AcquisitionFailures : Raise(t, f[1], AcquisitionRaises(f[2]))
    BY <1>6 DEF AcquireFails
  <2>. QED
    BY <1>0, <1>6, <2>1, AcquisitionTells, RaiseType DEF TypeOK, AcquireFails
<1>7. ASSUME NEW t \in Tasks, EndpointReturns(t) PROVE TypeOK'
  BY <1>0, <1>7 DEF TypeOK, EndpointReturns, Steps
<1>8. ASSUME NEW t \in Tasks, EndpointFails(t) PROVE TypeOK'
  <2>1. PICK f \in StatementFailures :
          /\ fault' = [fault EXCEPT ![t] = TransactionRaises(f[2])]
          /\ truth' = [truth EXCEPT ![t] = f[1]]
    BY <1>8 DEF EndpointFails
  <2>2. f[1] \in Truths /\ TransactionRaises(f[2]) \in Reports
    BY StatementTells
  <2>. QED
    BY <1>0, <1>8, <2>1, <2>2 DEF TypeOK, EndpointFails, Steps
<1>9. ASSUME NEW t \in Tasks, Commit(t) PROVE TypeOK'
  BY <1>0, <1>9 DEF TypeOK, Commit, Steps
<1>10. ASSUME NEW t \in Tasks, CommitFails(t) PROVE TypeOK'
  <2>1. PICK f \in CommitFailures :
          /\ Raise(t, f[1], TransactionRaises(f[2]))
          /\ \E end \in IF f[1] = "outage" THEN {"committed", "rolled back"} ELSE {"rolled back"} :
               tx' = [tx EXCEPT ![t] = end]
    BY <1>10 DEF CommitFails
  <2>2. tx' \in [Tasks -> {"none", "open", "committed", "rolled back"}]
    BY <1>0, <2>1 DEF TypeOK
  <2>. QED
    BY <1>0, <1>10, <2>1, <2>2, CommitTells, RaiseType DEF TypeOK, CommitFails
<1>11. ASSUME NEW t \in Tasks, RollBack(t) PROVE TypeOK'
  BY <1>0, <1>11 DEF TypeOK, RollBack, Steps
<1>12. ASSUME NEW t \in Tasks, Succeed(t) PROVE TypeOK'
  BY <1>0, <1>a, <1>12, PlainType DEF Succeed, TypeOK
<1>13. ASSUME NEW t \in Tasks, Answer(t) PROVE TypeOK'
  <2>1. serial[t] > 0 /\ context[t] \in Ids
    BY <1>a, <1>13 DEF Answer
  <2>. DEFINE body == error_response(Answerer(fault[t]).code, Answerer(fault[t]).status, context[t])
  <2>2. /\ Send(t, body)
        /\ IF Answerer(fault[t]).event = "none" THEN UNCHANGED logged
           ELSE Log(t, Answerer(fault[t]).event)
    BY <1>13 DEF Answer, Answerer
  <2>3. fault[t].type = "RequestValidationError" => fault[t].status \in {400, 422}
    BY <1>13 DEF Inductive, FaultInStep, Tells, Answer
  <2>4. /\ body.code \in Codes /\ body.envelope = context[t]
        /\ body.status \in {400, 404, 405, 422, 500, 503}
        /\ Answerer(fault[t]).event \in Events \cup {"none"}
    BY <2>3, AnswersAreErrors
  <2>. HIDE DEF body
  <2>5. logged' \subseteq Ids \X Events
    <3>1. CASE Answerer(fault[t]).event = "none"
      BY <1>0, <2>2, <3>1 DEF TypeOK
    <3>2. CASE Answerer(fault[t]).event # "none"
      <4>1. PICK event \in Events : Log(t, event)
        BY <2>2, <2>4, <3>2
      <4>. QED
        BY <1>0, <2>1, <4>1, LogType
    <3>. QED
      BY <3>1, <3>2
  <2>6. /\ reply' \in [Tasks -> [status : Nat, code : Codes \cup {"none"},
                                header : Ids \cup {NoId}, envelope : Ids \cup {NoId}]]
        /\ pc' \in [Tasks -> Steps]
    BY <1>0, <2>1, <2>2, <2>4, SendType
  <2>. QED
    BY <1>0, <1>13, <2>5, <2>6 DEF Answer, TypeOK
<1>14. ASSUME NEW t \in Tasks, ReadinessBegins(t) PROVE TypeOK'
  <2>1. CASE stage = "ready"
    BY <1>0, <1>14, <2>1 DEF TypeOK, ReadinessBegins, Steps
  <2>2. CASE stage # "ready"
    <3>1. Unprobed \in [postgres : {"skipped", "ok", "failed"},
                        redis : {"skipped", "ok", "failed"}]
      BY DEF Unprobed
    <3>. QED
      BY <1>0, <1>a, <1>14, <2>2, <3>1, ReportType DEF TypeOK, ReadinessBegins
  <2>. QED
    BY <2>1, <2>2
<1>15. ASSUME NEW t \in Tasks, PingConnects(t) PROVE TypeOK'
  BY <1>0, <1>15 DEF TypeOK, PingConnects
<1>16. ASSUME NEW t \in Tasks, PostgresAnswers(t) PROVE TypeOK'
  <2>1. serial[t] > 0 /\ context[t] \in Ids /\ probed' \in [Tasks -> Stages \cup {"none"}]
    BY <1>0, <1>a, <1>16 DEF TypeOK, PostgresAnswers
  <2>2. logged' \subseteq Ids \X Events
    <3>1. CASE RedisClosing
      <4>1. "readiness_check_failed" \in Events
        BY DEF Events
      <4>. QED
        BY <1>0, <1>16, <2>1, <3>1, <4>1, LogType DEF PostgresAnswers
    <3>2. CASE ~RedisClosing
      BY <1>0, <1>16, <3>2 DEF PostgresAnswers, TypeOK
    <3>. QED
      BY <3>1, <3>2
  <2>3. CASE RedisClosing
    <3>1. PICK results \in [postgres : {"skipped", "ok", "failed"},
                           redis : {"skipped", "ok", "failed"}] : Report(t, results)
      BY <1>16, <2>3 DEF PostgresAnswers
    <3>. QED
      BY <1>0, <1>16, <2>1, <2>2, <3>1, ReportType DEF TypeOK, PostgresAnswers
  <2>4. CASE ~RedisClosing
    <3>1. /\ checks' = [checks EXCEPT ![t].postgres = "ok"]
          /\ pc' = [pc EXCEPT ![t] = "pinging redis"] /\ UNCHANGED reply
      BY <1>16, <2>4 DEF PostgresAnswers
    <3>2. checks' \in [Tasks -> [postgres : {"skipped", "ok", "failed"},
                                redis : {"skipped", "ok", "failed"}]]
      BY <1>0, <3>1 DEF TypeOK
    <3>3. pc' \in [Tasks -> Steps]
      BY <1>0, <3>1 DEF TypeOK, Steps
    <3>. HIDE <3>1
    <3>4. reply' = reply
      BY <1>16, <2>4 DEF PostgresAnswers
    <3>. QED
      BY <1>0, <1>16, <2>1, <2>2, <3>2, <3>3, <3>4 DEF TypeOK, PostgresAnswers
  <2>. QED
    BY <2>3, <2>4
<1>17. ASSUME NEW t \in Tasks, PostgresFails(t) PROVE TypeOK'
  <2>1. serial[t] > 0 /\ context[t] \in Ids /\ "readiness_check_failed" \in Events
    BY <1>a, <1>17 DEF PostgresFails, Events
  <2>2. PICK results \in [postgres : {"skipped", "ok", "failed"},
                         redis : {"skipped", "ok", "failed"}] : Report(t, results)
    BY <1>17 DEF PostgresFails
  <2>3. logged' \subseteq Ids \X Events
    BY <1>0, <1>17, <2>1, LogType DEF PostgresFails
  <2>. QED
    BY <1>0, <1>17, <2>1, <2>2, <2>3, ReportType DEF TypeOK, PostgresFails
<1>18. ASSUME NEW t \in Tasks, RedisFails(t) PROVE TypeOK'
  <2>1. serial[t] > 0 /\ context[t] \in Ids /\ "readiness_check_failed" \in Events
    BY <1>a, <1>18 DEF RedisFails, Events
  <2>2. PICK results \in [postgres : {"skipped", "ok", "failed"},
                         redis : {"skipped", "ok", "failed"}] : Report(t, results)
    BY <1>18 DEF RedisFails
  <2>3. logged' \subseteq Ids \X Events
    BY <1>0, <1>18, <2>1, LogType DEF RedisFails
  <2>. QED
    BY <1>0, <1>18, <2>1, <2>2, <2>3, ReportType DEF TypeOK, RedisFails
<1>19. ASSUME NEW t \in Tasks, RedisAnswers(t) PROVE TypeOK'
  BY <1>0, <1>a, <1>19, ReportType DEF TypeOK, RedisAnswers
<1>20. ASSUME NEW t \in Tasks, Sent(t) PROVE TypeOK'
  BY <1>0, <1>20, LeaveType DEF TypeOK, Sent
<1>21. ASSUME NEW t \in Tasks, Cancel(t) PROVE TypeOK'
  <2>1. closing' \in 0..PoolSize
    <3>1. /\ closing' = IF t \in conn THEN closing + 1 ELSE closing
          /\ Cardinality(conn) + closing <= PoolSize
      BY <1>21 DEF Cancel, Inductive, ConnectionsAccounted, CheckedOut
    <3>2. Cardinality(conn) \in Nat /\ (t \in conn => Cardinality(conn) > 0)
      BY <1>0, PoolCounts
    <3>. QED
      BY <1>b, <3>1, <3>2, RequestAssumption
  <2>. QED
    BY <1>0, <1>21, <2>1, LeaveType DEF TypeOK, Cancel
<1>22. ASSUME NEW t \in Tasks, NEW k \in Kinds, Arrive(t, k) PROVE TypeOK'
  <2>1. serial' \in [Tasks -> 0..MaxRequests] /\ serial'[t] \in 1..MaxRequests
    <3>1. serial[t] + 1 \in 1..MaxRequests
      BY <1>b, <1>22, RequestAssumption DEF Arrive
    <3>. QED
      BY <1>b, <3>1, <1>22, RequestAssumption DEF Arrive
  <2>3. <<t, serial'[t]>> \in Ids
    BY <2>1 DEF Ids
  <2>. QED
    BY <1>0, <1>22, <2>1, <2>3 DEF TypeOK, Arrive, Steps
<1>23. ASSUME ConnectionClosed PROVE TypeOK'
  <2>1. closing' \in 0..PoolSize
    BY <1>b, <1>23, RequestAssumption DEF ConnectionClosed
  <2>. QED
    BY <1>0, <1>23, <2>1 DEF ConnectionClosed, TypeOK
<1>24. ASSUME Shutdown PROVE TypeOK'
  BY <1>0, <1>24 DEF TypeOK, Shutdown, NextStage, Stages
<1>25. ASSUME UNCHANGED vars PROVE TypeOK'
  BY <1>0, <1>25 DEF TypeOK, vars
<1>. QED
  BY <1>1, <1>2, <1>3, <1>4, <1>5, <1>6, <1>7, <1>8, <1>9, <1>10, <1>11, <1>12, <1>13,
     <1>14, <1>15, <1>16, <1>17, <1>18, <1>19, <1>20, <1>21, <1>22, <1>23, <1>24, <1>25
     DEF Next, Progress

-----------------------------------------------------------------------------
(* What a step leaves alone, and what it does to the task that takes it    *)

\* A task's part of the invariant.
InStep(t) ==
  /\ t \in conn => pc[t] \in {"in endpoint", "committing", "rolling back", "pinging postgres"}
  /\ TransactionInStep(t) /\ RequestInStep(t) /\ FaultInStep(t)
  /\ Honest(t) /\ TellsOutage(t) /\ Traceable(t)

\* Inductive, as the pool's account and each task's part.
LEMMA PartsOfTheInvariant ==
  Inductive <=> TypeOK /\ CheckedOut <= PoolSize /\ \A t \in Tasks : InStep(t)
<1>1. TypeOK => conn \subseteq Tasks
  BY DEF TypeOK
<1>. QED
  BY <1>1, Zenon DEF Inductive, InStep, ConnectionsAccounted, HonestAnswer, OutageMeansOutage,
                     AnswersAreTraceable

\* What task u knows, and what is known of it, stays as it is.
Kept(u) ==
  /\ pc'[u] = pc[u] /\ kind'[u] = kind[u] /\ serial'[u] = serial[u]
  /\ context'[u] = context[u] /\ fault'[u] = fault[u] /\ truth'[u] = truth[u]
  /\ tx'[u] = tx[u] /\ checks'[u] = checks[u] /\ probed'[u] = probed[u]
  /\ reply'[u] = reply[u]
  /\ (u \in conn') <=> (u \in conn)
  /\ \A event : <<Id(u), event>> \in logged => <<Id(u), event>> \in logged'

\* A step of one task keeps what the others know: the context, the session and
\* the exception are each task's own, and the log loses no other task's lines.
LEMMA OthersAreKept ==
  ASSUME TypeOK, NEW t \in Tasks, NEW u \in Tasks, t # u,
         Progress(t) \/ Cancel(t) \/ \E k \in Kinds : Arrive(t, k)
  PROVE  Kept(u)
<1>1. Id(t) # Id(u)
  BY Zenon DEF Id
<1>2. ASSUME Leave(t)
      PROVE  /\ pc'[u] = pc[u] /\ kind'[u] = kind[u]
             /\ context'[u] = context[u] /\ fault'[u] = fault[u] /\ truth'[u] = truth[u]
             /\ tx'[u] = tx[u] /\ checks'[u] = checks[u] /\ probed'[u] = probed[u]
             /\ reply'[u] = reply[u]
             /\ \A event : <<Id(u), event>> \in logged => <<Id(u), event>> \in logged'
  BY <1>1, <1>2 DEF TypeOK, Leave
<1>3. ASSUME NEW body, Send(t, body) PROVE pc'[u] = pc[u] /\ reply'[u] = reply[u]
  BY <1>3 DEF TypeOK, Send
<1>4. ASSUME NEW results, Report(t, results)
      PROVE  pc'[u] = pc[u] /\ reply'[u] = reply[u] /\ checks'[u] = checks[u]
  BY <1>3, <1>4 DEF TypeOK, Report
<1>5. ASSUME NEW event, Log(t, event) PROVE logged \subseteq logged'
  BY <1>5 DEF Log
<1>6. ASSUME NEW why, NEW exc, Raise(t, why, exc)
      PROVE  pc'[u] = pc[u] /\ fault'[u] = fault[u] /\ truth'[u] = truth[u]
  BY <1>6 DEF TypeOK, Raise
<1>7. CASE Preflight(t)
  BY <1>3, <1>5, <1>7 DEF TypeOK, Preflight, Kept
<1>8. CASE Liveness(t)
  BY <1>3, <1>8 DEF TypeOK, Liveness, Kept
<1>9. CASE Unroutable(t)
  BY <1>6, <1>9 DEF TypeOK, Unroutable, Kept
<1>10. CASE RouteToDatabase(t)
  BY <1>6, <1>10 DEF TypeOK, RouteToDatabase, Kept
<1>11. CASE Acquire(t)
  BY <1>11 DEF TypeOK, Acquire, Kept
<1>12. CASE AcquireFails(t)
  BY <1>6, <1>12 DEF TypeOK, AcquireFails, Kept
<1>13. CASE EndpointReturns(t)
  BY <1>13 DEF TypeOK, EndpointReturns, Kept
<1>14. CASE EndpointFails(t)
  BY <1>14 DEF TypeOK, EndpointFails, Kept
<1>15. CASE Commit(t)
  BY <1>15 DEF TypeOK, Commit, Kept
<1>16. CASE CommitFails(t)
  BY <1>6, <1>16 DEF TypeOK, CommitFails, Kept
<1>17. CASE RollBack(t)
  BY <1>17 DEF TypeOK, RollBack, Kept
<1>18. CASE Succeed(t)
  BY <1>3, <1>18 DEF TypeOK, Succeed, Kept
<1>19. CASE Answer(t)
  BY <1>3, <1>5, <1>19 DEF TypeOK, Answer, Kept
<1>20. CASE ReadinessBegins(t)
  BY <1>4, <1>20 DEF TypeOK, ReadinessBegins, Kept
<1>21. CASE PingConnects(t)
  BY <1>21 DEF TypeOK, PingConnects, Kept
<1>22. CASE PostgresAnswers(t)
  BY <1>4, <1>5, <1>22 DEF TypeOK, PostgresAnswers, Kept
<1>23. CASE PostgresFails(t)
  BY <1>4, <1>5, <1>23 DEF TypeOK, PostgresFails, Kept
<1>24. CASE RedisAnswers(t)
  BY <1>4, <1>24 DEF TypeOK, RedisAnswers, Kept
<1>25. CASE RedisFails(t)
  BY <1>4, <1>5, <1>25 DEF TypeOK, RedisFails, Kept
<1>26. CASE Sent(t)
  BY <1>2, <1>26 DEF TypeOK, Sent, Kept
<1>27. CASE Cancel(t)
  BY <1>2, <1>27 DEF TypeOK, Cancel, Kept
<1>28. CASE \E k \in Kinds : Arrive(t, k)
  BY <1>28 DEF TypeOK, Arrive, Kept
<1>. QED
  BY <1>7, <1>8, <1>9, <1>10, <1>11, <1>12, <1>13, <1>14, <1>15, <1>16, <1>17, <1>18,
     <1>19, <1>20, <1>21, <1>22, <1>23, <1>24, <1>25, <1>26, <1>27, <1>28, Zenon
     DEF Progress

\* A task that nothing happens to stays in step.
LEMMA KeptInStep ==
  ASSUME NEW u \in Tasks, InStep(u), Kept(u)
  PROVE  InStep(u)'
<1>1. Id(u)' = Id(u)
  BY DEF Id, Kept
<1>2. TransactionInStep(u)' /\ RequestInStep(u)'
  BY DEF InStep, Kept, TransactionInStep, RequestInStep
<1>5. FaultInStep(u)'
  <2>1. pc'[u] = pc[u] /\ fault'[u] = fault[u] /\ truth'[u] = truth[u] /\ FaultInStep(u)
    BY DEF InStep, Kept
  <2>2. Tells(fault'[u], truth'[u]) <=> Tells(fault[u], truth[u])
    BY <2>1, Zenon
  <2>. QED
    BY <2>1, <2>2, Zenon DEF FaultInStep
<1>3. Honest(u)' /\ TellsOutage(u)'
  BY DEF InStep, Kept, Honest, TellsOutage
<1>4. Traceable(u)'
  <2>1. Traceable(u) /\ \A event : <<Id(u), event>> \in logged => <<Id(u), event>> \in logged'
    BY DEF InStep, Kept
  <2>2. ASSUME reply[u].code # "none", reply[u].status >= 500
        PROVE  \E event \in ServerEvents : <<reply[u].header, event>> \in logged'
    <3>1. reply[u] # NoReply
      BY <2>2 DEF NoReply
    <3>2. reply[u].header = Id(u)
      BY <2>1, <3>1 DEF Traceable
    <3>. QED
      BY <2>1, <2>2, <3>2 DEF Traceable
  <2>3. context'[u] = context[u] /\ pc'[u] = pc[u] /\ reply'[u] = reply[u]
    BY DEF Kept
  <2>. QED
    BY <1>1, <2>1, <2>2, <2>3 DEF Traceable
<1>. QED
  BY <1>2, <1>3, <1>4, <1>5 DEF InStep, Kept

\* No answer is neither a success nor an error.
LEMMA NothingSent == NoReply.status = 0 /\ NoReply.status # 200 /\ NoReply.code = "none"
  BY DEF NoReply

\* A request that is being worked on has no answer yet: what is left to show
\* after a step is that its place, its transaction and its failure agree.
LEMMA WorkingInStep ==
  ASSUME NEW t \in Tasks, InStep(t), pc[t] \notin {"idle", "sending"},
         pc'[t] \notin {"idle", "arrived", "sending"},
         kind'[t] = kind[t], serial'[t] = serial[t], context'[t] = context[t],
         reply'[t] = reply[t],
         t \in conn' =>
           pc'[t] \in {"in endpoint", "committing", "rolling back", "pinging postgres"},
         pc'[t] \in {"pinging postgres", "pinging redis"} => kind[t] = "readiness",
         pc'[t] \notin {"pinging postgres", "pinging redis"} => kind[t] = "transaction",
         pc'[t] = "pinging redis" => probed'[t] \in {"ready", "stopping"},
         TransactionInStep(t)', FaultInStep(t)'
  PROVE  InStep(t)'
<1>1. /\ serial[t] > 0 /\ context[t] = Id(t) /\ reply[t] = NoReply
  BY DEF InStep, RequestInStep, Traceable
<1>2. Id(t)' = Id(t) /\ reply'[t] = NoReply
  BY <1>1 DEF Id
<1>3. NoReply.status # 200 /\ NoReply.code = "none"
  BY NothingSent
<1>4. RequestInStep(t)'
  BY <1>1, <1>2 DEF RequestInStep, NoReply
<1>5. Honest(t)' /\ TellsOutage(t)'
  BY <1>2, <1>3, Zenon DEF Honest, TellsOutage
<1>6. Traceable(t)'
  BY <1>1, <1>2, <1>3 DEF Traceable
<1>. QED
  BY <1>4, <1>5, <1>6 DEF InStep

\* An answer goes out: it must agree with the transaction and with the truth,
\* and a failure of the server must be in the log.
LEMMA SendingInStep ==
  ASSUME NEW t \in Tasks, InStep(t), pc[t] \notin {"idle", "sending"},
         NEW body, Send(t, body), t \in DOMAIN pc, t \in DOMAIN reply,
         kind'[t] = kind[t], serial'[t] = serial[t], context'[t] = context[t],
         tx'[t] = tx[t], truth'[t] = truth[t], t \notin conn',
         kind[t] = "transaction" /\ body.status = 200 => tx[t] = "committed",
         kind[t] = "transaction" /\ body.code \notin {"none", "DEPENDENCY_UNAVAILABLE"} =>
           tx[t] # "committed",
         kind[t] = "readiness" /\ body.status = 200 =>
           checks'[t] = [postgres |-> "ok", redis |-> "ok"] /\ probed'[t] \in {"ready", "stopping"},
         kind[t] = "transaction" =>
           (body.code = "DEPENDENCY_UNAVAILABLE" <=> truth[t] \in Lost),
         body.code # "none" => body.envelope = Id(t),
         body.code # "none" /\ body.status >= 500 =>
           \E event \in ServerEvents : <<Id(t), event>> \in logged'
  PROVE  InStep(t)'
<1>1. serial[t] > 0 /\ context[t] = Id(t)
  BY DEF InStep, RequestInStep, Traceable
<1>2. Id(t)' = Id(t) /\ pc'[t] = "sending"
  BY DEF Id, Send
<1>3. /\ reply'[t].status = body.status /\ reply'[t].code = body.code
      /\ reply'[t].header = Id(t) /\ reply'[t].envelope = body.envelope
  BY DEF Send
<1>4. TransactionInStep(t)' /\ RequestInStep(t)' /\ FaultInStep(t)'
  BY <1>1, <1>2 DEF TransactionInStep, RequestInStep, FaultInStep
<1>5. Honest(t)' /\ TellsOutage(t)'
  BY <1>2, <1>3 DEF Honest, TellsOutage
<1>6. Traceable(t)'
  BY <1>1, <1>2, <1>3 DEF Traceable
<1>. QED
  BY <1>2, <1>4, <1>5, <1>6 DEF InStep

Results == [postgres : {"skipped", "ok", "failed"}, redis : {"skipped", "ok", "failed"}]

\* A report says ready exactly when both probes succeeded; it is then honest if
\* the Redis probe began before its client was closing.
LEMMA ReportInStep ==
  ASSUME TypeOK, NEW t \in Tasks, InStep(t), pc[t] \notin {"idle", "sending"},
         NEW results \in Results, Report(t, results), kind[t] = "readiness",
         kind'[t] = kind[t], serial'[t] = serial[t], context'[t] = context[t],
         tx'[t] = tx[t], truth'[t] = truth[t], t \notin conn',
         results = [postgres |-> "ok", redis |-> "ok"] => probed'[t] \in {"ready", "stopping"}
  PROVE  InStep(t)'
<1>. DEFINE body == Plain(IF \A x \in DOMAIN results : results[x] = "ok" THEN 200 ELSE 503)
<1>1. body.code = "none"
  BY DEF Plain
<1>2. body.status = 200 => results = [postgres |-> "ok", redis |-> "ok"]
  BY DEF Plain, Results
<1>3. checks'[t] = results /\ t \in DOMAIN pc /\ t \in DOMAIN reply
  BY DEF Report, TypeOK
<1>4. Send(t, body)
  BY DEF Report
<1>. HIDE DEF body
<1>. QED
  BY <1>1, <1>2, <1>3, <1>4, SendingInStep

\* A task that leaves its request knows nothing of it any more.
LEMMA LeftInStep ==
  ASSUME TypeOK, NEW t \in Tasks, Leave(t), t \notin conn'
  PROVE  InStep(t)'
<1>1. /\ pc'[t] = "idle" /\ kind'[t] = "none" /\ context'[t] = NoId /\ truth'[t] = "none"
      /\ tx'[t] = "none" /\ reply'[t] = NoReply
  BY DEF Leave, TypeOK
<1>2. reply'[t].status = 0 /\ reply'[t].code = "none"
  BY <1>1 DEF NoReply
<1>3. TransactionInStep(t)' /\ RequestInStep(t)' /\ FaultInStep(t)'
  BY <1>1 DEF TransactionInStep, RequestInStep, FaultInStep
<1>4. Honest(t)' /\ TellsOutage(t)' /\ Traceable(t)'
  BY <1>1, <1>2 DEF Honest, TellsOutage, Traceable
<1>. QED
  BY <1>3, <1>4 DEF InStep

\* The step of a task keeps its own part of the invariant.
LEMMA OwnStep ==
  ASSUME TypeOK, NEW t \in Tasks, InStep(t),
         Progress(t) \/ Cancel(t) \/ \E k \in Kinds : Arrive(t, k)
  PROVE  InStep(t)'
<1>1. /\ DOMAIN pc = Tasks /\ DOMAIN kind = Tasks /\ DOMAIN serial = Tasks
      /\ DOMAIN context = Tasks /\ DOMAIN fault = Tasks /\ DOMAIN truth = Tasks
      /\ DOMAIN tx = Tasks /\ DOMAIN checks = Tasks /\ DOMAIN probed = Tasks
      /\ DOMAIN reply = Tasks
  BY DEF TypeOK
<1>a. /\ TransactionInStep(t) /\ RequestInStep(t) /\ FaultInStep(t)
      /\ t \in conn => pc[t] \in {"in endpoint", "committing", "rolling back", "pinging postgres"}
      /\ pc[t] # "idle" => context[t] = Id(t) /\ (reply[t] = NoReply \/ pc[t] = "sending")
  BY DEF InStep, RequestInStep, Traceable
<1>2. CASE Preflight(t)
  <2>1. /\ kind'[t] = kind[t] /\ serial'[t] = serial[t] /\ context'[t] = context[t]
        /\ tx'[t] = tx[t] /\ truth'[t] = truth[t] /\ t \notin conn'
    BY <1>1, <1>a, <1>2 DEF Preflight
  <2>2. CASE Send(t, Plain(200))
    <3>1. Plain(200).status = 200 /\ Plain(200).code = "none"
      BY DEF Plain
    <3>. QED
      BY <1>1, <1>2, <2>1, <2>2, <3>1, SendingInStep DEF Preflight
  <2>3. CASE Send(t, error_response("VALIDATION_ERROR", 400, context[t]))
    <3>. DEFINE body == error_response("VALIDATION_ERROR", 400, context[t])
    <3>1. body.status = 400 /\ body.code = "VALIDATION_ERROR" /\ body.envelope = context[t]
      BY CatalogHolds DEF error_response
    <3>2. context[t] = Id(t)
      BY <1>a, <1>2 DEF Preflight
    <3>. HIDE DEF body
    <3>3. Send(t, body)
      BY <2>3 DEF body
    <3>. QED
      BY <1>1, <1>2, <2>1, <3>1, <3>2, <3>3, SendingInStep DEF Preflight
  <2>. QED
    BY <1>2, <2>2, <2>3 DEF Preflight
<1>3. CASE Liveness(t)
  <2>1. /\ kind'[t] = kind[t] /\ serial'[t] = serial[t] /\ context'[t] = context[t]
        /\ tx'[t] = tx[t] /\ truth'[t] = truth[t] /\ t \notin conn'
    BY <1>1, <1>a, <1>3 DEF Liveness
  <2>2. Plain(200).status = 200 /\ Plain(200).code = "none"
    BY DEF Plain
  <2>. QED
    BY <1>1, <1>3, <2>1, <2>2, SendingInStep DEF Liveness
<1>4. CASE Unroutable(t)
  <2>1. PICK exc \in RoutingReports : Raise(t, "request", exc)
    BY <1>4 DEF Unroutable
  <2>2. Tells(exc, "request")
    BY DEF RoutingReports, Exception, Tells, Lost
  <2>3. /\ pc'[t] = "raised" /\ fault'[t] = exc /\ truth'[t] = "request" /\ t \notin conn'
        /\ tx'[t] = tx[t] /\ kind'[t] = kind[t] /\ serial'[t] = serial[t]
        /\ context'[t] = context[t] /\ reply'[t] = reply[t]
    BY <1>1, <1>a, <1>4, <2>1 DEF Unroutable, Raise
  <2>4. TransactionInStep(t)'
    BY <1>a, <1>4, <2>3 DEF Unroutable, TransactionInStep
  <2>5. FaultInStep(t)'
    BY <2>2, <2>3, Zenon DEF FaultInStep
  <2>. QED
    BY <1>4, <2>3, <2>4, <2>5, WorkingInStep DEF Unroutable
<1>5. CASE RouteToDatabase(t)
  <2>1. /\ t \notin conn' /\ tx'[t] = tx[t] /\ kind'[t] = kind[t] /\ serial'[t] = serial[t]
        /\ context'[t] = context[t] /\ reply'[t] = reply[t]
    BY <1>1, <1>a, <1>5 DEF RouteToDatabase
  <2>2. CASE stage = "ready"
    <3>1. pc'[t] = "acquiring" /\ truth'[t] = truth[t]
      BY <1>1, <1>5, <2>2 DEF RouteToDatabase
    <3>2. TransactionInStep(t)' /\ FaultInStep(t)'
      BY <1>a, <1>5, <2>1, <3>1 DEF RouteToDatabase, TransactionInStep, FaultInStep
    <3>. QED
      BY <1>5, <2>1, <3>1, <3>2, WorkingInStep DEF RouteToDatabase
  <2>3. CASE stage # "ready"
    <3>1. PICK exc : exc = Other(<<"RuntimeError">>)
      OBVIOUS
    <3>2. Tells(exc, "shutdown")
      BY <3>1 DEF Other, Exception, Tells, Lost
    <3>3. pc'[t] = "raised" /\ fault'[t] = exc /\ truth'[t] = "shutdown"
      BY <1>1, <1>5, <2>3, <3>1 DEF RouteToDatabase, Raise
    <3>4. TransactionInStep(t)'
      BY <1>a, <1>5, <2>1, <3>3 DEF RouteToDatabase, TransactionInStep
    <3>5. FaultInStep(t)'
      BY <3>2, <3>3, Zenon DEF FaultInStep
    <3>. QED
      BY <1>5, <2>1, <3>3, <3>4, <3>5, WorkingInStep DEF RouteToDatabase
  <2>. QED
    BY <2>2, <2>3
<1>6. CASE Acquire(t)
  <2>1. /\ pc'[t] = "in endpoint" /\ tx'[t] = "open" /\ t \in conn' /\ truth'[t] = truth[t]
        /\ kind'[t] = kind[t] /\ serial'[t] = serial[t] /\ context'[t] = context[t]
        /\ reply'[t] = reply[t]
    BY <1>1, <1>6 DEF Acquire
  <2>2. TransactionInStep(t)' /\ FaultInStep(t)'
    BY <1>a, <1>6, <2>1 DEF Acquire, TransactionInStep, FaultInStep
  <2>. QED
    BY <1>a, <1>6, <2>1, <2>2, WorkingInStep DEF Acquire, RequestInStep
<1>7. CASE AcquireFails(t)
  <2>1. PICK f \in AcquisitionFailures : Raise(t, f[1], AcquisitionRaises(f[2]))
    BY <1>7 DEF AcquireFails
  <2>2. Tells(AcquisitionRaises(f[2]), f[1])
    BY AcquisitionTells
  <2>3. /\ pc'[t] = "raised" /\ fault'[t] = AcquisitionRaises(f[2]) /\ truth'[t] = f[1]
        /\ tx'[t] = tx[t] /\ kind'[t] = kind[t] /\ serial'[t] = serial[t]
        /\ context'[t] = context[t] /\ reply'[t] = reply[t] /\ t \notin conn'
    BY <1>1, <1>a, <1>7, <2>1 DEF AcquireFails, Raise
  <2>4. TransactionInStep(t)'
    BY <1>a, <1>7, <2>3 DEF AcquireFails, TransactionInStep
  <2>5. FaultInStep(t)'
    BY <2>2, <2>3, Zenon DEF FaultInStep
  <2>. QED
    BY <1>a, <1>7, <2>3, <2>4, <2>5, WorkingInStep DEF AcquireFails, RequestInStep
<1>8. CASE EndpointReturns(t)
  <2>1. /\ pc'[t] = "committing" /\ tx'[t] = tx[t] /\ conn' = conn /\ truth'[t] = truth[t]
        /\ kind'[t] = kind[t] /\ serial'[t] = serial[t] /\ context'[t] = context[t]
        /\ reply'[t] = reply[t]
    BY <1>1, <1>8 DEF EndpointReturns
  <2>2. TransactionInStep(t)' /\ FaultInStep(t)'
    BY <1>a, <1>8, <2>1 DEF EndpointReturns, TransactionInStep, FaultInStep
  <2>. QED
    BY <1>a, <1>8, <2>1, <2>2, WorkingInStep DEF EndpointReturns, RequestInStep
<1>9. CASE EndpointFails(t)
  <2>1. PICK f \in StatementFailures :
          /\ fault' = [fault EXCEPT ![t] = TransactionRaises(f[2])]
          /\ truth' = [truth EXCEPT ![t] = f[1]]
    BY <1>9 DEF EndpointFails
  <2>2. Tells(TransactionRaises(f[2]), f[1])
    BY StatementTells
  <2>3. /\ pc'[t] = "rolling back" /\ fault'[t] = TransactionRaises(f[2]) /\ truth'[t] = f[1]
        /\ tx'[t] = tx[t] /\ kind'[t] = kind[t] /\ serial'[t] = serial[t]
        /\ context'[t] = context[t] /\ reply'[t] = reply[t] /\ conn' = conn
    BY <1>1, <1>9, <2>1 DEF EndpointFails
  <2>4. TransactionInStep(t)'
    BY <1>a, <1>9, <2>3 DEF EndpointFails, TransactionInStep
  <2>5. FaultInStep(t)'
    BY <2>2, <2>3, Zenon DEF FaultInStep
  <2>. QED
    BY <1>a, <1>9, <2>3, <2>4, <2>5, WorkingInStep DEF EndpointFails, RequestInStep
<1>10. CASE Commit(t)
  <2>1. /\ pc'[t] = "committed" /\ tx'[t] = "committed" /\ t \notin conn' /\ truth'[t] = truth[t]
        /\ kind'[t] = kind[t] /\ serial'[t] = serial[t] /\ context'[t] = context[t]
        /\ reply'[t] = reply[t]
    BY <1>1, <1>10 DEF Commit
  <2>2. TransactionInStep(t)' /\ FaultInStep(t)'
    BY <1>a, <1>10, <2>1 DEF Commit, TransactionInStep, FaultInStep
  <2>. QED
    BY <1>a, <1>10, <2>1, <2>2, WorkingInStep DEF Commit, RequestInStep
<1>11. CASE CommitFails(t)
  <2>1. PICK f \in CommitFailures :
          /\ Raise(t, f[1], TransactionRaises(f[2]))
          /\ \E end \in IF f[1] = "outage" THEN {"committed", "rolled back"} ELSE {"rolled back"} :
               tx' = [tx EXCEPT ![t] = end]
    BY <1>11 DEF CommitFails
  <2>2. /\ Tells(TransactionRaises(f[2]), f[1])
        /\ f[1] = "outage" => TransactionRaises(f[2]) = DatabaseError
    BY CommitTells
  <2>3. /\ pc'[t] = "raised" /\ fault'[t] = TransactionRaises(f[2]) /\ truth'[t] = f[1]
        /\ kind'[t] = kind[t] /\ serial'[t] = serial[t]
        /\ context'[t] = context[t] /\ reply'[t] = reply[t] /\ t \notin conn'
    BY <1>1, <1>11, <2>1 DEF CommitFails, Raise
  <2>4. tx'[t] = "committed" => f[1] = "outage"
    BY <1>1, <2>1
  <2>5. TransactionInStep(t)'
    BY <2>2, <2>3, <2>4 DEF TransactionInStep
  <2>6. FaultInStep(t)'
    BY <2>2, <2>3, Zenon DEF FaultInStep
  <2>. QED
    BY <1>a, <1>11, <2>3, <2>5, <2>6, WorkingInStep DEF CommitFails, RequestInStep
<1>12. CASE RollBack(t)
  <2>1. /\ pc'[t] = "raised" /\ tx'[t] = "rolled back" /\ t \notin conn'
        /\ truth'[t] = truth[t] /\ fault'[t] = fault[t]
        /\ kind'[t] = kind[t] /\ serial'[t] = serial[t] /\ context'[t] = context[t]
        /\ reply'[t] = reply[t]
    BY <1>1, <1>12 DEF RollBack
  <2>2. TransactionInStep(t)'
    BY <2>1 DEF TransactionInStep
  <2>3. Tells(fault[t], truth[t])
    BY <1>a, <1>12 DEF RollBack, FaultInStep
  <2>4. FaultInStep(t)'
    BY <2>1, <2>3, Zenon DEF FaultInStep
  <2>. QED
    BY <1>a, <1>12, <2>1, <2>2, <2>4, WorkingInStep DEF RollBack, RequestInStep
<1>13. CASE Succeed(t)
  <2>1. /\ kind'[t] = kind[t] /\ serial'[t] = serial[t] /\ context'[t] = context[t]
        /\ tx'[t] = tx[t] /\ truth'[t] = truth[t] /\ t \notin conn'
    BY <1>1, <1>a, <1>13 DEF Succeed
  <2>2. Plain(200).status = 200 /\ Plain(200).code = "none"
    BY DEF Plain
  <2>3. kind[t] = "transaction" /\ tx[t] = "committed" /\ truth[t] \notin Lost
    BY <1>a, <1>13 DEF Succeed, RequestInStep, TransactionInStep, FaultInStep, Lost
  <2>. QED
    BY <1>1, <1>13, <2>1, <2>2, <2>3, SendingInStep DEF Succeed
<1>14. CASE Answer(t)
  <2>1. /\ kind'[t] = kind[t] /\ serial'[t] = serial[t] /\ context'[t] = context[t]
        /\ tx'[t] = tx[t] /\ truth'[t] = truth[t] /\ t \notin conn'
    BY <1>1, <1>a, <1>14 DEF Answer
  <2>. DEFINE body == error_response(Answerer(fault[t]).code, Answerer(fault[t]).status, context[t])
  <2>2. /\ Send(t, body)
        /\ Answerer(fault[t]).event # "none" => Log(t, Answerer(fault[t]).event)
    BY <1>14 DEF Answer, Answerer
  <2>3. Tells(fault[t], truth[t]) /\ context[t] = Id(t) /\ kind[t] = "transaction"
    BY <1>a, <1>14 DEF Answer, FaultInStep, RequestInStep
  <2>4. /\ body.code \in Codes /\ body.envelope = Id(t)
        /\ body.status \in {400, 404, 405, 422, 500, 503}
        /\ body.code = "DEPENDENCY_UNAVAILABLE" <=> fault[t].type \in {"DatabaseError", "CacheError"}
        /\ body.status >= 500 => Answerer(fault[t]).event \in ServerEvents
    BY <2>3, AnswersAreErrors DEF Tells
  <2>. HIDE DEF body
  <2>5. body.code = "DEPENDENCY_UNAVAILABLE" <=> truth[t] \in Lost
    BY <2>3, <2>4 DEF Tells
  <2>6. tx[t] = "committed" => body.code = "DEPENDENCY_UNAVAILABLE"
    BY <1>a, <1>14, <2>4 DEF Answer, TransactionInStep, DatabaseError, Exception
  <2>7. ASSUME body.status >= 500
        PROVE  \E event \in ServerEvents : <<Id(t), event>> \in logged'
    <3>1. Answerer(fault[t]).event \in ServerEvents
      BY <2>4, <2>7
    <3>2. Log(t, Answerer(fault[t]).event)
      BY <2>2, <3>1 DEF ServerEvents
    <3>. QED
      BY <2>3, <3>1, <3>2 DEF Log
  <2>. QED
    BY <1>1, <1>14, <2>1, <2>2, <2>3, <2>4, <2>5, <2>6, <2>7, SendingInStep DEF Answer
<1>15. CASE ReadinessBegins(t)
  <2>1. /\ kind'[t] = kind[t] /\ serial'[t] = serial[t] /\ context'[t] = context[t]
        /\ tx'[t] = tx[t] /\ truth'[t] = truth[t] /\ t \notin conn'
    BY <1>1, <1>a, <1>15 DEF ReadinessBegins
  <2>2. CASE stage = "ready"
    <3>1. pc'[t] = "pinging postgres" /\ reply'[t] = reply[t]
      BY <1>1, <1>15, <2>2 DEF ReadinessBegins
    <3>2. TransactionInStep(t)' /\ FaultInStep(t)'
      BY <1>a, <1>15, <2>1, <3>1 DEF ReadinessBegins, TransactionInStep, FaultInStep
    <3>. QED
      BY <1>15, <2>1, <3>1, <3>2, WorkingInStep DEF ReadinessBegins
  <2>3. CASE stage # "ready"
    <3>1. Report(t, Unprobed)
      BY <1>15, <2>3 DEF ReadinessBegins
    <3>2. Unprobed # [postgres |-> "ok", redis |-> "ok"] /\ Unprobed \in Results
      BY DEF Unprobed, Results
    <3>. QED
      BY <1>1, <1>15, <2>1, <3>1, <3>2, ReportInStep DEF ReadinessBegins
  <2>. QED
    BY <2>2, <2>3
<1>16. CASE PingConnects(t)
  <2>1. /\ pc'[t] = "pinging postgres" /\ tx'[t] = tx[t] /\ truth'[t] = truth[t]
        /\ kind'[t] = kind[t] /\ serial'[t] = serial[t] /\ context'[t] = context[t]
        /\ reply'[t] = reply[t]
    BY <1>1, <1>16 DEF PingConnects
  <2>2. TransactionInStep(t)' /\ FaultInStep(t)'
    BY <1>a, <1>16, <2>1 DEF PingConnects, TransactionInStep, FaultInStep
  <2>. QED
    BY <1>a, <1>16, <2>1, <2>2, WorkingInStep DEF PingConnects, RequestInStep
<1>17. CASE PostgresAnswers(t)
  <2>1. /\ kind'[t] = kind[t] /\ serial'[t] = serial[t] /\ context'[t] = context[t]
        /\ tx'[t] = tx[t] /\ truth'[t] = truth[t] /\ t \notin conn'
    BY <1>1, <1>a, <1>17 DEF PostgresAnswers
  <2>2. probed'[t] = stage
    BY <1>1, <1>17 DEF PostgresAnswers
  <2>3. CASE RedisClosing
    <3>. DEFINE results == [postgres |-> "ok", redis |-> "failed"]
    <3>1. Report(t, results)
      BY <1>17, <2>3 DEF PostgresAnswers
    <3>2. results # [postgres |-> "ok", redis |-> "ok"] /\ results \in Results
      BY DEF Results
    <3>. HIDE DEF results
    <3>3. pc[t] = "pinging postgres" /\ kind[t] = "readiness"
      BY <1>a, <1>17 DEF PostgresAnswers, RequestInStep
    <3>. QED
      BY <2>1, <3>1, <3>2, <3>3, ReportInStep
  <2>4. CASE ~RedisClosing
    <3>1. pc'[t] = "pinging redis" /\ reply'[t] = reply[t]
      BY <1>1, <1>17, <2>4 DEF PostgresAnswers
    <3>2. stage \in {"ready", "stopping"}
      BY <2>4 DEF RedisClosing, TypeOK, Stages
    <3>3. TransactionInStep(t)' /\ FaultInStep(t)'
      BY <1>a, <1>17, <2>1, <3>1 DEF PostgresAnswers, TransactionInStep, FaultInStep
    <3>. QED
      BY <1>a, <1>17, <2>1, <2>2, <3>1, <3>2, <3>3, WorkingInStep DEF PostgresAnswers, RequestInStep
  <2>. QED
    BY <2>3, <2>4
<1>18. CASE PostgresFails(t)
  <2>1. /\ kind'[t] = kind[t] /\ serial'[t] = serial[t] /\ context'[t] = context[t]
        /\ tx'[t] = tx[t] /\ truth'[t] = truth[t] /\ t \notin conn'
    BY <1>1, <1>a, <1>18 DEF PostgresFails
  <2>. DEFINE results == [postgres |-> "failed", redis |-> "skipped"]
  <2>2. Report(t, results)
    BY <1>18 DEF PostgresFails
  <2>3. results # [postgres |-> "ok", redis |-> "ok"] /\ results \in Results
    BY DEF Results
  <2>. HIDE DEF results
  <2>4. kind[t] = "readiness"
    BY <1>a, <1>18 DEF PostgresFails, RequestInStep
  <2>. QED
    BY <1>1, <1>18, <2>1, <2>2, <2>3, <2>4, ReportInStep DEF PostgresFails
<1>19. CASE RedisFails(t)
  <2>1. /\ kind'[t] = kind[t] /\ serial'[t] = serial[t] /\ context'[t] = context[t]
        /\ tx'[t] = tx[t] /\ truth'[t] = truth[t] /\ t \notin conn'
    BY <1>1, <1>a, <1>19 DEF RedisFails
  <2>. DEFINE results == [postgres |-> "ok", redis |-> "failed"]
  <2>2. Report(t, results)
    BY <1>19 DEF RedisFails
  <2>3. results # [postgres |-> "ok", redis |-> "ok"] /\ results \in Results
    BY DEF Results
  <2>. HIDE DEF results
  <2>4. kind[t] = "readiness"
    BY <1>a, <1>19 DEF RedisFails, RequestInStep
  <2>. QED
    BY <1>1, <1>19, <2>1, <2>2, <2>3, <2>4, ReportInStep DEF RedisFails
<1>20. CASE RedisAnswers(t)
  <2>1. /\ kind'[t] = kind[t] /\ serial'[t] = serial[t] /\ context'[t] = context[t]
        /\ tx'[t] = tx[t] /\ truth'[t] = truth[t] /\ t \notin conn'
    BY <1>1, <1>a, <1>20 DEF RedisAnswers
  <2>. DEFINE results == [postgres |-> "ok", redis |-> "ok"]
  <2>2. Report(t, results)
    BY <1>20 DEF RedisAnswers
  <2>3. results = [postgres |-> "ok", redis |-> "ok"] /\ results \in Results
    BY DEF Results
  <2>. HIDE DEF results
  <2>4. kind[t] = "readiness" /\ probed'[t] \in {"ready", "stopping"}
    BY <1>1, <1>a, <1>20 DEF RedisAnswers, RequestInStep
  <2>. QED
    BY <1>1, <1>20, <2>1, <2>2, <2>3, <2>4, ReportInStep DEF RedisAnswers
<1>21. CASE Sent(t)
  <2>1. t \notin conn'
    BY <1>a, <1>21 DEF Sent
  <2>. QED
    BY <1>21, <2>1, LeftInStep DEF Sent
<1>22. CASE Cancel(t)
  BY <1>22, LeftInStep DEF Cancel
<1>23. CASE \E k \in Kinds : Arrive(t, k)
  <2>1. PICK k \in Kinds : Arrive(t, k)
    BY <1>23
  <2>2. /\ pc[t] = "idle" /\ pc'[t] = "arrived" /\ serial'[t] = serial[t] + 1
        /\ context'[t] = <<t, serial'[t]>> /\ conn' = conn
        /\ truth'[t] = truth[t] /\ tx'[t] = tx[t] /\ reply'[t] = reply[t]
    BY <1>1, <2>1 DEF Arrive
  <2>3. serial[t] \in Nat
    <3>1. serial[t] \in 0..MaxRequests
      BY DEF TypeOK
    <3>. QED
      BY <3>1, RequestAssumption
  <2>4. reply'[t] = NoReply /\ t \notin conn'
    BY <1>a, <2>2 DEF RequestInStep
  <2>5. reply'[t].status = 0 /\ reply'[t].code = "none"
    BY <2>4 DEF NoReply
  <2>6. TransactionInStep(t)' /\ FaultInStep(t)'
    BY <1>a, <2>2 DEF TransactionInStep, FaultInStep
  <2>7. RequestInStep(t)'
    BY <2>2, <2>3, <2>4 DEF RequestInStep
  <2>8. Honest(t)' /\ TellsOutage(t)'
    BY <2>2, <2>5 DEF Honest, TellsOutage
  <2>9. Traceable(t)'
    BY <2>2, <2>4, <2>5 DEF Traceable, Id
  <2>. QED
    BY <2>4, <2>6, <2>7, <2>8, <2>9 DEF InStep
<1>. QED
  BY <1>2, <1>3, <1>4, <1>5, <1>6, <1>7, <1>8, <1>9, <1>10, <1>11, <1>12, <1>13, <1>14,
     <1>15, <1>16, <1>17, <1>18, <1>19, <1>20, <1>21, <1>22, <1>23, Zenon
     DEF Progress

-----------------------------------------------------------------------------
(* The invariant, and the promises that are part of it                     *)

\* It holds before the first request ...
LEMMA InvariantInit == Init => Inductive
<1> SUFFICES ASSUME Init PROVE Inductive
  OBVIOUS
<1>1. TypeOK
  BY TypeInit
<1>2. CheckedOut <= PoolSize
  BY FS_EmptySet, RequestAssumption DEF Init, CheckedOut
<1>3. ASSUME NEW t \in Tasks PROVE InStep(t)
  <2>1. /\ pc[t] = "idle" /\ kind[t] = "none" /\ context[t] = NoId /\ truth[t] = "none"
        /\ tx[t] = "none" /\ reply[t] = NoReply /\ t \notin conn
    BY DEF Init
  <2>2. TransactionInStep(t) /\ RequestInStep(t) /\ FaultInStep(t)
    BY <2>1 DEF TransactionInStep, RequestInStep, FaultInStep
  <2>3. Honest(t) /\ TellsOutage(t) /\ Traceable(t)
    BY <2>1, NothingSent DEF Honest, TellsOutage, Traceable
  <2>. QED
    BY <2>1, <2>2, <2>3 DEF InStep
<1>. QED
  BY <1>1, <1>2, <1>3, PartsOfTheInvariant

\* A connection is taken only while one is left; a cancelled task's is counted
\* until it is given back.
LEMMA PoolStep ==
  ASSUME TypeOK, CheckedOut <= PoolSize, [Next]_vars
  PROVE  CheckedOut' <= PoolSize
<1>. DEFINE count == Cardinality(conn)
<1>1. count \in Nat /\ closing \in Nat /\ PoolSize \in Nat /\ count + closing <= PoolSize
  <2>1. IsFiniteSet(conn)
    BY RequestAssumption, FS_Subset DEF TypeOK
  <2>2. count \in Nat
    BY <2>1, FS_CardinalityType
  <2>3. closing \in Nat /\ PoolSize \in Nat
    <3>1. closing \in 0..PoolSize
      BY DEF TypeOK
    <3>. QED
      BY <3>1, RequestAssumption
  <2>. QED
    BY <2>2, <2>3 DEF CheckedOut
<1>2. ASSUME NEW t \in Tasks, Acquire(t) \/ PingConnects(t) PROVE CheckedOut' <= PoolSize
  <2>1. conn' = conn \cup {t} /\ closing' = closing /\ count + closing < PoolSize
    BY <1>2 DEF Acquire, PingConnects, CheckedOut
  <2>2. Cardinality(conn') \in {count, count + 1}
    <3>1. CASE t \in conn
      BY <2>1, <3>1
    <3>2. CASE t \notin conn
      BY <2>1, <3>2, PoolCounts
    <3>. QED
      BY <3>1, <3>2
  <2>. HIDE DEF count
  <2>. QED
    BY <1>1, <2>1, <2>2 DEF CheckedOut
<1>3. ASSUME NEW t \in Tasks, conn' = conn \ {t}, closing' = closing
      PROVE  CheckedOut' <= PoolSize
  <2>1. Cardinality(conn') \in {count, count - 1}
    BY <1>3, PoolCounts
  <2>. HIDE DEF count
  <2>. QED
    BY <1>1, <1>3, <2>1 DEF CheckedOut
<1>4. ASSUME NEW t \in Tasks, Cancel(t) PROVE CheckedOut' <= PoolSize
  <2>1. CASE t \in conn
    <3>1. conn' = conn \ {t} /\ closing' = closing + 1
      BY <1>4, <2>1 DEF Cancel
    <3>2. Cardinality(conn') = count - 1
      BY <2>1, <3>1, PoolCounts
    <3>. HIDE DEF count
    <3>. QED
      BY <1>1, <3>1, <3>2 DEF CheckedOut
  <2>2. CASE t \notin conn
    BY <1>3, <1>4, <2>2 DEF Cancel
  <2>. QED
    BY <2>1, <2>2
<1>5. ASSUME conn' = conn, closing' = closing \/ closing' = closing - 1
      PROVE  CheckedOut' <= PoolSize
  <2>1. Cardinality(conn') = count
    BY <1>5
  <2>. HIDE DEF count
  <2>. QED
    BY <1>1, <1>5, <2>1 DEF CheckedOut
<1>6. ASSUME NEW t \in Tasks,
             Commit(t) \/ CommitFails(t) \/ RollBack(t) \/ PostgresAnswers(t) \/ PostgresFails(t)
      PROVE  conn' = conn \ {t} /\ closing' = closing
  BY <1>6 DEF Commit, CommitFails, RollBack, PostgresAnswers, PostgresFails
<1>7. ASSUME NEW t \in Tasks,
             \/ Preflight(t) \/ Liveness(t) \/ Unroutable(t) \/ RouteToDatabase(t)
             \/ AcquireFails(t) \/ EndpointReturns(t) \/ EndpointFails(t) \/ Succeed(t)
             \/ Answer(t) \/ ReadinessBegins(t) \/ RedisAnswers(t) \/ RedisFails(t) \/ Sent(t)
             \/ \E k \in Kinds : Arrive(t, k)
      PROVE  conn' = conn /\ closing' = closing
  BY <1>7 DEF Preflight, Liveness, Unroutable, RouteToDatabase, AcquireFails, EndpointReturns,
              EndpointFails, Succeed, Answer, ReadinessBegins, RedisAnswers, RedisFails, Sent,
              Arrive
<1>8. CASE ConnectionClosed
  BY <1>5, <1>8 DEF ConnectionClosed
<1>9. CASE Shutdown \/ UNCHANGED vars
  BY <1>5, <1>9 DEF Shutdown, vars
<1>10. ASSUME NEW t \in Tasks, Progress(t) \/ Cancel(t) \/ \E k \in Kinds : Arrive(t, k)
       PROVE  CheckedOut' <= PoolSize
  BY <1>2, <1>3, <1>4, <1>5, <1>6, <1>7, <1>10, Zenon DEF Progress
<1>. QED
  BY <1>8, <1>9, <1>10, Zenon DEF Next

\* What no task knows of does not matter to its request: a connection that is
\* given back, the runtime's stage.
LEMMA NobodysStep ==
  ASSUME NEW u \in Tasks, ConnectionClosed \/ Shutdown \/ UNCHANGED vars
  PROVE  Kept(u)
  BY DEF ConnectionClosed, Shutdown, vars, Kept

\* ... and after every step of every task.
LEMMA InvariantStep == Inductive /\ [Next]_vars => Inductive'
<1> SUFFICES ASSUME Inductive, [Next]_vars PROVE Inductive'
  OBVIOUS
<1>1. TypeOK /\ CheckedOut <= PoolSize /\ \A u \in Tasks : InStep(u)
  BY PartsOfTheInvariant
<1>2. TypeOK'
  BY TypeStep
<1>3. CheckedOut' <= PoolSize
  BY <1>1, PoolStep
<1>4. ASSUME NEW u \in Tasks PROVE InStep(u)'
  <2>1. CASE ConnectionClosed \/ Shutdown \/ UNCHANGED vars
    BY <1>1, <2>1, NobodysStep, KeptInStep
  <2>2. ASSUME NEW t \in Tasks, Progress(t) \/ Cancel(t) \/ \E k \in Kinds : Arrive(t, k)
        PROVE  InStep(u)'
    <3>1. CASE t = u
      BY <1>1, <2>2, <3>1, OwnStep
    <3>2. CASE t # u
      BY <1>1, <2>2, <3>2, OthersAreKept, KeptInStep
    <3>. QED
      BY <3>1, <3>2
  <2>. QED
    BY <2>1, <2>2, Zenon DEF Next
<1>5. conn' \subseteq Tasks
  BY <1>2 DEF TypeOK
<1>. QED
  BY <1>2, <1>3, <1>4, <1>5, Zenon DEF Inductive, InStep, ConnectionsAccounted, HonestAnswer,
     OutageMeansOutage, AnswersAreTraceable

\* The inductive invariant of the request path: types, the pool's account, and
\* for every task the agreement of its place, its transaction, its failure, its
\* ids and its answer.
THEOREM RequestInvariant == Spec => []Inductive
  BY InvariantInit, InvariantStep, PTL DEF Spec

\* The pool is never over its limit, and no answer is sent, and no task is left,
\* while its request holds a connection, whoever is cancelled when.
THEOREM ConnectionsAreAccounted == Spec => []ConnectionsAccounted
<1>1. Inductive => ConnectionsAccounted
  BY DEF Inductive
<1>. QED
  BY <1>1, RequestInvariant, PTL

\* A success is sent for a committed transaction only, a definite error only for
\* one that is not, and "ready" only when both probes succeeded in time.
THEOREM AnswersAreHonest == Spec => []HonestAnswer
<1>1. Inductive => HonestAnswer
  BY DEF Inductive
<1>. QED
  BY <1>1, RequestInvariant, PTL

\* DEPENDENCY_UNAVAILABLE is the answer exactly when a dependency was lost,
\* however deep in the chain of causes the loss shows.
THEOREM OutagesAreTold == Spec => []OutageMeansOutage
<1>1. Inductive => OutageMeansOutage
  BY DEF Inductive
<1>. QED
  BY <1>1, RequestInvariant, PTL

\* Every answer carries its own request's id, its envelope the same, and every
\* answered failure of the server is in the log under it.
THEOREM AnswersHaveTheirId == Spec => []AnswersAreTraceable
<1>1. Inductive => AnswersAreTraceable
  BY DEF Inductive
<1>. QED
  BY <1>1, RequestInvariant, PTL
=============================================================================
