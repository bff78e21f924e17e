---------------------------- MODULE ErrorCatalog ----------------------------
(***************************************************************************)
(* Exceptions to error envelopes (api/error_catalog.py, the handlers of    *)
(* api/middleware/error_handler.py).  An exception that reaches the        *)
(* handlers is [type, status]: its class, and the HTTP status that an      *)
(* HTTPException carries, 0 otherwise.                                     *)
(***************************************************************************)
EXTENDS Naturals, Sequences

\* ERROR_CATALOG: the statuses of a code, the default first
Catalog ==
  [ VALIDATION_ERROR       |-> [statuses |-> <<422, 400>>, retryable |-> FALSE],
    RESOURCE_NOT_FOUND     |-> [statuses |-> <<404>>,      retryable |-> FALSE],
    METHOD_NOT_ALLOWED     |-> [statuses |-> <<405>>,      retryable |-> FALSE],
    INTERNAL_ERROR         |-> [statuses |-> <<500>>,      retryable |-> FALSE],
    DEPENDENCY_UNAVAILABLE |-> [statuses |-> <<503>>,      retryable |-> TRUE] ]

\* contract_for: status 0 asks for the default; an uncataloged pair is refused.
Cataloged(code, status) ==
  status = 0 \/ \E i \in DOMAIN Catalog[code].statuses : Catalog[code].statuses[i] = status

StatusOf(code, status) == IF status = 0 THEN Head(Catalog[code].statuses) ELSE status

\* _HTTP_STATUS_CODES
HttpStatusCodes == {400, 404, 405, 422}
CodeOfStatus(status) ==
  CASE status = 404 -> "RESOURCE_NOT_FOUND"
    [] status = 405 -> "METHOD_NOT_ALLOWED"
    [] OTHER        -> "VALIDATION_ERROR"

\* error_response, built in a context with request id "id"
error_response(code, status, id) ==
  [status |-> StatusOf(code, status), code |-> code, envelope |-> id,
   retryable |-> Catalog[code].retryable]

\* The three handlers: the code and status they answer with, and the event
\* they log ("none" for none).  Nobody claims what is left.
Unclaimed == [code |-> "none", status |-> 0, event |-> "none"]

_handle_platform_error(exc) ==
  IF exc.type \in {"DatabaseError", "CacheError"}
  THEN [code |-> "DEPENDENCY_UNAVAILABLE", status |-> 0, event |-> "dependency_unavailable"]
  ELSE [code |-> "INTERNAL_ERROR", status |-> 0, event |-> "unmapped_platform_error"]

_handle_http_exception(exc) ==
  IF exc.status \in HttpStatusCodes
  THEN [code |-> CodeOfStatus(exc.status), status |-> exc.status, event |-> "none"]
  ELSE [code |-> "INTERNAL_ERROR", status |-> 0, event |-> "uncataloged_http_status"]

\* 400 for a body that cannot be parsed, 422 for one that is not valid
_handle_request_validation_error(exc) ==
  [code |-> "VALIDATION_ERROR", status |-> exc.status, event |-> "none"]

\* register_error_handlers
Handler(exc) ==
  CASE exc.type \in {"DatabaseError", "CacheError", "PlatformError"} -> _handle_platform_error(exc)
    [] exc.type = "HTTPException"          -> _handle_http_exception(exc)
    [] exc.type = "RequestValidationError" -> _handle_request_validation_error(exc)
    [] OTHER                               -> Unclaimed

\* An uncataloged pair raises in the handler: then nobody has claimed it.
Claimed(exc) == Handler(exc) # Unclaimed /\ Cataloged(Handler(exc).code, Handler(exc).status)
=============================================================================
