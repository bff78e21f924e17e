----------------------------- MODULE LogPipeline -----------------------------
(***************************************************************************)
(* The logging pipeline (logging.py): a call in a thread becomes a log     *)
(* record, the handlers get it one after another, and the handler of this  *)
(* module, the last, writes one line.                                      *)
(*                                                                         *)
(* An event is a sequence of fields <<name, value>>, the names texts.      *)
(* While a record is in progress in its thread another handler may change  *)
(* the event it carries, log by itself or log that very event again; other *)
(* threads log, the process is configured anew in two steps, and the write *)
(* may fail.  structlog's ProcessorFormatter and BoundLogger and Python's  *)
(* logging are modelled from how they are used here.                       *)
(*                                                                         *)
(* A situation has, for each thread, its calls, what it logs while a       *)
(* record is in progress (nested), its context variables and the requests  *)
(* it may serve; the fields other handlers add (tamper), the frames of a   *)
(* caller, innermost first, the exception being handled, the heap and the  *)
(* configurations of the process in their order.                           *)
(*                                                                         *)
(* The pipeline is given the functions of redaction.py that it calls, and  *)
(* json.dumps and str: Redaction, Tracebacks and JsonText have them.       *)
(***************************************************************************)
EXTENDS LogValues, SequencesExt

CONSTANTS Situations,             \* a sequence
          MAX_CONTEXT_VARIABLES, MAX_SKIPPED_FRAMES, MAX_FORMAT_DIRECTIVES,
          MAX_RENDERED_EVENT_LENGTH,
          MaxNesting,             \* bound: records in progress in one thread
          SanitizeEvent, Sanitize, IsIdentifier, TracebackText, StackText,
          json_dumps, str         \* functions of any values

VARIABLES situation,    \* which of the situations this is
          made,         \* how many calls each thread has made
          request,      \* what the server is serving in a thread: at most one request id
          first,        \* the configuration of the first pipeline
          final,        \* that of the handler
          produced,     \* _PIPELINE_STATE: the event produced last in a thread
          stack,        \* the records in progress in a thread, innermost last
          objects,      \* how many events the first pipeline has produced
          last          \* the line written last, and its record
vars == <<situation, made, request, first, final, produced, stack, objects, last>>

The == Situations[situation]
Threads == DOMAIN The.calls
Heap == The.heap

IdentityNames == <<"timestamp", "level", "logger", "service", "environment", "request_id">>
IDENTITY_FALLBACKS ==
  [timestamp |-> "unknown", level |-> "unknown", logger |-> "untrusted_logger",
   service |-> "untrusted_service", environment |-> "untrusted_environment",
   request_id |-> "untrusted_request_id"]
PipelineWords ==
  ToSet(IdentityNames) \cup {IDENTITY_FALLBACKS[n] : n \in ToSet(IdentityNames)}
    \cup {"event", "exception", "stack", "exc_info", "stack_info", "_record", "_from_structlog",
          "RESERVED", "error_type", "then", "now", "log_event_redaction_failed",
          "log_record_unsafe_format", "log_record_unrenderable", "log_record_oversized"}
ASSUME WordsAssumption == PipelineWords \subseteq Names

\* A sequence: of fields, of texts, of variables.
IsSequence(s) == s \in Seq(ToSet(s))
\* Every event and context is a sequence, structlog has one context variable
\* for a name, and the process is configured.
ASSUME SituationsAssumption ==
  /\ IsSequence(Situations)
  /\ \A n \in 1..Len(Situations) :
       LET s == Situations[n]
       IN  /\ IsSequence(s.configs) /\ s.configs # <<>>
           /\ \A t \in DOMAIN s.calls :
                /\ IsSequence(s.calls[t])
                /\ \A call \in ToSet(s.calls[t]) \cup s.nested[t] :
                     /\ IsSequence(call.fields) /\ IsSequence(call.binds)
                     /\ \A i \in 1..Len(call.binds) : IsSequence(call.binds[i])
                /\ IsSequence(s.context[t])
                /\ \A i, j \in 1..Len(s.context[t]) :
                     LET v == s.context[t][i]
                         w == s.context[t][j]
                     IN  v.ours /\ w.ours /\ v.name = w.name => i = j
ASSUME BoundsAssumption == MAX_ITEMS \in Nat

Named(name) == Text(<<name>>)
Identifiers == {Named(n) : n \in ToSet(IdentityNames)}
PROCESSOR_META_KEYS == {Named("_record"), Named("_from_structlog")}
LEADING_FIELDS == <<Named("event"), Named("exception"), Named("stack")>>
ASSEMBLED_FIELDS == {Named("exception"), Named("stack")}
NOT_PAYLOAD == Identifiers \cup PROCESSOR_META_KEYS
UNCOUNTED == NOT_PAYLOAD \cup ToSet(LEADING_FIELDS) \cup {Named("exc_info"), Named("stack_info")}
RESERVED == Text(<<"[", "RESERVED", "]">>)

\* ----------------------------------------------------------------- fields

\* The elements of a sequence at some of its places.
Picked(s, places) == FlattenSeq([i \in 1..Len(s) |-> IF i \in places THEN <<s[i]>> ELSE <<>>])
FieldNames(event) == {event[i][1] : i \in 1..Len(event)}
Field(event, name) == event[CHOOSE i \in 1..Len(event) : event[i][1] = name][2]
Only(event, names) == Picked(event, {i \in 1..Len(event) : event[i][1] \in names})
Without(event, names) == Picked(event, {i \in 1..Len(event) : event[i][1] \notin names})
SetDefault(event, name, value) ==
  IF HasKey(event, name) THEN event ELSE Append(event, <<name, value>>)
\* more, a dict, over event; and under it.
Update(event, more) ==
  [i \in 1..Len(event) |-> IF HasKey(more, event[i][1])
                           THEN <<event[i][1], Field(more, event[i][1])>> ELSE event[i]]
    \o Without(more, FieldNames(event))
Completed(event, more) == event \o Without(more, FieldNames(event))

\* --------------------------------------------------------------- identity

trusted_identifier(v, fallback) == IF IsIdentifier[v] THEN v ELSE Named(fallback)
Identifier(name, value) == <<Named(name), trusted_identifier(value, IDENTITY_FALLBACKS[name])>>
\* What identity has, in the order of the names.
Ordered(identity) ==
  LET names == Picked(IdentityNames, {i \in 1..Len(IdentityNames) :
                                        HasKey(identity, Named(IdentityNames[i]))})
  IN  [i \in 1..Len(names) |-> <<Named(names[i]), Field(identity, Named(names[i]))>>]
_identity(event) ==
  LET present == Ordered(Only(event, Identifiers))
  IN  [i \in 1..Len(present) |-> Identifier(Head(present[i][1].s), present[i][2])]

_failure_event(identity, event) ==
  <<<<Named("event"), Named(event)>>, <<Named("error_type"), Text(TypeName)>>>> \o identity
_sanitized_fields(event) ==
  SanitizeEvent[event, NOT_PAYLOAD, LEADING_FIELDS, ASSEMBLED_FIELDS, Heap]

\* What the pipeline relies on: sanitised fields have none of the names it skips.
SkipsMetadata(event, heap) ==
  LET clean == SanitizeEvent[event, NOT_PAYLOAD, LEADING_FIELDS, ASSEMBLED_FIELDS, heap].v
  IN  clean = Raise \/ (IsSequence(clean.items) /\ FieldNames(clean.items) \cap NOT_PAYLOAD = {})

PassesThrough(event) == Without(event, PROCESSOR_META_KEYS)

redact_sensitive_fields(event) ==
  LET identity == _identity(event)
      clean == _sanitized_fields(event).v
  IN  IF clean = Raise THEN _failure_event(identity, "log_event_redaction_failed")
      ELSE Completed(identity, clean.items)

\* Level, logger and time of a record; the service and environment configured.
_establish_identity(logger, level, time, config) ==
  <<Identifier("timestamp", Named(time)), Identifier("level", level), Identifier("logger", logger),
    Identifier("service", config.service), Identifier("environment", config.environment)>>

BelievesTheEvent(identity, event, t) ==
  Update(identity, Only(event, {Named("request_id")}))

_establish_request_id(identity, event, t) ==
  LET bound == {Field(event, n) : n \in FieldNames(event) \cap {Named("request_id")}}
      known == IF request[t] # {} THEN request[t] ELSE bound
  IN  IF known = {} THEN identity
      ELSE Update(identity, <<Identifier("request_id", CHOOSE id \in known : TRUE)>>)

\* ----------------------------------------------------------- first pipeline

\* The context variables of a thread: [ours, bound, name, value].
Bound(t) ==
  LET variables == The.context[t]
  IN  Picked(variables, {i \in 1..Len(variables) : variables[i].ours /\ variables[i].bound})
_context_request_id(t) ==
  Picked(Bound(t), {i \in 1..Len(Bound(t)) : Bound(t)[i].name = Named("request_id")})

\* The i-th variable into an event with room for more fields, unless it is full.
Merge(merging, v, i) ==
  LET event == merging.event
      taken == HasKey(event, v.name) \/ v.name \in Identifiers
      counted == IF v.name \in UNCOUNTED THEN 0 ELSE 1
      cut == [merging EXCEPT !.event = SetDefault(event, Text(TRUNCATED), Text(Note)),
                             !.full = TRUE]
  IN  IF merging.full THEN merging
      ELSE IF i > MAX_CONTEXT_VARIABLES THEN cut
      ELSE IF ~v.ours \/ taken \/ ~v.bound THEN merging
      ELSE IF merging.room <= 0 /\ counted = 1 THEN cut
      ELSE [merging EXCEPT !.event = Append(@, <<v.name, v.value>>), !.room = @ - counted]

merge_bounded_contextvars(event, t) ==
  LET id == _context_request_id(t)
      named == IF id = <<>> THEN event ELSE Put(event, Named("request_id"), id[1].value)
      variables == The.context[t]
      merged[i \in 0..Len(variables)] ==
        IF i = 0 THEN [event |-> named, full |-> FALSE,
                       room |-> MAX_EVENT_FIELDS - Len(Without(named, UNCOUNTED))]
        ELSE Merge(merged[i - 1], variables[i], i)
  IN  merged[Len(variables)].event

\* The frames from the caller out: those of the logging machinery come first.
_calling_frame(frames) ==
  LET callers == {i \in 1..Len(frames) : ~frames[i].logging} \cup {MAX_SKIPPED_FRAMES + 1}
  IN  SubSeq(frames, Min(callers), Len(frames))
render_stack_info(event) ==
  IF ~HasKey(event, Named("stack_info")) THEN event
  ELSE Put(Without(event, {Named("stack_info")}), Named("stack"),
           Text(StackText[_calling_frame(The.frames), Heap]))

\* exc_info is an exception, or asks for the one that is being handled.
render_exc_info(event) ==
  LET info == Field(event, Named("exc_info"))
      exc == IF info.t = "error" THEN {info.e} ELSE The.handling
      rest == Without(event, {Named("exc_info")})
  IN  IF ~HasKey(event, Named("exc_info")) THEN event
      ELSE IF exc = {} THEN rest
      ELSE Put(rest, Named("exception"), Text(TracebackText[CHOOSE e \in exc : TRUE, Heap]))

_assemble(event, identity) ==
  LET fields == _sanitized_fields(event).v
  IN  IF fields = Raise THEN _failure_event(identity, "log_event_redaction_failed")
      ELSE Completed(Ordered(identity), fields.items)

_process(event, identity, t) ==
  LET merged == merge_bounded_contextvars(event, t)
      fields == Without(merged, PROCESSOR_META_KEYS)
      known == _establish_request_id(identity, fields, t)
      result == _assemble(render_exc_info(render_stack_info(fields)), known)
  IN  IF fields = merged THEN result ELSE Put(result, RESERVED, Text(Note))

AdmittedSilently(values, room) ==
  SubSeq(values, 1, IF room < 0 THEN 0 ELSE Least(room, Len(values)))

\* The values that fit, the names that are no fields apart from the limit.
_admitted(values, room) ==
  LET apart == Only(values, UNCOUNTED)
      fields == Without(values, UNCOUNTED)
      kept == SubSeq(fields, 1, IF room < 0 THEN 0 ELSE Least(room, Len(fields)))
      short == Len(kept) < Len(fields)
  IN  IF Len(values) <= room THEN values
      ELSE (IF short THEN Put(kept, Text(TRUNCATED), Text(Note)) ELSE kept) \o apart

\* The event a bound logger hands to the first pipeline: its context after
\* each bind, the fields of the call, the name of the event.
bind(context, values) == Update(context, _admitted(values, MAX_EVENT_FIELDS - Len(context)))
_process_event(call) ==
  LET bound[i \in 0..Len(call.binds)] ==
        IF i = 0 THEN <<>> ELSE bind(bound[i - 1], call.binds[i])
  IN  Put(Update(bound[Len(call.binds)], _admitted(call.fields, MAX_EVENT_FIELDS)),
          Named("event"), call.event)

FirstPass(call, t) ==
  _process(_process_event(call),
           _establish_identity(call.logger, call.level, "then", The.configs[first]), t)

\* ------------------------------------------------------------ log records

Directives(template) == Cardinality({i \in 1..Len(template) : template[i] = "%s"})
\* A template with a width from its arguments allocates what they ask for.
_is_bounded_template(template) ==
  /\ Len(template) <= MAX_STRING_LENGTH
  /\ "%*" \notin Symbols(template)
  /\ Directives(template) <= MAX_FORMAT_DIRECTIVES

\* template % args, for as many args as directives.
Interpolated(template, args) ==
  LET Nth(i) == Cardinality({j \in 1..i : template[j] = "%s"})
  IN  FlattenSeq([i \in 1..Len(template) |->
        IF template[i] = "%s" THEN str[args[Nth(i)]] ELSE <<template[i]>>])

NoObject == 0

\* What the formatter gets: the event itself, or a message; or why neither.
Safe(kind, event) == [kind |-> kind, event |-> event]
EventOf(s) == <<<<Named("event"), Text(s)>>>>
IsProducedByAny(r, t) == r.object # NoObject /\ r.object = Max({produced[u] : u \in Threads})
IsProduced(r, t) == r.object # NoObject /\ r.object = produced[t]

_with_sanitized_arguments(r, t) ==
  LET template == SubSeq(r.msg.s, 1, Least(MAX_STRING_LENGTH + 1, Len(r.msg.s)))
      args == Sanitize[ListOf(r.args), Heap]
      clean == Sanitize[r.msg, Heap]
  IN  IF IsProduced(r, t) THEN Safe("event", r.msg.items)
      ELSE IF r.msg.t # "text"
      THEN Safe("message", EventOf(IF clean.t = "text" THEN clean.s ELSE json_dumps[clean]))
      ELSE IF r.args = <<>> THEN Safe("message", EventOf(r.msg.s))
      ELSE IF ~_is_bounded_template(template) THEN Safe("log_record_unsafe_format", <<>>)
      ELSE IF args.t # "list" THEN Safe("log_record_unrenderable", <<>>)
      ELSE IF Directives(template) # Len(args.items) THEN Safe("log_record_unrenderable", <<>>)
      ELSE Safe("message", EventOf(Interpolated(template, args.items)))

EventFirst(r, safe, t, handler) ==
  LET own == _establish_identity(r.logger, r.level, "now", The.configs[handler])
      event == IF safe.kind = "event" THEN Without(safe.event, PROCESSOR_META_KEYS)
               ELSE _process(safe.event \o r.info, own, t)
  IN  Completed(event, Ordered(_establish_request_id(own, event, t)))

\* The final pipeline of a handler: the metadata of the line, whatever the event has.
_finish(r, safe, t, handler) ==
  LET own == _establish_identity(r.logger, r.level, "now", The.configs[handler])
      identity == _establish_request_id(own, <<>>, t)
      event == IF safe.kind = "event" THEN Without(safe.event, PROCESSOR_META_KEYS)
               ELSE _process(safe.event \o r.info, identity, t)
  IN  Completed(Ordered(_establish_request_id(identity, event, t)), event)

_emergency_line(r, event) ==
  <<<<Named("event"), Named(event)>>, Identifier("level", r.level), Identifier("logger", r.logger),
    Identifier("timestamp", Named("now")), <<Named("error_type"), Text(TypeName)>>>>

Line(kind, items) == [kind |-> kind, items |-> items]
format(r, t, handler) ==
  LET safe == _with_sanitized_arguments(r, t)
      line == redact_sensitive_fields(_finish(r, safe, t, handler))
  IN  IF safe.kind \notin {"event", "message"} THEN Line("emergency", _emergency_line(r, safe.kind))
      ELSE IF Len(json_dumps[MapOf(line)]) > MAX_RENDERED_EVENT_LENGTH
      THEN Line("emergency", _emergency_line(r, "log_record_oversized"))
      ELSE Line("line", line)
handleError(r) == Line("stderr", <<Identifier("logger", r.logger), Identifier("level", r.level)>>)

\* ---------------------------------------------------------------- actions

NoLine == [kind |-> "none", items |-> <<>>]
Init ==
  /\ situation \in 1..Len(Situations)
  /\ made = [t \in Threads |-> 0]
  /\ request = [t \in Threads |-> {}]
  /\ first = 1 /\ final = 1
  /\ produced = [t \in Threads |-> NoObject]
  /\ stack = [t \in Threads |-> <<>>]
  /\ objects = 0
  /\ last = NoLine

\* A record on its way to the handlers, the configuration of the handler there is;
\* undisturbed as long as no other handler has touched its event or logged.
Record(call, msg, object, info) ==
  [call |-> call, msg |-> msg, object |-> object, info |-> info, args |-> call.args,
   level |-> call.level, logger |-> call.logger, handler |-> final, undisturbed |-> TRUE]
Disturbed(records) ==
  IF records = <<>> THEN records ELSE [records EXCEPT ![Len(records)].undisturbed = FALSE]

\* A logger of structlog: the first pipeline, then a record that carries its event.
Structlog(t, call) ==
  LET event == FirstPass(call, t)
  IN  /\ objects' = objects + 1
      /\ produced' = [produced EXCEPT ![t] = objects + 1]
      /\ stack' = [stack EXCEPT ![t] =
                     Append(Disturbed(@), Record(call, MapOf(event), objects + 1, <<>>))]

\* A logger of the standard library: the record is as its caller made it.
Stdlib(t, call) ==
  /\ stack' = [stack EXCEPT ![t] = Append(Disturbed(@), Record(call, call.event, NoObject, call.fields))]
  /\ UNCHANGED <<produced, objects>>

Calls(t, call) ==
  /\ IF call.structlog THEN Structlog(t, call) ELSE Stdlib(t, call)
  /\ last' = NoLine
  /\ UNCHANGED <<situation, request, first, final>>

Call(t) ==
  /\ stack[t] = <<>> /\ made[t] < Len(The.calls[t])
  /\ made' = [made EXCEPT ![t] = @ + 1]
  /\ Calls(t, The.calls[t][made[t] + 1])

\* Another handler logs while a record is in progress.
NestedCall(t) ==
  /\ stack[t] # <<>> /\ Len(stack[t]) < MaxNesting /\ Last(stack[t]).undisturbed
  /\ \E call \in The.nested[t] : Calls(t, call)
  /\ UNCHANGED made

\* Another handler logs the event it was handed, by a logger of the standard library.
Forward(t) ==
  LET r == Last(stack[t])
  IN  /\ stack[t] # <<>> /\ Len(stack[t]) < MaxNesting /\ r.undisturbed /\ r.object # NoObject
      /\ \E call \in The.forwards :
           stack' = [stack EXCEPT ![t] =
                       Append(@, [Record(call, r.msg, r.object, <<>>) EXCEPT
                                    !.undisturbed = FALSE])]
      /\ last' = NoLine
      /\ UNCHANGED <<situation, made, request, first, final, produced, objects>>

\* Another handler adds a field to the event of the record, in place.
Tamper(t) ==
  LET r == Last(stack[t])
  IN  /\ stack[t] # <<>> /\ r.object # NoObject /\ r.undisturbed
      /\ \E field \in The.tamper :
           stack' = [stack EXCEPT ![t][Len(stack[t])] =
                       [r EXCEPT !.undisturbed = FALSE,
                                 !.msg.items = Put(@, field[1], field[2])]]
      /\ UNCHANGED <<situation, made, request, first, final, produced, objects, last>>

Emitted(t, line) ==
  /\ last' = [kind |-> line.kind, items |-> line.items, record |-> Last(stack[t]), thread |-> t]
  /\ stack' = [stack EXCEPT ![t] = Front(@)]
  /\ UNCHANGED <<situation, made, request, first, final, produced, objects>>
\* The handler is the one there was when the list of handlers was taken, which is
\* at some time after the record was made: a configuration replaces the list.
Write(t) ==
  /\ stack[t] # <<>>
  /\ LET r == Last(stack[t])
     IN  \E handler \in r.handler..final : Emitted(t, format(r, t, handler))
WriteFails(t) == stack[t] # <<>> /\ Emitted(t, handleError(Last(stack[t])))

\* The server begins or ends a request in a thread.
Serve(t) ==
  /\ stack[t] = <<>>
  /\ \E id \in The.requests[t] : request' = [request EXCEPT ![t] = IF @ = {} THEN {id} ELSE {}]
  /\ last' = NoLine
  /\ UNCHANGED <<situation, made, first, final, produced, stack, objects>>

\* configure_logging again: structlog first, then the handler of the root logger.
ConfigureStructlog ==
  /\ first < Len(The.configs) /\ first = final
  /\ first' = first + 1
  /\ last' = NoLine
  /\ UNCHANGED <<situation, made, request, final, produced, stack, objects>>
ConfigureHandler ==
  /\ final < first
  /\ final' = first
  /\ last' = NoLine
  /\ UNCHANGED <<situation, made, request, first, produced, stack, objects>>

Next ==
  \/ \E t \in Threads : Call(t) \/ NestedCall(t) \/ Forward(t) \/ Tamper(t) \/ Write(t)
                          \/ WriteFails(t) \/ Serve(t)
  \/ ConfigureStructlog
  \/ ConfigureHandler
Spec == Init /\ [][Next]_vars

\* -------------------------------------------------------------- properties

Rendered(items) == Symbols(json_dumps[MapOf(items)])

\* No secret leaves the process: the callers write every "s" of an event as a
\* value of sensitive data in one of the grammars redaction.py reads, and
\* neither a line (whatever other handlers added, logged or logged again) nor
\* an event that another handler is given, as the first pipeline produced it,
\* shows one.
NothingSecretIsWritten ==
  /\ "s" \notin Rendered(last.items)
  /\ \A t \in Threads : \A i \in 1..Len(stack[t]) :
       LET r == stack[t][i]
       IN  r.call.structlog /\ r.undisturbed => "s" \notin Rendered(r.msg.items)

\* What a caller gave to a structlog logger: bound, in the call, in the context.
Given(call, t) ==
  LET context == Bound(t)
  IN  [i \in 1..Len(context) |-> <<context[i].name, context[i].value>>]
        \o FlattenSeq(call.binds) \o call.fields
Says(event, name, v) == HasKey(event, name) /\ Field(event, name) = v

\* Nothing is dropped in silence: the line of an event that no other handler
\* disturbed, whatever other threads log meanwhile, has the event as it reads
\* alone; each field, or the mark that fields are missing; the mark that a
\* reserved name was used, if no field is missing; and the traceback or stack
\* as it was constructed, which neither the later passes nor the other fields
\* displace or change.  (An event that is itself a large structure may use up the
\* output of its traceback, and so may a long text outside ASCII, where JSON needs
\* six characters for one: the former is left out here, no situation has the latter.)
LineTellsTheCall ==
  last.kind \in {"line", "emergency"} /\ last.record.call.structlog /\ last.record.undisturbed =>
    LET call == last.record.call
        given == Given(call, last.thread)
        names == FieldNames(given)
        missing == HasKey(last.items, Text(TRUNCATED))
        traceback == render_exc_info(Only(given, {Named("exc_info")}))
        trace == render_stack_info(Only(given, {Named("stack_info")}))
    IN  /\ Says(last.items, Named("event"), Sanitize[call.event, Heap])
        /\ missing \/ names \ UNCOUNTED \subseteq FieldNames(last.items)
        /\ missing \/ names \cap PROCESSOR_META_KEYS = {} \/ HasKey(last.items, RESERVED)
        /\ call.event.t = "text" =>
             /\ \A i \in 1..Len(traceback) : Says(last.items, traceback[i][1], traceback[i][2])
             /\ \A i \in 1..Len(trace) : Says(last.items, trace[i][1], trace[i][2])

\* The metadata of a line is established by the server: level, logger and time
\* are those of the record, service and environment those of one configuration
\* that a handler had while the record was in progress, and the request id is
\* that of the request being served, else the one bound to the context, else one of the call; whatever the
\* fields, the context, other handlers or an earlier event say.  (Outside a
\* request the id of an event that the first pipeline produced is kept: another
\* handler that writes one into that event, in place, decides it.)
Established(items, r, t) ==
  LET context == _context_request_id(t)
      bound == {context[i].value : i \in 1..Len(context)}
      Own(handler) == _establish_identity(r.logger, r.level, "now", The.configs[handler])
      id == Named("request_id")
      kept == IsProduced(r, t) /\ ~r.undisturbed
      Bears(ids) == \A x \in ids : Says(items, id, Identifier("request_id", x)[2])
  IN  /\ \E handler \in r.handler..final : \A i \in 1..Len(Own(handler)) :
           Says(items, Own(handler)[i][1], Own(handler)[i][2])
      /\ Bears(request[t])
      /\ request[t] = {} /\ ~kept =>
           /\ Bears(bound)
           /\ bound = {} /\ HasKey(items, id) => HasKey(Given(r.call, t), id)
MetadataIsEstablished ==
  last.kind = "line" => Established(last.items, last.record, last.thread)
=============================================================================
