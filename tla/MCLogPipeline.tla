---------------------------- MODULE MCLogPipeline ----------------------------
(***************************************************************************)
(* The situations the logging pipeline is checked in.  In a text s is a    *)
(* piece of a secret; the writers below put it where a grammar has the     *)
(* value of the key k, of the header h, of a bearer token or of a URL.     *)
(***************************************************************************)
EXTENDS LogPipeline, Tracebacks

\* The redaction, as functions of any values.
MCSanitizeEvent ==
  LET clean[event, skip, leading, assembled, heap \in Any] ==
        sanitize_event(event, skip, leading, assembled, heap)
  IN  clean
MCSanitize == LET clean[v, heap \in Any] == sanitize(v, heap) IN clean
MCIsIdentifier == LET accepted[v \in Any] == is_identifier(v) IN accepted
MCTracebackText == LET text[name, heap \in Any] == traceback_text(name, heap) IN text
MCStackText == LET text[frames, heap \in Any] == stack_text(frames, heap) IN text
MCjson_dumps == LET text[v \in Any] == Dump(v) IN text
MCstr == LET text[v \in Any] == Str(v) IN text

MCNames == PipelineWords \cup {"info", "error", "app", "lib", "api", "worker", "prod", "stage",
                               "r1", "r2", "a", "c", "d", "e"}

Cross(A, B, Op(_, _)) ==
  [n \in 1..(Len(A) * Len(B)) |-> Op(A[((n - 1) \div Len(B)) + 1], B[((n - 1) % Len(B)) + 1])]
Each(A, Op(_)) == [i \in 1..Len(A) |-> Op(A[i])]

-----------------------------------------------------------------------------
\* Texts that hold a secret.

Specials == <<"\"", "'", "\\", " ", "=", "]", ",", "\n">>
Optional == <<<<>>>> \o Each(Specials, LAMBDA x : <<x>>)
Contents ==
  Cross(Optional, Optional, LAMBDA x, y : x \o <<"s">> \o y)
    \o Cross(Optional, Optional, LAMBDA x, y : <<"s">> \o x \o y \o <<"s">>)
SomeContents == <<<<"s">>, <<"s", "\"", "s">>, <<"s", "\\">>, <<"'", "s">>, <<" ", "s">>>>

Backslashed(q, c) ==
  FlattenSeq([i \in 1..Len(c) |-> IF c[i] \in {q, "\\"} THEN <<"\\", c[i]>> ELSE <<c[i]>>])
Quoted(q, c) == <<q>> \o Backslashed(q, c) \o <<q>>
Json(c) == <<"{", "\"", "k", "\"", ":">> \o DumpText(c) \o <<"}">>
JsonInJson(c) == <<"{", "\"", "w", "\"", ":", " ">> \o DumpText(Json(c)) \o <<"}">>
InString(c) == <<"w", " ">> \o DumpText(Json(c))
Libpq(c) == <<"k", "=">> \o Quoted("'", c)
Pair(c) == <<"k", ":", " ">> \o Quoted("\"", c)
OfDict(c) == <<"{", "'", "k", "'", ":", " ">> \o ReprText(c) \o <<"}">>
OfTuple(c) == <<"(", "'", "k", "'", ",", " ">> \o ReprText(c) \o <<")">>

Writers == <<"json", "nested", "escaped", "libpq", "pair", "dict", "tuple">>
Written(writer, c) ==
  CASE writer = "json" -> Json(c)
    [] writer = "nested" -> JsonInJson(c)
    [] writer = "escaped" -> InString(c)
    [] writer = "libpq" -> Libpq(c)
    [] writer = "pair" -> Pair(c)
    [] writer = "dict" -> OfDict(c)
    [] writer = "tuple" -> OfTuple(c)

Grammars ==
  <<<<"k", "=", "s">>, <<"w", "=", "w", "&", "k", "=", "s", "&", "w", "=", "w">>,
    <<"-", "-", "k", " ", "s">>, <<"-", "-", "k", "=", "s">>, <<"k", " ", "=", " ", "s">>,
    <<"h", ":", " ", "s", " ", "s">>, <<"h", ":", " ", "B", " ", "s", ",", " ", "w", "=", "s">>,
    <<"B", " ", "s">>, <<"w", " ", "B", " ", "s", " ", "w">>,
    <<"w", ":", "/", "/", "w", ":", "s", "@", "w">>,
    <<"w", ":", "/", "/", "w", ":", "s", "/", "s", "@", "w", "/", "w">>,
    <<"w", ":", "/", "/", "w", "?", "k", "=", "s", "&", "w", "=", "w">>,
    <<"w", ":", "/", "/", "w", "?", "w", "=", "w", "#", "k", "=", "s">>,
    <<"w", " ", "w", ":", "s", "@", "w">>,
    <<"<", "k", ">", "s", " ", "s", "<", "/", "k", ">">>,
    <<"%k", "=", "s">>, <<"%%k", "=", "s">>, <<"w", "?", "%k", "=", "s">>,
    <<"k1", "zw", "k2", "=", "s">>, <<"k", "=", "s", "em", "s">>, <<"k", "=", "s", "\n", " ", "s">>,
    <<"w", "[", "k", "]", "=", "s">>, <<"k", "[", "9", "]", "=", "s">>,
    <<"k", "=", "{", "s", ",", "s", "}">>, <<"k", "=", "[", "\"", "s", "\"", "]">>,
    <<"k", "=", "k", "=", "s">>, <<"k", ":", "\"", "s", "\"", " ", "k", ":", "\"", "s", "\"">>,
    <<"w", "=", "\"", "k", "=", "s", "\"">>,
    <<"\\", "\"", "k", "\\", "\"", ":", "\\", "\"", "s", "\\", "\"">>,
    <<"F1", "k", "=", "s">>, <<"k", "=", "F1", "s">>>>
Around(t, how) ==
  CASE how = 1 -> t [] how = 2 -> <<"w", " ">> \o t [] how = 3 -> t \o <<"\n", "w">>

ManyTexts == Cross(Contents, Writers, LAMBDA c, writer : Written(writer, c))
Texts ==
  Cross(SomeContents, Writers, LAMBDA c, x :
          <<"w", ":", " ">> \o Written(x, c) \o <<",", " ", "w">>)
    \o Cross(Grammars, <<1, 2, 3>>, Around)

-----------------------------------------------------------------------------
\* One call that carries a text, at each of the places a text can be.

W == Text(<<"w">>)
S == Text(<<"s">>)
On(name, v) == <<Named(name), v>>
OfStructlog(event, fields) ==
  [structlog |-> TRUE, logger |-> Named("app"), level |-> Named("info"), event |-> event,
   binds |-> <<>>, fields |-> fields, args |-> <<>>]
OfStdlib(msg, args, info) ==
  [OfStructlog(msg, info) EXCEPT !.structlog = FALSE, !.logger = Named("lib"),
                                 !.level = Named("error"), !.args = args]
Because(e) == On("exc_info", [t |-> "error", e |-> e])
BecauseOf == Because("E")
AskedFor(name) == On(name, Plain(4))
Variable(name, v) == [ours |-> TRUE, bound |-> TRUE, name |-> Named(name), value |-> v]

Failure(message) ==
  [message |-> message, printable |-> TRUE, errors |-> <<>>, members |-> <<>>,
   frames |-> <<[file |-> W, name |-> <<"w">>]>>, cause |-> {}, context |-> {}, suppress |-> FALSE]
HeapOf(errors) == [objects |-> <<>>, errors |-> errors]
Alone(calls) ==
  [calls |-> [a |-> calls], nested |-> [a |-> {}], context |-> [a |-> <<>>],
   requests |-> [a |-> {}], forwards |-> {}, tamper |-> {}, frames |-> <<>>, handling |-> {},
   heap |-> HeapOf(<<>>), configs |-> <<[service |-> Named("api"), environment |-> Named("prod")]>>]

TwoLines(t) == LET cut == Seek(t, 1, After(t), {"\n"})
             IN  IF cut > Len(t) THEN <<Text(t)>>
                 ELSE <<Text(Slice(t, 1, cut)), Text(Slice(t, cut + 1, After(t)))>>
Placed(t, place) ==
  LET one(call) == Alone(<<call>>)
  IN  CASE place = 0 -> one(OfStructlog(Text(t), <<>>))
        [] place = 1 -> one(OfStructlog(W, <<On("a", Text(t))>>))
        [] place = 2 -> [one(OfStructlog(W, <<Because("E")>>)) EXCEPT
                           !.heap = HeapOf([E |-> Failure(t)])]
        [] place = 3 -> one(OfStdlib(Text(<<"w", " ", "%s", " ", "w">>), <<Text(t)>>, <<>>))
        [] place = 4 -> one(OfStdlib(MapOf(<<On("a", ListOf(<<Text(t)>>))>>), <<>>, <<>>))
        [] place = 5 -> [one(OfStructlog(W, <<>>)) EXCEPT !.context.a = <<Variable("c", Text(t))>>]
        [] place = 6 -> one(OfStructlog(W, <<On("exception", ListOf(TwoLines(t)))>>))
\* Each text at every place, and each of the many at one of them.
TextSituations ==
  Cross(Texts, <<0, 1, 2, 3, 4, 5, 6>>, Placed)
    \o [i \in 1..Len(ManyTexts) |-> Placed(ManyTexts[i], (i \div Len(Writers)) % 7)]

-----------------------------------------------------------------------------
\* Fields, limits and names.

Fields(names) == Each(names, LAMBDA n : On(n, W))
Reserved == <<On("_record", S), On("_from_structlog", Plain(4))>>
Claims == Each(IdentityNames, LAMBDA n : On(n, Named("r2")))
Binding(call, values) == [call EXCEPT !.binds = values]
Context(situation_, variables) == [situation_ EXCEPT !.context.a = variables]
Foreign(v) == [v EXCEPT !.ours = FALSE]
Unbound(v) == [v EXCEPT !.bound = FALSE]
Plainly == OfStructlog(W, <<>>)

FieldSituations ==
  Each(<<Fields(<<"a", "c">>), Fields(<<"a", "c", "d">>), Fields(<<"a", "c", "d", "e">>),
         Claims, Reserved,
         Reserved \o Fields(<<"a", "c", "d">>), Reserved \o Claims \o Fields(<<"a", "c", "d", "e">>),
         Claims \o Fields(<<"a", "c", "d", "e">>),
         <<On("k", S), On("a", MapOf(<<On("k", S)>>))>>,
         <<On("a", ListOf(<<MapOf(<<On("h", S), On("c", W)>>), Text(<<"k">>),
                            [t |-> "secret"]>>))>>,
         <<On("a", MapOf(<<<<Text(<<"k", "=", "s">>), W>>>>))>>,
         <<On("a", MapOf(<<<<Text(<<"%k">>), S>>>>)), <<Text(<<"k1", "zw", "k2">>), S>>>>,
         <<On("a", [t |-> "object"]), On("c", [t |-> "huge"]),
           On("d", [t |-> "enum", v |-> Text(<<"k", "=", "s">>)])>>>>,
       LAMBDA fields : Alone(<<OfStructlog(W, fields)>>))
  \o Each(<<<<Fields(<<"a", "c">>), Fields(<<"d", "e">>)>>, <<Fields(<<"a", "c", "d">>), Reserved>>,
           <<Fields(<<"a", "c", "d", "e">>)>>, <<Claims, Fields(<<"a">>)>>,
           <<<<On("k", S)>>, Fields(<<"a">>)>>>>,
         LAMBDA binds : Alone(<<Binding(OfStructlog(W, Fields(<<"a", "d">>)), binds)>>))
  \o Each(<<<<Variable("a", W), Variable("k", S)>>, <<Variable("request_id", Named("r1"))>>,
           <<Unbound(Variable("request_id", Named("r1"))), Variable("level", Named("error"))>>,
           <<Foreign(Variable("a", W)), Variable("e", W), Variable("a", W),
             Variable("request_id", Named("r1"))>>,
           <<Unbound(Variable("d", W)), Variable("_record", W), Variable("event", Named("r1"))>>,
           Each(<<1, 2, 3, 4, 5, 6, 7, 8, 9, 10, 11, 12>>, LAMBDA n : Foreign(Variable("a", W)))
             \o <<Variable("a", W), Variable("request_id", Named("r1"))>>,
           <<Variable("request_id", Text(<<"k", "=", "s">>))>>>>,
         LAMBDA variables :
           Context(Alone(<<OfStructlog(W, <<On("d", W), On("c", W), On("request_id", Named("r2"))>>),
                           OfStdlib(W, <<>>, <<>>)>>), variables))

-----------------------------------------------------------------------------
\* Exceptions, stacks, templates and values that share.

Chained == HeapOf(
  [E |-> [Failure(<<"k", "=", "s">>) EXCEPT !.cause = {"F"}],
   F |-> [Failure(<<"B">>) EXCEPT !.context = {"G"}, !.frames = <<>>],
   G |-> [Failure(<<"s", "@", "w">>) EXCEPT !.context = {"E"}, !.message = <<"w">>]])
Deep == HeapOf(
  [E |-> [Failure(<<"w">>) EXCEPT !.frames = [i \in 1..5 |-> [file |-> W, name |-> <<"w">>]]]])
Group == HeapOf(
  [E |-> [Failure(<<"w">>) EXCEPT !.members = <<"F", "F", "F">>], F |-> Failure(<<"k", ":", "s">>)])
Credential == Text(<<"k", "=", "s">>)
Problem(loc, msg, kind) == [dict |-> TRUE, loc |-> loc, msg |-> msg, kind |-> kind]
Invalid == HeapOf(
  [E |-> [Failure(<<"k", "=", "s">>) EXCEPT
            !.context = {"F"},
            !.errors = <<Problem(W, Credential, W), Problem(Credential, W, Credential), Problem(W, W, W)>>],
   F |-> [Failure(<<"w">>) EXCEPT
            !.errors = <<[dict |-> FALSE], Problem(Text(<<>>), Credential, Plain(2)), Problem(W, W, W)>>]])
Strange == HeapOf(
  [E |-> [Failure(<<"w">>) EXCEPT !.printable = FALSE,
            !.frames = <<[file |-> Text(<<"k", "=", "s">>), name |-> <<"w">>],
                         [file |-> W, name |-> <<"9">>]>>]])
Unreadable == HeapOf([E |-> Failure(<<"k", "=", "b">>)])      \* the rules raise on it
Long == HeapOf([E |-> Failure([i \in 1..45 |-> "w"])])

Frame(file, name, logging) == [file |-> Text(file), name |-> <<name>>, logging |-> logging]
Stack == <<Frame(<<"w">>, "w", TRUE), Frame(<<"w">>, "k", FALSE), Frame(<<"w", "=", "w">>, "w", FALSE),
           Frame(<<"w", "?", "k", "=", "s">>, "w", FALSE)>>
Many == [i \in 1..60 |-> IF i % 12 = 0 THEN " " ELSE "w"]
Explained(event, fields) ==
  <<OfStructlog(Text(event), fields \o <<BecauseOf>>), OfStdlib(Text(event), <<>>, <<BecauseOf>>)>>
ExceptionSituations ==
  Cross(<<Chained, Deep, Group, Invalid, Strange, Unreadable, Long>>,
        <<Explained(<<"w">>, <<>>), Explained(Many, Fields(<<"a", "c", "d", "e">>)),
          Explained(<<"k", "=", "s">>,
                    <<On("a", Text(Many)), On("exception", Text(<<"k", "=", "s">>)),
                      On("c", Text(Many))>>)>>,
        LAMBDA heap, calls : [Alone(calls) EXCEPT !.heap = heap])
  \o Each(<<Text(Many \o Many), Text(Many \o <<"k", "=", "s">> \o Many), Text(<<>>), Plain(2),
           ListOf(<<Text(Many), Text(Many), Text(Many), Text(Many)>>),
           MapOf(Each(<<"a", "c", "d", "e">>, LAMBDA n : On(n, Text(Many)))),
           ListOf(<<Text(Many \o Many), ListOf(<<Text(Many), Text(Many \o Many), Text(Many)>>),
                    Text(Many \o Many)>>)>>,
         LAMBDA event : [Alone(<<OfStructlog(event, <<On("a", Text(Many)), BecauseOf>>),
                                 OfStdlib(event, <<>>, <<BecauseOf>>)>>) EXCEPT !.heap = Long])
  \o <<[Alone(<<OfStructlog(W, <<AskedFor("exc_info"), AskedFor("stack_info")>>)>>) EXCEPT
         !.heap = Chained, !.handling = {"E"}, !.frames = Stack],
       [Alone(<<OfStructlog(W, <<AskedFor("exc_info"), AskedFor("stack_info")>>
                                 \o Fields(<<"a", "c", "d", "e">>)),
                OfStdlib(W, <<>>, <<AskedFor("stack_info")>>)>>) EXCEPT
         !.frames = SubSeq(Stack, 1, 2)]>>

Templates ==
  <<<<"w", "%s">>, <<"k", "=", "%s">>, <<"k", "=", "'", "%s", "'", " ", "w">>,
    <<"h", ":", " ", "%s">>, <<"w", "%*">>, <<"w">>, <<"%s", "%s">>, <<"%s", "%s", "%s">>, Many \o Many>>
Arguments ==
  <<<<S>>, <<MapOf(<<On("k", S)>>)>>, <<ListOf(<<Text(<<"k", "=", "s">>)>>)>>,
    <<[t |-> "object"], W>>, <<Plain(1), Plain(1), Plain(1)>>, <<Text(Many)>>>>
HasSecret(template, args) == S \in ToSet(args) /\ template[1] \notin {"k", "h"}
TemplateSituations ==
  Cross(Templates, Arguments, LAMBDA template, args :
          Alone(<<OfStdlib(Text(template), IF HasSecret(template, args) THEN <<W>> ELSE args, <<>>)>>))

Ref(r) == [t |-> "ref", r |-> r]
Container(map, items, broken) == [map |-> map, items |-> items, broken |-> broken]
Shared ==
  [objects |-> [R |-> Container(TRUE, <<On("k", S), On("c", Ref("Q"))>>, FALSE),
                Q |-> Container(FALSE, <<Ref("R"), Credential>>, FALSE),
                X |-> Container(FALSE, <<Credential>>, TRUE)],
   errors |-> <<>>]
Nested(n) == LET In[i \in Nat] == IF i = 0 THEN Credential ELSE ListOf(<<In[i - 1]>>) IN In[n]
SharedSituations ==
  Each(<<<<On("a", Ref("R"))>>, <<On("a", Ref("R")), On("c", Ref("R")), On("d", Ref("Q"))>>,
         <<On("a", Ref("X"))>>, <<On("exception", Ref("Q"))>>, <<On("stack", Ref("X"))>>,
         <<On("a", Nested(2)), On("exception", Nested(4))>>>>,
       LAMBDA fields : [Alone(<<OfStructlog(W, fields), OfStdlib(MapOf(fields), <<>>, <<>>)>>)
                          EXCEPT !.heap = Shared])

-----------------------------------------------------------------------------
\* Threads, requests, other handlers and a new configuration.

Configurations ==
  <<[service |-> Named("api"), environment |-> Named("prod")],
    [service |-> Named("worker"), environment |-> Text(<<"k", "=", "s">>)]>>
Threaded ==
  [calls |-> [a |-> <<OfStructlog(W, <<On("request_id", Named("r1")), On("k", S)>>)>>,
              b |-> <<OfStructlog(Named("a"), <<On("a", W)>>), OfStdlib(W, <<>>, <<>>)>>],
   nested |-> [a |-> {}, b |-> {}], context |-> [a |-> <<>>, b |-> <<Variable("request_id", Named("r2"))>>],
   requests |-> [a |-> {}, b |-> {Named("r1")}], forwards |-> {}, tamper |-> {}, frames |-> <<>>,
   handling |-> {}, heap |-> HeapOf(<<>>), configs |-> Configurations]
Handlers ==
  [Alone(<<OfStructlog(W, <<On("a", W), On("request_id", Named("r2"))>>)>>) EXCEPT
     !.requests.a = {Named("r1")},
     !.nested.a = {OfStructlog(Named("a"), <<On("k", S)>>), OfStdlib(W, <<>>, <<>>)},
     !.forwards = {[OfStdlib(W, <<>>, <<>>) EXCEPT !.logger = Text(<<"k", "=", "s">>)]},
     !.tamper = {On("k", S), On("a", Text(<<"h", ":", " ", "s">>)), On("level", Named("error")),
                 On("request_id", Text(<<"k", "=", "s">>)), On("_record", S), On("service", Named("worker"))},
     !.configs = Configurations]
\* The same in work that has an id bound to its context.
InContext == [Handlers EXCEPT !.context.a = <<Variable("request_id", Named("r2"))>>]

-----------------------------------------------------------------------------
MCSituations ==
  LET several == <<Threaded, Handlers, InContext>>
  IN  TextSituations \o FieldSituations \o ExceptionSituations \o TemplateSituations
        \o SharedSituations \o several

\* The sanitiser does what the pipeline relies on for the calls of every situation,
\* whatever they claim to be.
ASSUME \A n \in 1..Len(MCSituations) :
         LET s == MCSituations[n]
         IN  \A t \in DOMAIN s.calls : \A call \in ToSet(s.calls[t]) :
               SkipsMetadata(Claims \o Reserved \o call.fields, s.heap)
=============================================================================
