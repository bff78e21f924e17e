------------------------------ MODULE Redaction ------------------------------
(***************************************************************************)
(* The sanitiser of log events (redaction.py): text in layers, values,     *)
(* containers, events and exception messages under one budget.             *)
(*                                                                         *)
(* Besides those of LogValues, a value is "huge" (an integer too long to    *)
(* render), "secret" (SecretStr), "object" (of an unknown class), "fixed"  *)
(* (a scalar with a renderer of its own, that accepts it or not), "enum"   *)
(* of a value, "error" (the exception e) or "ref" (the container r).  The  *)
(* heap has the containers, [map, items, broken], where broken ones raise  *)
(* when they are read to the end, and the exceptions.                      *)
(*                                                                         *)
(* A budget is [nodes, scan, output, active, seen, heap].  A result is     *)
(* [v, b], a value and the budget that is left; the value Raise says that  *)
(* the code raised.                                                        *)
(***************************************************************************)
EXTENDS TextRules, JsonText

CONSTANTS MAX_DEPTH, MAX_EVENT_NODES, MAX_EVENT_SCAN,
          MAX_EVENT_OUTPUT, MAX_JSON_NESTING, JSON_WORK_FACTOR, JSON_WORK_BASE,
          MAX_KEY_LENGTH, MAX_MESSAGE_LENGTH, MAX_SUB_EXCEPTIONS, MAX_SUMMARY_ERRORS,
          MAX_IDENTIFIER_LENGTH

SEPARATOR_COST == 2
TRUNCATED_SENSITIVE == <<"[", "V", "]">>
CYCLE == <<"[", "C", "]">>
REPEATED == <<"[", "P", "]">>
UNREADABLE == <<"[", "U", "]">>
UNSUPPORTED == <<"[", "O", "]">>

RaisedText == <<"!">>
Out(v, b) == [v |-> v, b |-> b]
Raised(s) == "!" \in Symbols(s)

\* ---------------------------------------------------------------- budget

Budget(heap) == [nodes |-> MAX_EVENT_NODES, scan |-> MAX_EVENT_SCAN, output |-> MAX_EVENT_OUTPUT,
                 active |-> {}, seen |-> {}, heap |-> heap]
Exhausted(b) == b.nodes <= 0 \/ b.output <= 0
Scanned(b, n) == [b EXCEPT !.scan = @ - n]
Visited(b) == [b EXCEPT !.nodes = @ - 1]
Fits(n, b, nesting) == nesting > 0 \/ n + SEPARATOR_COST <= b.output
charge(n, b, nesting) ==
  IF nesting > 0 THEN b
  ELSE [b EXCEPT !.output = IF Fits(n, b, nesting) THEN @ - (n + SEPARATOR_COST) ELSE 0]

\* A scalar, or the marker that stands for it where it does not fit.
Charged(v, n, b, nesting) ==
  Out(IF Fits(n, b, nesting) THEN v ELSE Text(TRUNCATED), charge(n, b, nesting))
_marker(s, b, nesting) == Charged(Text(s), Len(s) + 2, b, nesting)

_emit(s, b, nesting) ==
  LET cost == JsonLength(s) + SEPARATOR_COST
      room == b.output - Len(TRUNCATED) - 5
      width == IF Symbols(s) \cap NonAscii = {} THEN 6 ELSE 12
      keep == IF room > 0 THEN room \div width ELSE 0
  IN  IF nesting > 0 THEN Out(Text(s), b)
      ELSE IF cost <= b.output THEN Out(Text(s), [b EXCEPT !.output = @ - cost])
      ELSE Out(Text(IF keep = 0 THEN TRUNCATED
                  ELSE SubSeq(s, 1, Least(keep, Len(s))) \o <<" ">> \o TRUNCATED),
             [b EXCEPT !.output = 0])

\* ------------------------------------------------------------ text layers

RECURSIVE _sanitize(_, _, _, _)

\* Fragment marks of the text itself are translated away.
Unmarked(t) ==
  [i \in 1..Len(t) |-> IF \E f \in DOMAIN Fragments : t[i] = Fragments[f]
                      THEN Translated[CHOOSE f \in DOMAIN Fragments : t[i] = Fragments[f]]
                      ELSE t[i]]

\* Embedded JSON from position i on: the text with placeholders, what they
\* stand for, and the budget.
RECURSIVE JsonFrom(_, _, _, _, _, _)
JsonFrom(t, i, work, b, nesting, fragments) ==
  LET at == Seek(t, i, After(t), {"{", "["})
      json == ParseValue(t, at)
      clean == _sanitize(json.v, 0, b, nesting + 1)
      cost == IF json.end > at THEN json.end - at ELSE 1
      deep == nesting >= MAX_JSON_NESTING
      rest == IF ~json.ok THEN JsonFrom(t, at + 1, work - cost, b, nesting, fragments)
              ELSE IF json.v.items = <<>> \/ deep
              THEN JsonFrom(t, json.end, work - cost, b, nesting, fragments)
              ELSE JsonFrom(t, json.end, work - cost, clean.b, nesting,
                            Append(fragments, Dump(clean.v)))
      put(s) == [rest EXCEPT !.s = Slice(t, i, at) \o s \o @]
  IN  IF at > Len(t) THEN [s |-> Slice(t, i, at), fragments |-> fragments, b |-> b]
      ELSE IF work <= 0
      THEN [s |-> Slice(t, i, at) \o REDACTED, fragments |-> fragments, b |-> b]
      ELSE IF ~json.ok THEN put(<<t[at]>>)
      ELSE IF json.v.items = <<>> THEN put(Slice(t, at, json.end))
      ELSE IF deep THEN put(REDACTED)
      ELSE put(<<Fragments[Len(fragments) + 1]>>)

_hold_json(t, b, nesting) ==
  JsonFrom(Unmarked(t), 1, JSON_WORK_FACTOR * Len(t) + JSON_WORK_BASE, b, nesting, <<>>)

\* Without the characters about which grammars disagree.
Joined(t) == LET Plainly(x) == x \notin Ambiguous IN SelectSeq(t, Plainly)

RulesAlone(held, b, cut) == Out(_scrub_free_text(held, cut), b)

\* The text rules, then the ambiguity rule.
_scrub_held(held, b, cut) ==
  LET scrubbed == _scrub_free_text(held, cut)
      joined == Joined(held)
      again == _scrub_free_text(joined, cut)
  IN  IF Raised(scrubbed) THEN Out(RaisedText, b)
      ELSE IF joined = held THEN Out(scrubbed, b)
      ELSE IF scrubbed # held THEN Out(REDACTED, b)
      ELSE Out(IF Raised(again) THEN RaisedText ELSE IF again # joined THEN REDACTED ELSE scrubbed,
             Scanned(b, Len(joined)))

_scrub_layers(t, b, nesting) ==
  LET held == _hold_json(t, b, nesting) IN _scrub_held(held.s, held.b, FALSE)

Underscored(t) == [i \in 1..Len(t) |-> IF t[i] \in Blank THEN "_" ELSE t[i]]
_decode_tokens_once(t) == LET Decoded(token) == Underscored(_decode_once(token))
                          IN  EachToken(t, Decoded)
Decode(t, tokens) == IF tokens THEN _decode_tokens_once(t) ELSE _decode_once(t)

\* What a text shows between its masks.
Shown(t) ==
  LET masks == {i \in 1..(Len(t) - 2) : Slice(t, i, i + 3) = REDACTED}
      start(m) == Max({i + 3 : i \in {x \in masks : x < m}} \cup {1})
  IN  {Slice(t, start(m), m) : m \in masks \cup {After(t)}}
Reads(t, piece) == piece = <<>> \/ Holds(t, piece)

\* One decoding, round by round: does scrubbed show more than a view of it?
Views(more, raised, b) == [more |-> more, raised |-> raised, b |-> b]
RECURSIVE ViewsFrom(_, _, _, _, _, _)
ViewsFrom(form, shown, tokens, rounds, b, nesting) ==
  LET next == Decode(form, tokens)
      decoded == Decode(shown, tokens)
      view == _scrub_layers(next, Scanned(b, Len(next)), nesting)
  IN  IF rounds = 0 \/ next = form THEN Views(FALSE, FALSE, b)
      ELSE IF Len(next) > b.scan THEN Views(TRUE, FALSE, b)
      ELSE IF Raised(view.v) THEN Views(TRUE, TRUE, view.b)
      ELSE IF \E piece \in Shown(decoded) : ~Reads(view.v, piece) THEN Views(TRUE, FALSE, view.b)
      ELSE ViewsFrom(next, decoded, tokens, rounds - 1, view.b, nesting)

_shows_more_than_its_views(scrubbed, original, b, nesting) ==
  LET whole == ViewsFrom(original, Unmarked(scrubbed), FALSE, MAX_DECODE_ROUNDS, b, nesting)
  IN  IF ~_decoded_forms(original, MAX_DECODE_ROUNDS).stable THEN Views(TRUE, FALSE, b)
      ELSE IF whole.more THEN whole
      ELSE ViewsFrom(original, Unmarked(scrubbed), TRUE, MAX_DECODE_ROUNDS, whole.b, nesting)

_scrub_decoded_views(scrubbed, original, b, nesting) ==
  LET more == _shows_more_than_its_views(scrubbed, original, b, nesting)
  IN  IF ~_has_escapes(original) THEN Out(scrubbed, b)
      ELSE Out(IF more.raised THEN RaisedText ELSE IF more.more THEN REDACTED ELSE scrubbed, more.b)

CutIndicated(t) == Matches(t) \/ Holds(t, Scheme) \/ Symbols(t) \cap {"@", "B"} # {}
Restored(t, fragments) ==
  FlattenSeq([i \in 1..Len(t) |->
    LET held == {f \in DOMAIN fragments : Fragments[f] = t[i]}
    IN  IF held = {} THEN <<t[i]>> ELSE fragments[CHOOSE f \in held : TRUE]])

\* The scrubbed text, RaisedText if a rule raised, and the budget.
_scrub(text, b, nesting) ==
  LET limit == Least(MAX_STRING_LENGTH, b.scan)
      cut == Len(text) > limit
      t == SubSeq(text, 1, Least(limit, Len(text)))
      held == _hold_json(t, Scanned(b, Len(t)), nesting)
      ruled == _scrub_held(held.s, held.b, cut)
      viewed == _scrub_decoded_views(ruled.v, held.s, ruled.b, nesting)
      last == SeekBack(held.s, 1, After(held.s), {" "})
      kept == Restored(SubSeq(held.s, 1, IF last = 0 THEN 0 ELSE last - 1), held.fragments)
  IN  IF limit <= 0 THEN Out(TRUNCATED, b)
      ELSE IF Raised(ruled.v) THEN ruled
      ELSE IF Raised(viewed.v) THEN viewed
      ELSE IF ~cut THEN Out(Restored(viewed.v, held.fragments), viewed.b)
      ELSE IF viewed.v # held.s \/ CutIndicated(held.s) THEN Out(TRUNCATED_SENSITIVE, viewed.b)
      ELSE Out(IF kept = <<>> THEN TRUNCATED ELSE kept \o <<" ">> \o TRUNCATED, viewed.b)

Unchanged(text, b) == _scrub(text, b, 0).v = text

\* ------------------------------------------------------------- exceptions

\* One piece of the summary of a validation error.
_summary_part(v, b, limit) ==
  LET scrubbed == _scrub(v.s, b, 0)
  IN  IF v.t # "text" THEN Out(UNSUPPORTED, b)
      ELSE Out(IF Len(scrubbed.v) <= limit THEN scrubbed.v
             ELSE SubSeq(scrubbed.v, 1, limit) \o <<" ">> \o TRUNCATED, scrubbed.b)

\* The errors of a validation error, from the n-th on: [dict, loc, msg, kind]
\* each; one that is not a dict is passed over.
RECURSIVE Problems(_, _, _)
Problems(errors, n, b) ==
  LET loc == _summary_part(errors[n].loc, b, MAX_SUBSCRIPT_LENGTH)
      msg == _summary_part(errors[n].msg, loc.b, MAX_KEY_LENGTH)
      kind == _summary_part(errors[n].kind, msg.b, MAX_SUBSCRIPT_LENGTH)
      rest == Problems(errors, n + 1, kind.b)
      location == IF loc.v = <<>> THEN <<"<", "w", ">">> ELSE loc.v
      text == location \o <<":", " ">> \o msg.v \o <<" ", "[">> \o kind.v \o <<"]">>
  IN  IF n > Least(Len(errors), MAX_SUMMARY_ERRORS) THEN Out(<<>>, b)
      ELSE IF ~errors[n].dict THEN Problems(errors, n + 1, b)
      ELSE IF Raised(loc.v) THEN loc
      ELSE IF Raised(msg.v) THEN msg
      ELSE IF Raised(kind.v) THEN kind
      ELSE Out(text \o (IF rest.v = <<>> THEN <<>> ELSE <<";", " ">> \o rest.v), rest.b)

\* The summary, or, where there is none or it raised, the scrubbed message.
_exception_message(e, b) ==
  LET summary == Problems(e.errors, 1, b)
      plain == _scrub(IF e.printable THEN e.message ELSE <<"_">>, summary.b, 0)
      chosen == IF e.errors = <<>> \/ Raised(summary.v) THEN plain
                ELSE Out(<<"9", " ", "_", ":", " ">> \o summary.v, summary.b)
  IN  IF Len(chosen.v) > MAX_MESSAGE_LENGTH
      THEN Out(SubSeq(chosen.v, 1, MAX_MESSAGE_LENGTH) \o <<" ">> \o TRUNCATED, chosen.b)
      ELSE chosen

RECURSIVE _describe_exception(_, _), Members(_, _, _)

\* The members of a group, from the n-th on.
Members(names, n, b) ==
  LET one == _describe_exception(names[n], Visited(b))
      rest == Members(names, n + 1, one.b)
      between == IF n = 1 THEN <<>> ELSE <<";", " ">>
  IN  IF n > Least(Len(names), MAX_SUB_EXCEPTIONS) THEN Out(<<>>, b)
      ELSE IF b.nodes <= 0 THEN Out(between \o TRUNCATED, b)
      ELSE Out(between \o one.v \o rest.v, rest.b)

_describe_exception(name, b) ==
  LET e == b.heap.errors[name]
      message == _exception_message(e, b)
      members == Members(e.members, 1, message.b)
      text == TypeName \o <<":", " ">> \o message.v
  IN  IF e.members = <<>> \/ Raised(message.v) THEN Out(text, message.b)
      ELSE Out(text \o <<" ", "[">> \o members.v \o <<"]">>, members.b)

\* ------------------------------------------------------------- containers

\* Is the key sensitive, and its safe form.
Key(sensitive, v, b) == [sensitive |-> sensitive, v |-> v, b |-> b]
_sanitize_key(key, b, nesting) ==
  LET affordable == Len(key.s) <= Least(MAX_STRING_LENGTH, b.scan)
      paid == IF affordable THEN Scanned(b, Len(key.s)) ELSE b
      scrubbed == _scrub(key.s, paid, nesting)
      safe == _emit(SubSeq(scrubbed.v, 1, Least(MAX_KEY_LENGTH, Len(scrubbed.v))),
                    scrubbed.b, nesting)
      fixed == IF key.t = "plain" THEN <<"9">> ELSE UNSUPPORTED
  IN  IF key.t # "text" THEN Key(FALSE, Text(fixed), charge(Len(fixed) + 2, b, nesting))
      ELSE IF Raised(scrubbed.v) THEN Key(FALSE, Raise, scrubbed.b)
      ELSE Key(~affordable \/ _names_sensitive_data(key.s) \/ _names_sensitive_data(safe.v.s),
             safe.v, safe.b)

\* Text fragments in the order in which they are laid out, with the room that
\* is left: [fragments, chars, values, raised].
RECURSIVE _collect_fragments(_, _, _, _)
_collect_fragments(v, depth, room, heap) ==
  LET list == IF v.t = "ref" THEN heap.objects[v.r]
              ELSE [map |-> v.t = "map", items |-> v.items, broken |-> FALSE]
      text == SubSeq(v.s, 1, Least(room.chars, Len(v.s)))
      line == IF text # <<>> /\ Last(text) = "\n" THEN Front(text) ELSE text
      Lay(s, n) == [room EXCEPT !.fragments = Append(@, s), !.chars = @ - (n + 1),
                                !.values = @ - 1]
      Next_(r, item) == _collect_fragments(item, depth + 1, r, heap)
      items == SubSeq(list.items, 1, Least(MAX_ITEMS, Len(list.items)))
  IN  IF room.chars <= 0 \/ room.values <= 0 THEN room
      ELSE IF v.t = "text" THEN Lay(line, Len(text))
      ELSE IF v.t \in {"ref", "list"} /\ ~list.map /\ depth < MAX_DEPTH
      THEN LET all == FoldLeft(Next_, [room EXCEPT !.values = @ - 1], items)
           IN  [all EXCEPT !.raised = @ \/ (list.broken /\ Len(list.items) < MAX_ITEMS)]
      ELSE Lay(UNSUPPORTED, Len(UNSUPPORTED))

Lines(parts) ==
  FlattenSeq([i \in 1..Len(parts) |-> IF i = 1 THEN parts[i] ELSE <<"\n">> \o parts[i]])
_assembled_text(v, heap) ==
  LET empty == [fragments |-> <<>>, chars |-> MAX_STRING_LENGTH + 1, values |-> MAX_ITEMS,
                raised |-> FALSE]
      laid == _collect_fragments(v, 0, empty, heap)
  IN  IF v.t = "text" THEN v
      ELSE IF laid.raised THEN Text(UNREADABLE)
      ELSE Text(Lines(laid.fragments \o IF laid.values <= 0 THEN <<TRUNCATED>> ELSE <<>>))

\* The entries of a mapping from the i-th on into result.  How they are read:
\* [limit, skip, assembled, broken].
RECURSIVE _sanitize_entries(_, _, _, _, _, _, _, _)
_sanitize_entries(items, i, admitted, depth, b, nesting, result, how) ==
  LET key == items[i][1]
      item == items[i][2]
      safe == _sanitize_key(key, b, nesting)
      v == IF key \in how.assembled THEN _assembled_text(item, b.heap) ELSE item
      clean == IF safe.sensitive THEN _marker(REDACTED, Visited(safe.b), nesting)
               ELSE _sanitize(v, depth + 1, safe.b, nesting)
      earlier == _sanitize(item, depth + 1, b, nesting)
      go(n, budget, entries) ==
        _sanitize_entries(items, i + 1, n, depth, budget, nesting, entries, how)
  IN  IF i > Least(Len(items), how.limit + Cardinality(how.skip) + 1)
      THEN Out(IF how.broken /\ i > Len(items) THEN Raise ELSE MapOf(result), b)
      ELSE IF key \in how.skip THEN go(admitted, b, result)
      ELSE IF admitted >= how.limit /\ key = Text(TRUNCATED)
      THEN Out(IF earlier.v = Raise THEN Raise ELSE MapOf(Put(result, key, earlier.v)), earlier.b)
      ELSE IF admitted >= how.limit \/ Exhausted(b)
      THEN Out(MapOf(Put(result, Text(TRUNCATED), Text(Note))), b)
      ELSE IF safe.v = Raise THEN Out(Raise, safe.b)
      ELSE IF clean.v = Raise THEN Out(Raise, clean.b)
      ELSE go(admitted + 1, clean.b, Put(result, safe.v, clean.v))

RECURSIVE _sanitize_sequence(_, _, _, _, _, _, _)
_sanitize_sequence(items, i, depth, b, nesting, result, broken) ==
  LET clean == _sanitize(items[i], depth + 1, b, nesting)
      earlier == items[i].t = "text" /\ IsPrefix(TRUNCATED, items[i].s)
      noted(n) == Out(ListOf(Append(result, Text(n))), b)
  IN  IF i > Len(items) THEN Out(IF broken THEN Raise ELSE ListOf(result), b)
      ELSE IF i > MAX_ITEMS
      THEN IF ~earlier THEN noted(TRUNCATED \o <<" ">> \o Note)
           ELSE Out(IF clean.v = Raise THEN Raise ELSE ListOf(Append(result, clean.v)), clean.b)
      ELSE IF Exhausted(b) THEN noted(TRUNCATED)
      ELSE IF clean.v = Raise THEN Out(Raise, clean.b)
      ELSE _sanitize_sequence(items, i + 1, depth, clean.b, nesting, Append(result, clean.v),
                              broken)

InnerEntries(broken) == [limit |-> MAX_ITEMS, skip |-> {}, assembled |-> {}, broken |-> broken]

\* ref is the container's identity, {} for one that nothing else refers to.
_sanitize_container(container, ref, depth, b, nesting) ==
  LET opened == charge(SEPARATOR_COST, b, nesting)
      entered == [opened EXCEPT !.active = @ \cup ref, !.seen = @ \cup ref]
      inside == IF container.map
                THEN _sanitize_entries(container.items, 1, 0, depth, entered, nesting, <<>>,
                                       InnerEntries(container.broken))
                ELSE _sanitize_sequence(container.items, 1, depth, entered, nesting, <<>>,
                                        container.broken)
      left == [inside.b EXCEPT !.active = @ \ ref]
      empty == IF container.map THEN MapOf(<<>>) ELSE ListOf(<<>>)
  IN  IF ref \cap b.active # {} THEN Out(Text(CYCLE), b)
      ELSE IF depth >= MAX_DEPTH THEN Out(Text(TRUNCATED), b)
      ELSE IF container.items = <<>> THEN Out(empty, opened)
      ELSE IF ref \cap b.seen # {} THEN Out(Text(REPEATED), opened)
      ELSE Out(IF inside.v = Raise THEN Text(UNREADABLE) ELSE inside.v, left)

_sanitize(v, depth, b, nesting) ==
  LET b1 == Visited(b)
      scrubbed == _scrub(v.s, b1, nesting)
      described == _describe_exception(v.e, b1)
      Emitted(out) == IF Raised(out.v) THEN Out(Raise, out.b) ELSE _emit(out.v, out.b, nesting)
      inline == [map |-> v.t = "map", items |-> v.items, broken |-> FALSE]
  IN  IF Exhausted(b) THEN Out(Text(TRUNCATED), b)
      ELSE CASE v.t = "text" -> Emitted(scrubbed)
             [] v.t = "ref" -> _sanitize_container(b.heap.objects[v.r], {v.r}, depth, b1, nesting)
             [] v.t \in {"map", "list"} -> _sanitize_container(inline, {}, depth, b1, nesting)
             [] v.t = "plain" -> Charged(v, v.n, b1, nesting)
             [] v.t = "secret" -> _marker(REDACTED, b1, nesting)
             [] v.t = "error" -> Emitted(described)
             [] v.t = "enum" -> _sanitize(v.v, depth, b1, nesting)
             [] v.t = "fixed" -> _marker(IF v.ok THEN <<"w">> ELSE UNSUPPORTED, b1, nesting)
             [] v.t = "huge" -> _marker(<<"w">>, b1, nesting)
             [] v.t = "object" -> _marker(UNSUPPORTED, b1, nesting)

\* ----------------------------------------------------------------- events

\* The fields named first, sanitised before any other, in their order.
RECURSIVE Leading(_, _, _, _, _)
Leading(event, names, assembled, b, result) ==
  LET name == Head(names)
      value == event[CHOOSE i \in 1..Len(event) : event[i][1] = name][2]
      v == IF name \in assembled THEN _assembled_text(value, b.heap) ELSE value
      clean == _sanitize(v, 1, b, 0)
  IN  IF names = <<>> THEN Out(MapOf(result), b)
      ELSE IF ~HasKey(event, name) THEN Leading(event, Tail(names), assembled, b, result)
      ELSE IF clean.v = Raise THEN clean
      ELSE Leading(event, Tail(names), assembled, clean.b, Put(result, name, clean.v))

\* A sanitised copy of the fields of an event, or Raise.
sanitize_event(event, skip, leading, assembled, heap) ==
  LET first == Leading(event, leading, assembled, Budget(heap), <<>>)
  IN  IF first.v = Raise THEN first
      ELSE _sanitize_entries(event, 1, 0, 0, first.b, 0, first.v.items,
             [limit |-> MAX_EVENT_FIELDS, skip |-> skip \cup ToSet(leading),
              assembled |-> assembled, broken |-> FALSE])

sanitize(v, heap) ==
  LET clean == _sanitize(v, 0, Budget(heap), 0).v
  IN  IF clean = Raise THEN Text(UNREADABLE) ELSE clean

\* Is it an identifier: by its grammar, and no rule would change it.
Punctuation == Blank \cup Quotes \cup Openers \cup Closers
                 \cup {"=", ":", ">", "<", ",", ";", "&", "?", "#", "/", "@", "+", "\\", "zw"}
is_identifier(v) ==
  /\ v.t = "text"
  /\ v.s # <<>> /\ Len(v.s) <= MAX_IDENTIFIER_LENGTH
  /\ Symbols(v.s) \cap Punctuation = {}
  /\ Unchanged(v.s, Budget([objects |-> <<>>, errors |-> <<>>]))
=============================================================================
