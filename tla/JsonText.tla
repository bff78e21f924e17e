------------------------------ MODULE JsonText ------------------------------
(***************************************************************************)
(* Python's json module, as redaction.py uses it on a text of symbols:     *)
(* raw_decode of the value that starts at a position, and dumps.           *)
(***************************************************************************)
EXTENDS TextPairs

\* What a parse returns: a value and the position after it, or where it failed.
Parsed(v, end) == [ok |-> TRUE, v |-> v, end |-> end]
Failed(i) == [ok |-> FALSE, v |-> Plain(0), end |-> i]
SkipBlank(t, i) == Skip(t, i, {" ", "\n"})
Unescaped == [x \in {"\"", "\\", "/", "n"} |-> IF x = "n" THEN "\n" ELSE x]

RECURSIVE ParseString(_, _, _)
ParseString(t, i, s) ==
  IF At(t, i) = "\"" THEN Parsed(Text(s), i + 1)
  ELSE IF At(t, i) \in {"end", "\n"} THEN Failed(i)
  ELSE IF t[i] # "\\" THEN ParseString(t, i + 1, Append(s, t[i]))
  ELSE IF At(t, i + 1) \in DOMAIN Unescaped
  THEN ParseString(t, i + 2, Append(s, Unescaped[t[i + 1]]))
  ELSE Failed(i)

RECURSIVE ParseValue(_, _), ParseItems(_, _, _), ParseMembers(_, _, _)

ParseValue(t, i) ==
  LET digits == IF At(t, i) = "-" THEN i + 1 ELSE i
      next == SkipBlank(t, i + 1)
  IN  CASE At(t, i) = "\"" -> ParseString(t, i + 1, <<>>)
        [] At(t, i) = "[" /\ At(t, next) = "]" -> Parsed(ListOf(<<>>), next + 1)
        [] At(t, i) = "[" /\ At(t, next) # "]" -> ParseItems(t, next, <<>>)
        [] At(t, i) = "{" /\ At(t, next) = "}" -> Parsed(MapOf(<<>>), next + 1)
        [] At(t, i) = "{" /\ At(t, next) # "}" -> ParseMembers(t, next, <<>>)
        [] At(t, digits) = "9" -> Parsed(Plain(1), Skip(t, digits, {"9"}))
        [] OTHER -> Failed(i)

ParseItems(t, i, items) ==
  LET item == ParseValue(t, i)
      after == SkipBlank(t, item.end)
  IN  IF ~item.ok THEN item
      ELSE IF At(t, after) = "]" THEN Parsed(ListOf(Append(items, item.v)), after + 1)
      ELSE IF At(t, after) = "," THEN ParseItems(t, SkipBlank(t, after + 1), Append(items, item.v))
      ELSE Failed(after)

ParseMembers(t, i, items) ==
  LET key == ParseString(t, i + 1, <<>>)
      colon == SkipBlank(t, key.end)
      item == ParseValue(t, SkipBlank(t, colon + 1))
      after == SkipBlank(t, item.end)
      more == Put(items, key.v, item.v)
  IN  IF At(t, i) # "\"" THEN Failed(i)
      ELSE IF ~key.ok THEN key
      ELSE IF At(t, colon) # ":" THEN Failed(colon)
      ELSE IF ~item.ok THEN item
      ELSE IF At(t, after) = "}" THEN Parsed(MapOf(more), after + 1)
      ELSE IF At(t, after) = "," THEN ParseMembers(t, SkipBlank(t, after + 1), more)
      ELSE Failed(after)

\* ----------------------------------------------------------------- dumps

Escaped(x) == CASE x = "\n" -> <<"\\", "n">>
                [] x \in {"\"", "\\"} -> <<"\\", x>>
                [] OTHER -> <<x>>
DumpText(s) == <<"\"">> \o FlattenSeq([i \in 1..Len(s) |-> Escaped(s[i])]) \o <<"\"">>
\* The length of json.dumps(text): an escape is two characters, outside ASCII six.
JsonLength(s) ==
  LET Count(S) == Cardinality({i \in 1..Len(s) : s[i] \in S})
  IN  Len(s) + 2 + Count({"\n", "\"", "\\"}) + 5 * Count(NonAscii)

Separated(parts) ==
  FlattenSeq([i \in 1..Len(parts) |-> IF i = 1 THEN parts[i] ELSE <<",", " ">> \o parts[i]])

RECURSIVE Dump(_)
Dump(v) ==
  CASE v.t = "text" -> DumpText(v.s)
    [] v.t = "plain" -> <<"9">>
    [] v.t = "list" -> <<"[">> \o Separated([i \in 1..Len(v.items) |-> Dump(v.items[i])]) \o <<"]">>
    [] v.t = "map" -> <<"{">>
                        \o Separated([i \in 1..Len(v.items) |->
                             Dump(v.items[i][1]) \o <<":", " ">> \o Dump(v.items[i][2])])
                        \o <<"}">>

\* ------------------------------------------------------------------ repr

ReprText(s) ==
  LET quote == IF "'" \in Symbols(s) /\ "\"" \notin Symbols(s) THEN "\"" ELSE "'"
      Shown(x) == IF x = "\n" THEN <<"\\", "n">>
                  ELSE IF x \in {quote, "\\"} THEN <<"\\", x>> ELSE <<x>>
  IN  <<quote>> \o FlattenSeq([i \in 1..Len(s) |-> Shown(s[i])]) \o <<quote>>

\* str(value) and, inside a container, repr(value).
RECURSIVE Repr(_)
Repr(v) ==
  CASE v.t = "text" -> ReprText(v.s)
    [] v.t = "plain" -> <<"9">>
    [] v.t = "list" -> <<"[">> \o Separated([i \in 1..Len(v.items) |-> Repr(v.items[i])]) \o <<"]">>
    [] v.t = "map" -> <<"{">>
                        \o Separated([i \in 1..Len(v.items) |->
                             Repr(v.items[i][1]) \o <<":", " ">> \o Repr(v.items[i][2])])
                        \o <<"}">>
Str(v) == IF v.t = "text" THEN v.s ELSE Repr(v)
=============================================================================
