------------------------------ MODULE TextPairs ------------------------------
(***************************************************************************)
(* The scanner for key/value pairs in free text (redaction.py).            *)
(*                                                                         *)
(* A text is a sequence of symbols.  A symbol is one character the scanner *)
(* asks about, or a word that it reads as a whole:                         *)
(*   w s R T V _ -  word characters; s is a piece of a secret, R T V are   *)
(*                  the words of the markers                               *)
(*   k h g          words naming sensitive data, a header, a signature     *)
(*   B              the word bearer                                        *)
(*   k1 k2          the halves of k                                        *)
(*   %k %20 %%k     k and a blank percent-encoded, %k encoded again        *)
(*   %s %*          a format directive, one that may allocate any size     *)
(*   n b            the letters of an escape and of a string prefix        *)
(*   em zw          a non-ASCII blank, an invisible character              *)
(*   F1 .. F6       placeholders of sanitised JSON fragments               *)
(*   f1 .. f6       the same after the marks have been translated away     *)
(* Positions count from 1; a span <<i, j>> holds the positions i .. j - 1. *)
(* The symbol ! in a result says that the code raised IndexError.          *)
(***************************************************************************)
EXTENDS LogValues, SequencesExt

CONSTANTS MAX_DECODE_ROUNDS, MAX_SUBSCRIPT_LENGTH, MAX_SWALLOWED_KEYS, QUERY_LOOKBACK

Word == {"w", "s", "R", "T", "V", "_", "-", "k", "h", "g", "B", "k1", "k2", "n", "b",
         "%k", "%20", "%%k", "%s", "9"} \cup Names
Blank == {" ", "\n", "em"}        \* str.isspace
ValueDelimiters == {" ", "\n"}    \* the C-locale blanks
Ambiguous == {"\n", "em", "zw"}
Quotes == {"\"", "'"}
Openers == {"(", "[", "{"}
Closers == {")", "]", "}"}
Fragments == <<"F1", "F2", "F3", "F4", "F5", "F6">>
Translated == <<"f1", "f2", "f3", "f4", "f5", "f6">>
NonAscii == {"em", "zw"} \cup ToSet(Fragments \o Translated)
KeyTrailers == {"\\"} \cup Quotes \cup Closers \cup {"+"}

REDACTED == <<"[", "R", "]">>

Slice(t, i, j) == SubSeq(t, i, j - 1)
At(t, i) == IF i \in 1..Len(t) THEN t[i] ELSE "end"
After(t) == Len(t) + 1

\* The first position in i .. j - 1 that holds one of S, else j.
Seek(t, i, j, S) == Min({x \in i..(j - 1) : t[x] \in S} \cup {j})
\* The first position from i on that does not hold one of S.
Skip(t, i, S) == Min({x \in i..Len(t) : t[x] \notin S} \cup {After(t)})
\* The last position in i .. j - 1 that holds one of S, else i - 1.
SeekBack(t, i, j, S) == Max({x \in i..(j - 1) : t[x] \in S} \cup {i - 1})

\* ------------------------------------------------------------------ keys

\* Backslash escapes, percent forms, then characters that show as nothing.
RECURSIVE _unescape(_)
_unescape(t) ==
  IF Len(t) < 2 THEN t
  ELSE IF t[1] = "\\" /\ t[2] \in {"\\", "/", "n"}
  THEN <<IF t[2] = "n" THEN "\n" ELSE t[2]>> \o _unescape(SubSeq(t, 3, Len(t)))
  ELSE <<t[1]>> \o _unescape(Tail(t))
Unquoted(x) == CASE x = "%20" -> " " [] x = "%k" -> "k" [] x = "%%k" -> "%k" [] OTHER -> x
Visible(t) == LET Shown(x) == x # "zw"
                  seen == SelectSeq(t, Shown)
              IN  [i \in 1..Len(seen) |-> IF seen[i] = "em" THEN " " ELSE seen[i]]
_decode_once(t) == LET plain == _unescape(t)
                   IN  Visible([i \in 1..Len(plain) |-> Unquoted(plain[i])])

\* The decodings of a text, and whether the last is a fixed point.
RECURSIVE _decoded_forms(_, _)
_decoded_forms(t, rounds) ==
  LET next == _decode_once(t)
      more == _decoded_forms(next, rounds - 1)
  IN  IF next = t THEN [forms |-> {}, stable |-> TRUE]
      ELSE IF rounds = 0 THEN [forms |-> {}, stable |-> FALSE]
      ELSE [forms |-> {next} \cup more.forms, stable |-> more.stable]

Escapes == {"%k", "%20", "%%k", "%s", "%*", "\\", "&", "em", "zw"} \cup ToSet(Fragments \o Translated)
_has_escapes(t) == Symbols(t) \cap Escapes # {}

\* A word that names sensitive data, as written or in a decoded form.
Matches(t) ==
  \/ Symbols(t) \cap {"k", "h"} # {}
  \/ \E i \in 1..(Len(t) - 1) : t[i] = "k1" /\ t[i + 1] = "k2"
_names_sensitive_data(t) ==
  \/ Matches(t)
  \/ /\ _has_escapes(t)
     /\ LET decoded == _decoded_forms(t, MAX_DECODE_ROUNDS)
        IN  ~decoded.stable \/ \E form \in decoded.forms : Matches(form)
HeaderKey(run) == "h" \in Symbols(run)

KeyRunEnd(t, i) == Skip(t, i, Word)

\* ---------------------------------------------------------------- values

\* The closing quote of the one at open, searched from i on; 0 if the value
\* has no certain end before limit.
RECURSIVE _closing_quote(_, _, _, _)

EndsAtFirstQuote(t, open, i, limit) ==
  LET q == Seek(t, i, limit, {t[open]}) IN IF q < limit THEN q ELSE 0

_closing_quote(t, open, i, limit) ==
  IF i >= limit THEN 0
  ELSE IF t[i] = "\\"
  THEN LET end == IF Skip(t, i, {"\\"}) > limit THEN limit ELSE Skip(t, i, {"\\"})
       IN IF end - i > 1 /\ At(t, end) = t[open] THEN 0
          ELSE _closing_quote(t, open, end + 1, limit)
  ELSE IF t[i] # t[open] THEN _closing_quote(t, open, i + 1, limit)
  ELSE IF i > open + 1 /\ At(t, i + 1) = t[open] THEN _closing_quote(t, open, i + 2, limit)
  ELSE i

\* The end of the unquoted value that starts at start, read from i on at the
\* given depth of brackets.
RECURSIVE UnquotedFrom(_, _, _, _, _, _)
UnquotedFrom(t, start, i, depth, line, query) ==
  LET inside == t[start] \in Openers /\ depth > 0
      next(j, d) == UnquotedFrom(t, start, j, d, line, query)
      limit == IF inside THEN After(t) ELSE Seek(t, start, After(t), {"\n"})
      closing == _closing_quote(t, i, i + 1, limit)
  IN  IF i > Len(t) THEN After(t)
      ELSE IF t[i] = "\n" /\ ~inside THEN i
      ELSE IF t[i] = "\\" THEN next(Skip(t, i, {"\\"}) + 1, depth)
      ELSE IF t[i] \in Quotes /\ (depth > 0 \/ ~line)
      THEN IF closing = 0 THEN limit ELSE next(closing + 1, depth)
      ELSE IF t[i] \in Openers THEN next(i + 1, depth + 1)
      ELSE IF t[i] \in Closers THEN next(i + 1, IF depth = 0 THEN 0 ELSE depth - 1)
      ELSE IF /\ depth = 0 /\ ~line
              /\ t[i] \in ValueDelimiters \/ (query /\ t[i] = "&")
      THEN i
      ELSE next(i + 1, depth)

_unquoted_end(t, start, line, query) == UnquotedFrom(t, start, start, 0, line, query)

\* The lines below a key that ends its own line, while they are indented
\* below it.
RECURSIVE IndentedEnd(_, _, _)
IndentedEnd(t, end, indent) ==
  LET text == Skip(t, end + 1, {" "})
  IN  IF end > Len(t) \/ text > Len(t) \/ At(t, text) = "\n" \/ text - end - 1 <= indent
      THEN end
      ELSE IndentedEnd(t, Seek(t, text, After(t), {"\n"}), indent)

_block_span(t, newline, key) ==
  LET line == SeekBack(t, 1, key, {"\n"}) + 1
      indent == Skip(t, line, {" "}) - line
      start == Skip(t, newline, Blank)
  IN  IF start > Len(t) THEN <<start, start>>
      ELSE <<start, IndentedEnd(t, Seek(t, start, After(t), {"\n"}), indent)>>

_in_query_string(t, key) ==
  LET from == IF key > QUERY_LOOKBACK THEN key - QUERY_LOOKBACK ELSE 1
      token == SeekBack(t, from, key, ValueDelimiters) + 1
  IN  At(t, key - 1) \in {"&", "?"} \/ \E i \in token..(key - 1) : t[i] = "?"

\* A blank written as an escape, behind any number of backslashes: its length.
_escaped_space(t, i) ==
  LET end == Skip(t, i, {"\\"})
  IN  IF end > i /\ At(t, end) = "n" THEN end + 1 - i ELSE 0

RECURSIVE SkipSpace(_, _)
SkipSpace(t, i) ==
  IF At(t, i) \in Blank THEN SkipSpace(t, i + 1)
  ELSE IF _escaped_space(t, i) > 0 THEN SkipSpace(t, i + _escaped_space(t, i))
  ELSE i

\* A slice beyond the text is "", and "" is in every Python string.
Prefixed(t, i) == At(t, i) \in {"b", "end"} /\ At(t, i + 1) \in Quotes \cup {"end"}
_opens_quote(t, i) ==
  \/ Prefixed(t, i)
  \/ At(t, Skip(t, i, {"\\"})) \in Quotes

\* What may stand between a key and its separator: <<where it ends, was a
\* quote closed>>.
RECURSIVE Trailers(_, _, _)
Trailers(t, i, closed) ==
  LET closing == Seek(t, i + 1, Min({i + 1 + MAX_SUBSCRIPT_LENGTH, After(t)}), {"]"})
  IN  IF At(t, i) = "\\" /\ _escaped_space(t, i) = 0
      THEN Trailers(t, Skip(t, i, {"\\"}), closed)
      ELSE IF At(t, i) \in KeyTrailers \ {"\\"} THEN Trailers(t, i + 1, closed \/ t[i] \in Quotes)
      ELSE IF At(t, i) = "[" /\ At(t, closing) = "]" /\ closing <= i + MAX_SUBSCRIPT_LENGTH
      THEN Trailers(t, closing + 1, closed)
      ELSE IF \E f \in DOMAIN Fragments : At(t, i) = Fragments[f] THEN Trailers(t, i + 1, closed)
      ELSE <<i, closed>>

\* Where the value of the key at key .. end - 1 starts and what introduces it:
\* at most one <<start, kind>>.
_locate_value(t, key, end) ==
  LET index == Trailers(t, end, FALSE)[1]
      closed == Trailers(t, end, FALSE)[2]
      after == SkipSpace(t, index)
      char == At(t, after)
      following == At(t, after + 1)
      value == Skip(t, after + 1, Blank)
  IN  CASE char = "=" -> {<<IF following = ">" THEN after + 2 ELSE after + 1, "=">>}
        [] char = ":" /\ following = "=" -> {<<after + 2, "=">>}
        [] char = ":" /\ following # "=" -> {<<after + 1, ":">>}
        [] char = ">" /\ after = index -> {<<after + 1, ">">>}
        [] char = "," /\ closed -> IF _opens_quote(t, value) THEN {<<value, "'">>} ELSE {}
        [] OTHER -> IF after = index \/ after > Len(t) THEN {}
                    ELSE IF _opens_quote(t, after) THEN {<<after, "'">>}
                    ELSE IF t[key] = "-" THEN {<<after, "=">>}
                    ELSE {}

\* A pair is [key, kind, header, line, query]: where its key starts and how its
\* value is read.  The span of the value that starts at i, and what replaces it.
PlainSpan(t, i, pair) ==
  LET quote == IF Prefixed(t, i) THEN i + 1 ELSE i
      closing == _closing_quote(t, quote, quote + 1, After(t))
      following == Skip(t, closing + 1, {" "})
      delimiters == {"end", "\n", ",", ")", "]", "}"} \cup IF pair.header THEN {} ELSE {";", "&"}
      end(from) == _unquoted_end(t, from, pair.line, pair.query)
  IN  IF i > Len(t) THEN <<i, i, <<>>>>
      ELSE IF quote > Len(t) THEN <<i, After(t), <<"!">>>>
      ELSE IF t[quote] \in Quotes
      THEN CASE closing = 0 -> <<quote, After(t), <<t[quote]>> \o REDACTED>>
             [] /\ closing > 0
                /\ At(t, following) \notin delimiters
                /\ following = closing + 1 \/ pair.line
                  -> <<quote, end(closing + 1), REDACTED>>
             [] OTHER -> <<quote, closing + 1, <<t[quote]>> \o REDACTED \o <<t[quote]>> >>
      ELSE IF t[i] = "\\" /\ At(t, Skip(t, i, {"\\"})) \in Quotes THEN <<i, After(t), REDACTED>>
      ELSE <<i, end(i), REDACTED>>

_value_span(t, start, pair) ==
  LET inline == Skip(t, start, Blank \ {"\n"})
      blanks == Skip(t, start, Blank)
      index == SkipSpace(t, start)
      closing == Seek(t, start, After(t), {"<"})
  IN  IF pair.kind = ">" THEN <<start, closing, REDACTED>>
      ELSE IF pair.kind = ":"
      THEN IF At(t, inline) = "\n"
           THEN _block_span(t, inline, pair.key) \o <<REDACTED>>
           ELSE PlainSpan(t, inline, pair)
      ELSE IF index = blanks THEN PlainSpan(t, index, pair)
      ELSE IF index > Len(t) THEN <<blanks, After(t), REDACTED>>
      ELSE <<blanks, Max({PlainSpan(t, index, pair)[2], index}), REDACTED>>

\* The value of the run at i .. j - 1 if it is a key that has one.
_pair_span(t, i, j) ==
  LET run == Slice(t, i, j)
      pair(kind) == [key |-> i, kind |-> kind, header |-> HeaderKey(run),
                     line |-> kind = ":" \/ (HeaderKey(run) /\ kind = "="),
                     query |-> kind = "=" /\ _in_query_string(t, i)]
  IN  IF ~_names_sensitive_data(run) THEN {}
      ELSE {_value_span(t, at[1], pair(at[2])) : at \in _locate_value(t, i, j)}

\* The runs that a search finds in i .. j - 1.
Runs(t, i, j) ==
  {<<a, Min({KeyRunEnd(t, a), j})>> :
     a \in {x \in i..(j - 1) : t[x] \in Word /\ (x = i \/ t[x - 1] \notin Word)}}

\* The keys inside a span that have a value, and those whose value reaches
\* beyond it, read from left to right.
Keys(t, i, j) == {run \in Runs(t, i, j) : _pair_span(t, run[1], run[2]) # {}}
Before(run, runs) == {other \in runs : other[1] < run[1]}
Reaching(t, i, j) ==
  {run \in Keys(t, i, j) : \E span \in _pair_span(t, run[1], run[2]) : span[2] > j}
_swallows_a_value(t, i, j) ==
  Reaching(t, i, j) # {} \/ Cardinality(Keys(t, i, j)) > MAX_SWALLOWED_KEYS
SwallowRaises(t, i, j) ==
  \E run \in Reaching(t, i, j) :
     /\ \E span \in _pair_span(t, run[1], run[2]) : span[3] = <<"!">>
     /\ Before(run, Reaching(t, i, j)) = {}
     /\ Cardinality(Before(run, Keys(t, i, j))) <= MAX_SWALLOWED_KEYS

\* Mask the value that follows every sensitive key, from i on.
RECURSIVE PairsFrom(_, _)
PairsFrom(t, i) ==
  LET at == Seek(t, i, After(t), Word)
      end == KeyRunEnd(t, at)
      spans == {span \in _pair_span(t, at, end) : span[2] > span[1]}
  IN  IF at > Len(t) THEN Slice(t, i, After(t))
      ELSE IF spans = {} THEN Slice(t, i, end) \o PairsFrom(t, end)
      ELSE LET span == CHOOSE x \in spans : TRUE
           IN IF span[2] <= Len(t) /\ _swallows_a_value(t, span[1], span[2])
              THEN Slice(t, i, span[1])
                     \o IF SwallowRaises(t, span[1], span[2]) THEN <<"!">> ELSE REDACTED
              ELSE Slice(t, i, span[1]) \o span[3] \o PairsFrom(t, span[2])

_scrub_pairs(t) == PairsFrom(t, 1)
=============================================================================
