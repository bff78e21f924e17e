----------------------------- MODULE LogValues -----------------------------
(***************************************************************************)
(* The values of log events: what the logging pipeline and the sanitiser   *)
(* have in common.                                                         *)
(*                                                                         *)
(* A text is a sequence of symbols.  A value is a record with the field t: *)
(* "text" and its symbols s, "plain" (a number, a Boolean, None) and its   *)
(* rendered length n, "list" and "map" and their items; an item of a map   *)
(* is <<key, value>>.  Redaction has more of them.                         *)
(***************************************************************************)
EXTENDS Naturals, Sequences

CONSTANTS Names,                \* words that name nothing sensitive
          MAX_ITEMS, MAX_STRING_LENGTH

Symbols(t) == {t[i] : i \in 1..Len(t)}
Least(a, b) == IF a < b THEN a ELSE b

Text(s) == [t |-> "text", s |-> s]
Plain(n) == [t |-> "plain", n |-> n]
ListOf(items) == [t |-> "list", items |-> items]
MapOf(items) == [t |-> "map", items |-> items]
Raise == [t |-> "raise"]                        \* the code raised

MAX_EVENT_FIELDS == MAX_ITEMS
TRUNCATED == <<"[", "T", "]">>
Note == <<"_", " ", "_">>                       \* the text that says how much was left out
TypeName == <<"w">>                             \* the name of the class of an exception

HasKey(items, key) == \E i \in 1..Len(items) : items[i][1] = key
\* result[key] = value, for a dict that keeps the order of its keys.
Put(items, key, value) ==
  IF HasKey(items, key)
  THEN [i \in 1..Len(items) |-> IF items[i][1] = key THEN <<key, value>> ELSE items[i]]
  ELSE Append(items, <<key, value>>)
=============================================================================
