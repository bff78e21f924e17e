------------------------------ MODULE TextRules ------------------------------
(***************************************************************************)
(* The text rules of redaction.py: bearer tokens, URLs, key/value pairs    *)
(* (TextPairs) and bare authorities, in the order in which they are        *)
(* applied.  Private keys, digests, JSON web tokens and entities are left  *)
(* out: no symbol of a text stands for them.                               *)
(***************************************************************************)
EXTENDS TextPairs

\* The tokens of a text and the blanks between them, in order.
Pieces(t) ==
  LET starts == {i \in 1..Len(t) : i = 1 \/ (t[i] \in Blank) # (t[i - 1] \in Blank)}
      from == [n \in 1..Cardinality(starts) |->
                 CHOOSE i \in starts : Cardinality({j \in starts : j <= i}) = n]
      until(n) == IF n = Len(from) THEN After(t) ELSE from[n + 1]
  IN  [n \in 1..Len(from) |-> Slice(t, from[n], until(n))]
IsToken(piece) == piece[1] \notin Blank
EachToken(t, Op(_)) ==
  LET pieces == Pieces(t)
  IN  FlattenSeq([n \in 1..Len(pieces) |-> IF IsToken(pieces[n]) THEN Op(pieces[n]) ELSE pieces[n]])

Holds(t, part) == \E i \in 1..Len(t) : i + Len(part) <= After(t) /\ Slice(t, i, i + Len(part)) = part
Scheme == <<":", "/", "/">>

\* The text with every span masked; spans that overlap or touch are one mask.
_replace_spans(t, spans) ==
  LET masked(i) == \E span \in spans : span[1] <= i /\ i < span[2]
  IN  FlattenSeq([i \in 1..Len(t) |-> IF ~masked(i) THEN <<t[i]>>
                                     ELSE IF i = 1 \/ ~masked(i - 1) THEN REDACTED ELSE <<>>])

\* A bearer credential: the next token, from i on.
RECURSIVE BearersFrom(_, _)
BearersFrom(t, i) ==
  LET token(b) == Skip(t, b + 1, Blank)
      bearers == {b \in i..Len(t) : /\ t[b] = "B"
                                    /\ b = 1 \/ t[b - 1] \notin Word \ {"-"}
                                    /\ b + 1 < token(b) /\ token(b) <= Len(t)}
      first == Min(bearers)
  IN  IF bearers = {} THEN Slice(t, i, After(t))
      ELSE Slice(t, i, first + 1) \o <<" ">> \o REDACTED
             \o BearersFrom(t, Seek(t, token(first), After(t), Blank))
_scrub_tokens(t) == BearersFrom(t, 1)

\* What may follow "host:" where no password does: ports, and more hosts.
Ports(s) ==
  LET comma(i) == SeekBack(s, 1, i, {","})
  IN  \A i \in 1..Len(s) :
        \/ s[i] \in {"9", ","}
        \/ s[i] # "@" /\ comma(i) >= 1 /\ Seek(s, comma(i), i, {":"}) = i

\* Where the credential of the URL whose authority starts at start ends.
_userinfo_end(t, start, cut) ==
  LET token == Seek(t, start, After(t), Blank)
      netloc == Seek(t, start, After(t), {"/", "?", "#"})
      at == SeekBack(t, start, netloc, {"@"})
      slash == Seek(t, start, After(t), {"/"})
      bracket == Seek(t, start, netloc, {"]"})
      host == IF At(t, start) = "[" /\ bracket < netloc THEN bracket + 1 ELSE start
      colon == Seek(t, host, slash, {":"})
      later == SeekBack(t, netloc, token, {"@"})
      authority == IF token < netloc THEN token ELSE netloc
  IN  IF at >= start THEN at
      ELSE IF colon >= slash THEN start
      ELSE IF \E i \in netloc..Len(t) : t[i] = "@"
      THEN IF later >= netloc THEN later ELSE Seek(t, token, After(t), {"@"})
      ELSE IF cut THEN After(t)
      ELSE IF colon < authority /\ Ports(Slice(t, colon + 1, authority)) THEN start
      ELSE authority

\* The segments of i .. j - 1 between delimiters that assign a value.
Parameters(t, i, j, delimiters) ==
  LET starts == {a \in i..(j - 1) : a = i \/ t[a - 1] \in delimiters}
      end(a) == Seek(t, a, j, delimiters)
      equals(a) == Seek(t, a, end(a), {"="})
  IN  {<<a, equals(a), end(a)>> : a \in {x \in starts : equals(x) < end(x)}}
Plus(key) == [i \in 1..Len(key) |-> IF key[i] = "+" THEN " " ELSE Unquoted(key[i])]
_is_sensitive_parameter(key) ==
  \E form \in {key, Plus(key)} : _names_sensitive_data(form) \/ form = <<"g">>
_is_signing_parameter(key) ==
  Slice(key, SeekBack(key, 1, After(key), ValueDelimiters) + 1, After(key)) = <<"g">>

\* Where the parameters of a signed URL end: at most one position.
_signed_url_end(t, from, region) ==
  LET all == Parameters(t, from, region, {"&", "#", "?"})
      last == CHOOSE p \in all : \A q \in all : q[1] <= p[1]
  IN  IF \E p \in all : _is_signing_parameter(Slice(t, p[1], p[2]))
      THEN {Seek(t, last[2] + 1, last[3], Blank)} ELSE {}

\* A signed URL without its scheme: the whole token.
_scrub_signed_references(t) ==
  LET Mask(token) ==
        LET question == Seek(token, 1, After(token), {"?"})
        IN  IF /\ question <= Len(token)
               /\ ~Holds(token, Scheme)
               /\ _signed_url_end(token, question + 1, After(token)) # {}
            THEN REDACTED ELSE token
  IN  EachToken(t, Mask)

SchemeCharacters == (Word \ {"_", "V", "%k", "%20", "%%k", "%s"}) \cup {"+"}

_scrub_urls(t, cut) ==
  LET markers == {i \in 1..(Len(t) - 2) : Slice(t, i, i + 3) = Scheme}
      userinfo(m) == <<m + 3, _userinfo_end(t, m + 3, cut)>>
      after(m) == Max({m + 3, userinfo(m)[2]})
      region(m) == Min({i \in markers : i > m} \cup {After(t)})
      query(m, j) == Seek(t, after(m), j, {"?", "#"})
      token(m) == Seek(t, m + 3, After(t), Blank)
      scheme(m) == Max({i \in 1..m : i = 1 \/ t[i - 1] \notin SchemeCharacters})
      signed(m) == IF query(m, region(m)) >= region(m) THEN {}
                   ELSE _signed_url_end(t, query(m, region(m)) + 1, region(m))
      queries == {m \in markers : query(m, After(t)) <= Len(t)}
      parameters == IF queries = {} THEN {}
                    ELSE Parameters(t, query(Min(queries), After(t)) + 1, After(t), {"&", "#"})
  IN  _replace_spans(t,
        {userinfo(m) : m \in markers}
        \cup {<<scheme(m), Max({end, Min({token(m), region(m)})})>> :
                <<m, end>> \in {<<m, e>> \in markers \X (1..After(t)) : e \in signed(m)}}
        \cup {<<p[2] + 1, Seek(t, p[2], After(t), {"&"})>> :
                p \in {q \in parameters : _is_sensitive_parameter(Slice(t, q[1], q[2]))}})

\* user:password@ without a scheme.
_scrub_bare_authorities(t) ==
  LET Letter(x) == x \in {"n", "b"}
      DrivePath(token) ==
        LET i == Skip(token, 1, Quotes \cup {"(", "["})
        IN  Letter(At(token, i)) /\ At(token, i + 1) = ":" /\ At(token, i + 2) \in {"\\", "/"}
      Mask(token) ==
        LET at == SeekBack(token, 1, After(token), {"@"})
            colon == Seek(token, 1, After(token), {":"})
            user == Slice(token, 1, at)
            one == Seek(token, colon + 1, at, {":"}) = at
        IN  IF \/ at <= 1
               \/ Holds(token, Scheme)
               \/ colon = 1 \/ colon >= at - 1
               \/ user = REDACTED
               \/ DrivePath(token) /\ one
            THEN token ELSE REDACTED \o Slice(token, at, After(token))
  IN  EachToken(t, Mask)

_scrub_free_text(t, cut) ==
  LET urls == _scrub_urls(_scrub_signed_references(_scrub_tokens(t)), cut)
  IN  _scrub_bare_authorities(_scrub_pairs(urls))
=============================================================================
