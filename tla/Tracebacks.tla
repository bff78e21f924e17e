----------------------------- MODULE Tracebacks -----------------------------
(***************************************************************************)
(* Tracebacks and stacks as redaction.py constructs them: from the         *)
(* metadata of frames and scrubbed messages, as one text that the          *)
(* sanitiser leaves as it is.                                              *)
(*                                                                         *)
(* An exception of the heap also has frames, outermost first, each         *)
(* [file, name] with file a value and name symbols, and its cause and      *)
(* context: sets of at most one exception, and whether the context is      *)
(* suppressed.                                                             *)
(***************************************************************************)
EXTENDS Redaction

CONSTANTS MAX_EXCEPTION_CHAIN, MAX_TRACEBACK_FRAMES, MAX_TRACEBACK_WALK, MAX_TRACEBACK_LINES,
          MAX_TRACEBACK_LENGTH, MAX_DESCRIPTION_LENGTH, MAX_FILENAME_LENGTH

Indent == <<" ", " ">>
UNSAFE_FILE == <<"<", "w", " ", "_", ">">>
LONG_FILE == <<"<", "w", " ", "w", ">">>
UNKNOWN_FILE == <<"<", "_", " ", "w", ">">>
UNKNOWN_NAME == <<"<", "_", ">">>
TRACEBACK_HEADER == <<"w", " ", "w", ":">>
STACK_HEADER == <<"_", " ", "w", ":">>
CAUSE_LINK == <<"w", " ", "_", ":">>
CONTEXT_LINK == <<"_", " ", "_", ":">>

\* The text if no rule changes it, else the other; RaisedText if a rule raised.
Kept(text, other, b) ==
  LET scrubbed == _scrub(text, b, 0)
  IN  Out(IF Raised(scrubbed.v) \/ scrubbed.v = text THEN scrubbed.v ELSE other, scrubbed.b)

_frame_filename(file, b) ==
  LET unprintable == {"\n", "em", "zw", "\""}
  IN  IF file.t # "text" THEN Out(UNKNOWN_FILE, b)
      ELSE IF Len(file.s) > MAX_FILENAME_LENGTH THEN Out(LONG_FILE, b)
      ELSE IF file.s = <<>> \/ Symbols(file.s) \cap unprintable # {} THEN Out(UNSAFE_FILE, b)
      ELSE Kept(file.s, UNSAFE_FILE, b)

NameCharacters == (Word \ {"-", "%k", "%20", "%%k", "%s"}) \cup {"<", ">"}
FrameText(file, name) ==
  Indent \o <<"w", " ", "\"">> \o file
    \o <<"\"", ",", " ", "w", " ", "9", ",", " ", "w", " ">> \o name

_frame_line(frame, b) ==
  LET file == _frame_filename(frame.file, b)
      fits == /\ frame.name # <<>> /\ frame.name[1] \notin {"9", ">"}
              /\ Symbols(frame.name) \subseteq NameCharacters
      line == FrameText(file.v, IF fits THEN frame.name ELSE UNKNOWN_NAME)
      stacked == line \o <<"\n">> \o line
      kept == Kept(stacked, <<>>, file.b)
  IN  IF Raised(file.v) THEN file
      ELSE IF Raised(kept.v) THEN kept
      ELSE Out(IF kept.v = stacked THEN line ELSE FrameText(UNSAFE_FILE, UNKNOWN_NAME), kept.b)

\* Each of the frames as a line, with the budget that is left.
FrameLines(frames, b) ==
  LET Line(lines, frame) == LET next == _frame_line(frame, lines.b)
                            IN  Out(Append(lines.v, next.v), next.b)
  IN  FoldLeft(Line, Out(<<>>, b), frames)
LastOf(s, n) == SubSeq(s, IF Len(s) > n THEN Len(s) - n + 1 ELSE 1, Len(s))

_traceback_frames(frames, b) ==
  LET walked == SubSeq(frames, 1, Least(MAX_TRACEBACK_WALK, Len(frames)))
      lines == FrameLines(LastOf(walked, MAX_TRACEBACK_FRAMES), b)
  IN  IF walked = frames THEN lines
      ELSE Out(Append(lines.v, Indent \o TRUNCATED), lines.b)

\* The exceptions of a traceback from the one raised back, each with the link
\* that leads to it.
RECURSIVE Chain(_, _, _, _)
Chain(name, link, seen, heap) ==
  LET e == heap.errors[name]
      older == IF e.cause # {} THEN e.cause ELSE IF e.suppress THEN {} ELSE e.context
      by == IF e.cause # {} THEN CAUSE_LINK ELSE CONTEXT_LINK
      rest == older \ (seen \cup {name})
  IN  <<<<name, link>>>> \o
        IF rest = {} \/ Cardinality(seen) + 1 >= MAX_EXCEPTION_CHAIN THEN <<>>
        ELSE Chain(CHOOSE x \in rest : TRUE, by, seen \cup {name}, heap)

\* A unit is a line, and what replaces it where its message is withheld.
Fixed(line) == [line |-> line, message |-> FALSE, withheld |-> line]
Withheld == TypeName \o <<":", " ">> \o REDACTED
Message(description) ==
  [line |-> IF Len(description) <= MAX_DESCRIPTION_LENGTH THEN description
            ELSE SubSeq(description, 1, MAX_DESCRIPTION_LENGTH) \o <<" ">> \o TRUNCATED,
   message |-> TRUE, withheld |-> Withheld]

\* The blocks of the chain from its n-th exception on, oldest first.
RECURSIVE UnitsFrom(_, _, _, _, _)
UnitsFrom(chain, n, b, lines, length) ==
  LET e == b.heap.errors[chain[n][1]]
      link == IF n = Len(chain) THEN <<>>
              ELSE <<Fixed(<<>>), Fixed(chain[n + 1][2]), Fixed(<<>>)>>
      frames == _traceback_frames(e.frames, b)
      trace == IF e.frames = <<>> THEN <<>>
               ELSE <<Fixed(TRACEBACK_HEADER)>> \o [i \in 1..Len(frames.v) |-> Fixed(frames.v[i])]
      described == _describe_exception(chain[n][1], frames.b)
      block == link \o trace \o <<Message(described.v)>>
      size == Len(Lines([i \in 1..Len(block) |-> block[i].line])) + 1
  IN  IF n > Len(chain) THEN <<>>
      ELSE IF (\E i \in 1..Len(frames.v) : Raised(frames.v[i])) \/ Raised(described.v)
      THEN <<Fixed(RaisedText)>>
      ELSE IF Len(block) > lines \/ size > length THEN <<Fixed(TRUNCATED)>>
      ELSE UnitsFrom(chain, n + 1, described.b, lines - Len(block), length - size) \o block

_traceback_units(name, heap) ==
  UnitsFrom(Chain(name, <<>>, {}, heap), 1, Budget(heap), MAX_TRACEBACK_LINES, MAX_TRACEBACK_LENGTH)

\* The forms of a traceback, each giving up a little more.
Candidates(units) ==
  LET masked(i) == units[i].message /\ (Holds(units[i].line, REDACTED)
                                   \/ Holds(units[i].line, TRUNCATED_SENSITIVE))
      Of(line(_)) == Lines([i \in 1..Len(units) |-> line(i)])
      Spaced(i) == units[i].line \o IF masked(i) /\ i < Len(units) THEN <<" ">> ELSE <<>>
      MaskedWithheld(i) == IF masked(i) THEN units[i].withheld ELSE units[i].line
      AsIs(i) == units[i].line
      AllWithheld(i) == units[i].withheld
  IN  <<Of(AsIs), Of(Spaced), Of(MaskedWithheld), Of(AllWithheld)>>

\* The first of the candidates that the sanitiser leaves as it is.
FirstAsItIs(candidates, heap) == Head(candidates)

RECURSIVE FirstUnchanged(_, _)
FirstUnchanged(candidates, heap) ==
  LET first == Head(candidates)
      fits == Len(first) <= MAX_STRING_LENGTH
      scrubbed == _scrub(first, Budget(heap), 0).v
  IN  IF candidates = <<>> THEN REDACTED
      ELSE IF fits /\ Raised(scrubbed) THEN UNREADABLE
      ELSE IF fits /\ scrubbed = first THEN first
      ELSE FirstUnchanged(Tail(candidates), heap)

traceback_text(name, heap) ==
  LET units == _traceback_units(name, heap)
  IN  IF \E i \in 1..Len(units) : Raised(units[i].line) THEN UNREADABLE
      ELSE FirstUnchanged(Candidates(units), heap)

\* frames from the innermost out.
stack_text(frames, heap) ==
  LET cut == Len(frames) > MAX_TRACEBACK_FRAMES
      lines == FrameLines(IF cut THEN SubSeq(frames, 1, MAX_TRACEBACK_FRAMES) ELSE frames,
                          Budget(heap)).v
      header == STACK_HEADER \o IF cut THEN <<" ">> \o TRUNCATED ELSE <<>>
  IN  IF \E i \in 1..Len(lines) : Raised(lines[i]) THEN UNREADABLE
      ELSE FirstUnchanged(<<Lines(Reverse(Append(lines, header)))>>, heap)
=============================================================================
