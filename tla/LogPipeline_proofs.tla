------------------------- MODULE LogPipeline_proofs -------------------------
(***************************************************************************)
(* Proofs about LogPipeline, in two parts.                                 *)
(*                                                                         *)
(* MetadataEstablished: the metadata of every line is the server's.  Its   *)
(* invariant says what a record in progress keeps of its thread's context  *)
(* (RecordIs).  Of the sanitiser it takes SanitizerSkips.                  *)
(*                                                                         *)
(* NoSecretIsWritten: no line and no event in progress shows a secret.     *)
(* Its invariant says of what fields a record in progress is made (Kept),  *)
(* and which events another handler may have changed (Guarded).  Of the    *)
(* callers and the redaction it takes Promised.                            *)
(*                                                                         *)
(* The pipeline's operators make sequences of sequences; here an event is  *)
(* seen as the set of its fields, and each operator has a lemma that says  *)
(* which fields it keeps (OnlyIs to UpdateIs, then SomeOf to UpdateOf).    *)
(***************************************************************************)
EXTENDS LogPipeline, NumberInduction

-----------------------------------------------------------------------------
(* Sequences, by the set of their elements                                 *)

\* What a sequence is.
LEMMA SequenceHas ==
  ASSUME NEW s, IsSequence(s)
  PROVE  /\ Len(s) \in Nat
         /\ DOMAIN s = 1..Len(s)
         /\ s = [i \in 1..Len(s) |-> s[i]]
         /\ ToSet(s) = {s[i] : i \in 1..Len(s)}
BY DEF IsSequence, ToSet

\* A function on 1..n is a sequence.
LEMMA FunctionIsSequence ==
  ASSUME NEW s, NEW n \in Nat, s = [i \in 1..n |-> s[i]]
  PROVE  IsSequence(s) /\ Len(s) = n
<1>1. DOMAIN s = 1..n
  OBVIOUS
<1>2. \A i \in 1..n : s[i] \in ToSet(s)
  BY <1>1 DEF ToSet
<1>3. s \in [1..n -> ToSet(s)]
  BY <1>1, <1>2
<1>4. s \in Seq(ToSet(s))
  BY <1>3
<1>. QED
  BY <1>4, <1>1 DEF IsSequence

\* Two sequences, one after the other.
LEMMA JoinedIs ==
  ASSUME NEW r, NEW s, IsSequence(r), IsSequence(s)
  PROVE  IsSequence(r \o s) /\ ToSet(r \o s) = ToSet(r) \cup ToSet(s)
<1>. DEFINE S == ToSet(r) \cup ToSet(s)
<1>1. r \in Seq(S) /\ s \in Seq(S)
  BY DEF IsSequence
<1>2. r \o s \in Seq(S) /\ Len(r \o s) = Len(r) + Len(s)
  BY <1>1
<1>3. \A i \in 1..(Len(r) + Len(s)) :
        (r \o s)[i] = IF i <= Len(r) THEN r[i] ELSE s[i - Len(r)]
  BY <1>1
<1>4. DOMAIN (r \o s) = 1..(Len(r) + Len(s))
  BY <1>2
<1>5. Len(r) \in Nat /\ Len(s) \in Nat
  BY SequenceHas
<1>6. ToSet(r \o s) \subseteq S
  BY <1>2, <1>4 DEF ToSet
<1>7. ASSUME NEW x \in ToSet(r) PROVE x \in ToSet(r \o s)
  <2>1. PICK i \in 1..Len(r) : x = r[i]
    BY SequenceHas
  <2>2. i \in 1..(Len(r) + Len(s)) /\ (r \o s)[i] = x
    BY <2>1, <1>3, <1>5
  <2>. QED
    BY <2>2, <1>4 DEF ToSet
<1>8. ASSUME NEW x \in ToSet(s) PROVE x \in ToSet(r \o s)
  <2>1. PICK i \in 1..Len(s) : x = s[i]
    BY SequenceHas
  <2>2. Len(r) + i \in 1..(Len(r) + Len(s)) /\ ~(Len(r) + i <= Len(r)) /\ Len(r) + i - Len(r) = i
    BY <1>5
  <2>3. (r \o s)[Len(r) + i] = x
    BY <2>1, <2>2, <1>3
  <2>. QED
    BY <2>2, <2>3, <1>4 DEF ToSet
<1>9. ToSet(r \o s) = S
  BY <1>6, <1>7, <1>8
<1>. QED
  BY <1>2, <1>9 DEF IsSequence

\* A sequence and one more element.
LEMMA AppendedIs ==
  ASSUME NEW s, IsSequence(s), NEW x
  PROVE  IsSequence(Append(s, x)) /\ ToSet(Append(s, x)) = ToSet(s) \cup {x}
<1>1. s \in Seq(ToSet(s) \cup {x})
  BY DEF IsSequence
<1>2. Append(s, x) = s \o <<x>> /\ IsSequence(<<x>>) /\ ToSet(<<x>>) = {x}
  BY <1>1 DEF IsSequence, ToSet
<1>. QED
  BY <1>2, JoinedIs

\* The empty sequence, and one of a single element.
LEMMA ShortIs == IsSequence(<<>>) /\ ToSet(<<>>) = {}
                   /\ \A x : IsSequence(<<x>>) /\ ToSet(<<x>>) = {x}
BY DEF IsSequence, ToSet

\* A sequence of two.
LEMMA PairIs ==
  ASSUME NEW x, NEW y
  PROVE  IsSequence(<<x, y>>) /\ ToSet(<<x, y>>) = {x, y}
<1>. DEFINE pair == <<x, y>>
<1>1. pair = [i \in 1..2 |-> pair[i]] /\ 1..2 = {1, 2} /\ pair[1] = x /\ pair[2] = y
  OBVIOUS
<1>. HIDE DEF pair
<1>2. IsSequence(pair) /\ Len(pair) = 2
  BY <1>1, FunctionIsSequence
<1>3. ToSet(pair) = {pair[i] : i \in {1, 2}}
  BY <1>1, <1>2, SequenceHas
<1>. QED
  BY <1>1, <1>2, <1>3 DEF pair

\* A sequence of five.
LEMMA FiveAre ==
  ASSUME NEW a, NEW b, NEW c, NEW d, NEW e
  PROVE  IsSequence(<<a, b, c, d, e>>) /\ ToSet(<<a, b, c, d, e>>) = {a, b, c, d, e}
<1>. DEFINE five == <<a, b, c, d, e>>
<1>1. /\ five = [i \in 1..5 |-> five[i]] /\ 1..5 = {1, 2, 3, 4, 5}
      /\ five[1] = a /\ five[2] = b /\ five[3] = c /\ five[4] = d /\ five[5] = e
  OBVIOUS
<1>. HIDE DEF five
<1>2. IsSequence(five) /\ Len(five) = 5
  BY <1>1, FunctionIsSequence
<1>3. ToSet(five) = {five[i] : i \in {1, 2, 3, 4, 5}}
  BY <1>1, <1>2, SequenceHas
<1>. QED
  BY <1>1, <1>2, <1>3 DEF five

\* The first elements of a sequence.
LEMMA BeginningIs ==
  ASSUME NEW s, IsSequence(s), NEW n \in Nat, n <= Len(s)
  PROVE  IsSequence(SubSeq(s, 1, n)) /\ ToSet(SubSeq(s, 1, n)) \subseteq ToSet(s)
<1>1. s \in Seq(ToSet(s)) /\ Len(s) \in Nat
  BY SequenceHas DEF IsSequence
<1>2. SubSeq(s, 1, n) \in Seq(ToSet(s)) /\ Len(SubSeq(s, 1, n)) = n
  BY <1>1
<1>3. DOMAIN SubSeq(s, 1, n) = 1..n
  BY <1>2
<1>4. SubSeq(s, 1, n) = [i \in 1..n |-> SubSeq(s, 1, n)[i]]
  BY <1>2, <1>3
<1>5. IsSequence(SubSeq(s, 1, n))
  BY <1>4, FunctionIsSequence
<1>6. \A i \in 1..n : SubSeq(s, 1, n)[i] \in ToSet(s)
  BY <1>2
<1>. QED
  BY <1>3, <1>5, <1>6 DEF ToSet

\* The parts of a sequence of sequences that f joins as FlattenSeq does.
Joins(f, s, n) == f = [i \in 1..n |-> IF i = 1 THEN s[i] ELSE f[i - 1] \o s[i]]

\* There is such a function for each length.
LEMMA JoinsExist ==
  ASSUME NEW s
  PROVE  \A n \in Nat : \E f : Joins(f, s, n)
<1>. DEFINE T == {n \in Nat : \E f : Joins(f, s, n)}
<1>1. 0 \in T
  <2>1. Joins(<<>>, s, 0)
    BY DEF Joins
  <2>. QED
    BY <2>1
<1>2. ASSUME NEW n \in Nat, n \in T PROVE n + 1 \in T
  <2>1. PICK f : Joins(f, s, n)
    BY <1>2
  <2>. DEFINE next == IF n = 0 THEN s[1] ELSE f[n] \o s[n + 1]
              g == [i \in 1..(n + 1) |-> IF i = n + 1 THEN next ELSE f[i]]
  <2>2. ASSUME NEW i \in 1..(n + 1)
        PROVE  g[i] = IF i = 1 THEN s[i] ELSE g[i - 1] \o s[i]
    <3>1. CASE i = n + 1
      <4>1. n # 0 => n \in 1..(n + 1) /\ n # n + 1 /\ i - 1 = n
        BY <3>1
      <4>2. n # 0 => g[i - 1] = f[n]
        BY <4>1
      <4>. QED
        BY <3>1, <4>2
    <3>2. CASE i # n + 1
      <4>1. i \in 1..n /\ (i # 1 => i - 1 \in 1..n /\ i - 1 # n + 1)
        BY <3>2
      <4>2. f[i] = IF i = 1 THEN s[i] ELSE f[i - 1] \o s[i]
        BY <2>1, <4>1 DEF Joins
      <4>3. g[i] = f[i] /\ (i # 1 => g[i - 1] = f[i - 1])
        BY <3>2, <4>1
      <4>. QED
        BY <4>2, <4>3
    <3>. QED
      BY <3>1, <3>2
  <2>3. Joins(g, s, n + 1)
    BY <2>2 DEF Joins
  <2>. QED
    BY <2>3
<1>. HIDE DEF T
<1>3. \A n \in Nat : n \in T
  BY <1>1, <1>2, Induction
<1>. QED
  BY <1>3 DEF T

\* Its value at i has the elements of the first i sequences.
LEMMA JoinsIs ==
  ASSUME NEW s, NEW n \in Nat, NEW f, Joins(f, s, n), \A i \in 1..n : IsSequence(s[i])
  PROVE  \A i \in 1..n : /\ IsSequence(f[i])
                         /\ ToSet(f[i]) = UNION {ToSet(s[j]) : j \in 1..i}
<1>. DEFINE Good(i) == /\ IsSequence(f[i])
                       /\ ToSet(f[i]) = UNION {ToSet(s[j]) : j \in 1..i}
            T == {i \in Nat : i \in 1..n => Good(i)}
<1>1. 0 \in T
  OBVIOUS
<1>2. ASSUME NEW i \in Nat, i \in T PROVE i + 1 \in T
  <2> SUFFICES ASSUME i + 1 \in 1..n PROVE Good(i + 1)
    OBVIOUS
  <2>1. f[i + 1] = IF i = 0 THEN s[1] ELSE f[i] \o s[i + 1]
    <3>1. \A k \in 1..n : f[k] = IF k = 1 THEN s[k] ELSE f[k - 1] \o s[k]
      BY Zenon DEF Joins
    <3>2. (i + 1) - 1 = i /\ (i + 1 = 1 <=> i = 0)
      OBVIOUS
    <3>. QED
      BY <3>1, <3>2
  <2>2. CASE i = 0
    <3>1. 1..(i + 1) = {1} /\ f[i + 1] = s[1] /\ IsSequence(s[1])
      BY <2>1, <2>2
    <3>2. UNION {ToSet(s[j]) : j \in {1}} = ToSet(s[1])
      OBVIOUS
    <3>. QED
      BY <2>2, <3>1, <3>2
  <2>3. CASE i # 0
    <3>1. i \in 1..n /\ Good(i)
      BY <1>2, <2>3
    <3>2. IsSequence(f[i]) /\ IsSequence(s[i + 1]) /\ f[i + 1] = f[i] \o s[i + 1]
      BY <2>1, <2>3, <3>1
    <3>3. IsSequence(f[i + 1]) /\ ToSet(f[i + 1]) = ToSet(f[i]) \cup ToSet(s[i + 1])
      BY <3>2, JoinedIs
    <3>4. 1..(i + 1) = 1..i \cup {i + 1}
      OBVIOUS
    <3>5. UNION {ToSet(s[j]) : j \in 1..i \cup {i + 1}}
            = (UNION {ToSet(s[j]) : j \in 1..i}) \cup ToSet(s[i + 1])
      OBVIOUS
    <3>. QED
      BY <3>1, <3>3, <3>4, <3>5
  <2>. QED
    BY <2>2, <2>3
<1>. HIDE DEF T
<1>3. \A i \in Nat : i \in T
  BY <1>1, <1>2, Induction
<1>. QED
  BY <1>3 DEF T

\* FlattenSeq: the elements of all of them.
LEMMA FlattenedIs ==
  ASSUME NEW s, IsSequence(s), \A i \in 1..Len(s) : IsSequence(s[i])
  PROVE  /\ IsSequence(FlattenSeq(s))
         /\ ToSet(FlattenSeq(s)) = UNION {ToSet(s[i]) : i \in 1..Len(s)}
<1>. DEFINE n == Len(s)
            flatten == CHOOSE f : Joins(f, s, n)
<1>1. n \in Nat
  BY SequenceHas
<1>2. CASE n = 0
  <2>1. FlattenSeq(s) = s
    BY <1>2 DEF FlattenSeq
  <2>2. ToSet(s) = {} /\ UNION {ToSet(s[i]) : i \in 1..n} = {}
    BY <1>2, SequenceHas
  <2>. QED
    BY <2>1, <2>2
<1>3. CASE n # 0
  <2>1. Joins(flatten, s, n)
    BY <1>1, JoinsExist
  <2>2. FlattenSeq(s) = flatten[n]
    BY <1>3 DEF FlattenSeq, Joins
  <2>3. n \in 1..n
    BY <1>1, <1>3
  <2>. HIDE DEF flatten
  <2>4. \A i \in 1..n : /\ IsSequence(flatten[i])
                        /\ ToSet(flatten[i]) = UNION {ToSet(s[j]) : j \in 1..i}
    BY <1>1, <2>1, JoinsIs
  <2>. QED
    BY <2>2, <2>3, <2>4
<1>. QED
  BY <1>2, <1>3

\* The elements picked are those at the places.
LEMMA PickedIs ==
  ASSUME NEW s, IsSequence(s), NEW places
  PROVE  /\ IsSequence(Picked(s, places))
         /\ ToSet(Picked(s, places)) = {s[i] : i \in places \cap 1..Len(s)}
<1>. DEFINE parts == [i \in 1..Len(s) |-> IF i \in places THEN <<s[i]>> ELSE <<>>]
<1>1. Len(s) \in Nat
  BY SequenceHas
<1>2. IsSequence(parts) /\ Len(parts) = Len(s)
  BY <1>1, FunctionIsSequence
<1>3. \A i \in 1..Len(s) : /\ IsSequence(parts[i])
                           /\ ToSet(parts[i]) = IF i \in places THEN {s[i]} ELSE {}
  BY ShortIs
<1>4. Picked(s, places) = FlattenSeq(parts)
  BY DEF Picked
<1>. HIDE DEF parts
<1>5. /\ IsSequence(FlattenSeq(parts))
      /\ ToSet(FlattenSeq(parts)) = UNION {ToSet(parts[i]) : i \in 1..Len(s)}
  BY <1>2, <1>3, FlattenedIs
<1>6. UNION {ToSet(parts[i]) : i \in 1..Len(s)} = {s[i] : i \in places \cap 1..Len(s)}
  BY <1>3
<1>. QED
  BY <1>4, <1>5, <1>6

-----------------------------------------------------------------------------
(* Events, by the set of their fields                                      *)

\* Every field of that name has the value, and there is one.
Bears(event, name, v) ==
  HasKey(event, name) /\ \A field \in ToSet(event) : field[1] = name => field[2] = v

\* The names of an event are those of its fields.
LEMMA NamesAre ==
  ASSUME NEW event, IsSequence(event)
  PROVE  /\ FieldNames(event) = {field[1] : field \in ToSet(event)}
         /\ \A name : HasKey(event, name) <=> \E field \in ToSet(event) : field[1] = name
         /\ \A name : HasKey(event, name) <=> name \in FieldNames(event)
BY SequenceHas DEF FieldNames, HasKey

\* The value of a field is that of one that has the name.
LEMMA FieldIs ==
  ASSUME NEW event, IsSequence(event), NEW name, HasKey(event, name)
  PROVE  \E field \in ToSet(event) : field[1] = name /\ field[2] = Field(event, name)
<1>. DEFINE at == CHOOSE i \in 1..Len(event) : event[i][1] = name
<1>1. at \in 1..Len(event) /\ event[at][1] = name
  BY DEF HasKey
<1>2. Field(event, name) = event[at][2]
  BY DEF Field
<1>. HIDE DEF at
<1>. QED
  BY <1>1, <1>2, SequenceHas

\* An event that bears a value says it.
LEMMA BearsSays ==
  ASSUME NEW event, IsSequence(event), NEW name, NEW v, Bears(event, name, v)
  PROVE  Field(event, name) = v /\ Says(event, name, v)
BY FieldIs DEF Bears, Says

\* Named is one to one.
LEMMA NamedApart == \A a, b : Named(a) = Named(b) <=> a = b
<1>1. \A a : Named(a).s[1] = a
  BY DEF Named, Text
<1>. QED
  BY <1>1

\* The fields of some names.
LEMMA OnlyIs ==
  ASSUME NEW event, IsSequence(event), NEW names
  PROVE  /\ IsSequence(Only(event, names))
         /\ ToSet(Only(event, names)) = {field \in ToSet(event) : field[1] \in names}
BY PickedIs, SequenceHas DEF Only

\* The fields of other names.
LEMMA WithoutIs ==
  ASSUME NEW event, IsSequence(event), NEW names
  PROVE  /\ IsSequence(Without(event, names))
         /\ ToSet(Without(event, names)) = {field \in ToSet(event) : field[1] \notin names}
BY PickedIs, SequenceHas DEF Without

\* A value put into an event is the one it bears, and nothing else is changed.
LEMMA PutIs ==
  ASSUME NEW event, IsSequence(event), NEW key, NEW value
  PROVE  /\ IsSequence(Put(event, key, value))
         /\ Bears(Put(event, key, value), key, value)
         /\ \A field : field[1] # key =>
              (field \in ToSet(Put(event, key, value)) <=> field \in ToSet(event))
<1>. DEFINE result == Put(event, key, value)
<1>1. CASE HasKey(event, key)
  <2>. DEFINE changed == [i \in 1..Len(event) |->
                            IF event[i][1] = key THEN <<key, value>> ELSE event[i]]
  <2>1. result = changed
    BY <1>1 DEF Put
  <2>2. Len(event) \in Nat /\ ToSet(event) = {event[i] : i \in 1..Len(event)}
    BY SequenceHas
  <2>3. IsSequence(changed) /\ Len(changed) = Len(event)
    BY <2>2, FunctionIsSequence
  <2>4. ToSet(changed) = {changed[i] : i \in 1..Len(event)}
    BY <2>3, SequenceHas
  <2>5. \A i \in 1..Len(event) : IF event[i][1] = key THEN changed[i] = <<key, value>>
                                 ELSE changed[i] = event[i]
    OBVIOUS
  <2>6. PICK k \in 1..Len(event) : event[k][1] = key
    BY <1>1 DEF HasKey
  <2>. HIDE DEF changed
  <2>7. <<key, value>>[1] = key /\ <<key, value>>[2] = value
    OBVIOUS
  <2>8. changed[k] = <<key, value>> /\ changed[k] \in ToSet(changed)
    BY <2>4, <2>5, <2>6
  <2>9. HasKey(changed, key)
    BY <2>3, <2>7, <2>8, NamesAre
  <2>10. ASSUME NEW field \in ToSet(changed), field[1] = key PROVE field[2] = value
    BY <2>4, <2>5, <2>7, <2>10
  <2>11. ASSUME NEW field, field[1] # key
         PROVE  field \in ToSet(changed) <=> field \in ToSet(event)
    BY <2>2, <2>4, <2>5, <2>7, <2>11
  <2>. QED
    BY <2>1, <2>3, <2>9, <2>10, <2>11 DEF Bears
<1>2. CASE ~HasKey(event, key)
  <2>1. result = Append(event, <<key, value>>)
    BY <1>2 DEF Put
  <2>2. IsSequence(result) /\ ToSet(result) = ToSet(event) \cup {<<key, value>>}
    BY <2>1, AppendedIs
  <2>3. <<key, value>>[1] = key /\ <<key, value>>[2] = value
    OBVIOUS
  <2>4. \A field \in ToSet(event) : field[1] # key
    BY <1>2, NamesAre
  <2>. HIDE DEF result
  <2>5. Bears(result, key, value)
    BY <2>2, <2>3, <2>4, NamesAre DEF Bears
  <2>6. \A field : field[1] # key => (field \in ToSet(result) <=> field \in ToSet(event))
    BY <2>2, <2>3
  <2>. QED
    BY <2>2, <2>5, <2>6 DEF result
<1>. QED
  BY <1>1, <1>2

\* A value that is only put where there is none: an event keeps its fields.
LEMMA SetDefaultIs ==
  ASSUME NEW event, IsSequence(event), NEW key, NEW value
  PROVE  /\ IsSequence(SetDefault(event, key, value))
         /\ ToSet(event) \subseteq ToSet(SetDefault(event, key, value))
         /\ ToSet(SetDefault(event, key, value)) \subseteq ToSet(event) \cup {<<key, value>>}
BY AppendedIs DEF SetDefault

\* An event completed by another keeps its own fields.
LEMMA CompletedIs ==
  ASSUME NEW event, IsSequence(event), NEW more, IsSequence(more)
  PROVE  /\ IsSequence(Completed(event, more))
         /\ ToSet(Completed(event, more)) =
              ToSet(event) \cup {field \in ToSet(more) : ~HasKey(event, field[1])}
<1>1. /\ IsSequence(Without(more, FieldNames(event)))
      /\ ToSet(Without(more, FieldNames(event))) =
           {field \in ToSet(more) : field[1] \notin FieldNames(event)}
  BY WithoutIs
<1>2. \A name : HasKey(event, name) <=> name \in FieldNames(event)
  BY NamesAre
<1>3. /\ IsSequence(Completed(event, more))
      /\ ToSet(Completed(event, more)) =
           ToSet(event) \cup ToSet(Without(more, FieldNames(event)))
  BY <1>1, JoinedIs DEF Completed
<1>. QED
  BY <1>1, <1>2, <1>3

\* An event updated by another has the names of both, and the other's values.
LEMMA UpdateIs ==
  ASSUME NEW event, IsSequence(event), NEW more, IsSequence(more)
  PROVE  /\ IsSequence(Update(event, more))
         /\ \A field \in ToSet(Update(event, more)) :
              \/ field \in ToSet(event) /\ ~HasKey(more, field[1])
              \/ /\ HasKey(event, field[1]) /\ HasKey(more, field[1])
                 /\ field[2] = Field(more, field[1])
              \/ field \in ToSet(more) /\ ~HasKey(event, field[1])
         /\ \A field \in ToSet(event) :
              ~HasKey(more, field[1]) => field \in ToSet(Update(event, more))
         /\ \A name : HasKey(Update(event, more), name) <=>
                        HasKey(event, name) \/ HasKey(more, name)
<1>. DEFINE old == [i \in 1..Len(event) |-> IF HasKey(more, event[i][1])
                       THEN <<event[i][1], Field(more, event[i][1])>> ELSE event[i]]
            new == Without(more, FieldNames(event))
            Overridden(f) == <<f[1], Field(more, f[1])>>
<1>1. Len(event) \in Nat /\ ToSet(event) = {event[i] : i \in 1..Len(event)}
  BY SequenceHas
<1>2. IsSequence(old) /\ Len(old) = Len(event)
  BY <1>1, FunctionIsSequence
<1>3. ToSet(old) = {old[i] : i \in 1..Len(event)}
  BY <1>2, SequenceHas
<1>4. ToSet(old) = {IF HasKey(more, f[1]) THEN Overridden(f) ELSE f : f \in ToSet(event)}
  BY <1>1, <1>3
<1>5. \A f : Overridden(f)[1] = f[1] /\ Overridden(f)[2] = Field(more, f[1])
  OBVIOUS
<1>6. /\ IsSequence(new)
      /\ ToSet(new) = {f \in ToSet(more) : ~HasKey(event, f[1])}
  BY WithoutIs, NamesAre
<1>7. Update(event, more) = old \o new
  BY DEF Update
<1>. HIDE DEF old, new, Overridden
<1>8. IsSequence(Update(event, more)) /\ ToSet(Update(event, more)) = ToSet(old) \cup ToSet(new)
  BY <1>2, <1>6, <1>7, JoinedIs
<1>9. ASSUME NEW f \in ToSet(Update(event, more))
      PROVE  \/ f \in ToSet(event) /\ ~HasKey(more, f[1])
             \/ HasKey(event, f[1]) /\ HasKey(more, f[1]) /\ f[2] = Field(more, f[1])
             \/ f \in ToSet(more) /\ ~HasKey(event, f[1])
  <2>1. CASE f \in ToSet(new)
    BY <1>6, <2>1
  <2>2. CASE f \in ToSet(old)
    <3>1. PICK g \in ToSet(event) : f = IF HasKey(more, g[1]) THEN Overridden(g) ELSE g
      BY <1>4, <2>2
    <3>2. HasKey(event, g[1])
      BY NamesAre
    <3>. QED
      BY <1>5, <3>1, <3>2
  <2>. QED
    BY <1>8, <2>1, <2>2
<1>10. ASSUME NEW f \in ToSet(event), ~HasKey(more, f[1])
       PROVE  f \in ToSet(Update(event, more))
  BY <1>4, <1>8, <1>10
<1>11. ASSUME NEW name
       PROVE  HasKey(Update(event, more), name) <=> HasKey(event, name) \/ HasKey(more, name)
  <2>1. HasKey(Update(event, more), name) <=>
          \E f \in ToSet(old) \cup ToSet(new) : f[1] = name
    BY <1>8, NamesAre
  <2>2. (\E f \in ToSet(old) : f[1] = name) <=> HasKey(event, name)
    BY <1>4, <1>5, NamesAre
  <2>3. (\E f \in ToSet(new) : f[1] = name) <=> HasKey(more, name) /\ ~HasKey(event, name)
    BY <1>6, NamesAre
  <2>. QED
    BY <2>1, <2>2, <2>3
<1>. QED
  BY <1>8, <1>9, <1>10, <1>11

-----------------------------------------------------------------------------
(* The metadata of an event                                                *)

Metadata == ToSet(IdentityNames)
RequestId == Named("request_id")

\* The six names, each once.
LEMMA MetadataIs ==
  /\ IsSequence(IdentityNames) /\ Len(IdentityNames) = 6
  /\ Metadata = {"timestamp", "level", "logger", "service", "environment", "request_id"}
  /\ Identifiers = {Named(n) : n \in Metadata}
<1>1. Len(IdentityNames) = 6 /\ IdentityNames = [i \in 1..6 |-> IdentityNames[i]]
  BY DEF IdentityNames
<1>2. DOMAIN IdentityNames = 1..6 /\ 1..6 = {1, 2, 3, 4, 5, 6}
  BY <1>1
<1>3. ToSet(IdentityNames) = {IdentityNames[i] : i \in {1, 2, 3, 4, 5, 6}}
  BY <1>2 DEF ToSet
<1>4. {IdentityNames[i] : i \in {1, 2, 3, 4, 5, 6}}
        = {"timestamp", "level", "logger", "service", "environment", "request_id"}
  BY DEF IdentityNames
<1>5. IsSequence(IdentityNames)
  BY <1>1, FunctionIsSequence
<1>. QED
  BY <1>1, <1>3, <1>4, <1>5 DEF Metadata, Identifiers

\* Other names the pipeline writes are no metadata.
LEMMA OtherNames ==
  ASSUME NEW n \in Metadata
  PROVE  /\ Named(n) # Named("event") /\ Named(n) # Named("error_type")
         /\ Named(n) # Text(TRUNCATED) /\ Named(n) # RESERVED
         /\ Named(n) \notin PROCESSOR_META_KEYS /\ Named(n) \in NOT_PAYLOAD
         /\ Named(n) # Named("exception") /\ Named(n) # Named("stack")
         /\ Named(n) # Named("exc_info") /\ Named(n) # Named("stack_info")
<1>1. Len(Named(n).s) = 1 /\ Len(Text(TRUNCATED).s) = 3 /\ Len(RESERVED.s) = 3
  BY DEF Named, Text, TRUNCATED, RESERVED
<1>2. Named(n) # Text(TRUNCATED) /\ Named(n) # RESERVED
  BY <1>1
<1>3. /\ Named(n) # Named("event") /\ Named(n) # Named("error_type")
      /\ Named(n) # Named("_record") /\ Named(n) # Named("_from_structlog")
      /\ Named(n) # Named("exception") /\ Named(n) # Named("stack")
      /\ Named(n) # Named("exc_info") /\ Named(n) # Named("stack_info")
  BY MetadataIs, NamedApart
<1>4. Named(n) \in NOT_PAYLOAD
  BY MetadataIs DEF NOT_PAYLOAD
<1>. QED
  BY <1>2, <1>3, <1>4 DEF PROCESSOR_META_KEYS

\* An identifier that was accepted, or replaced, is accepted or replaced again
\* by itself.
LEMMA TrustedAgain ==
  ASSUME NEW v, NEW fallback
  PROVE  trusted_identifier(trusted_identifier(v, fallback), fallback)
           = trusted_identifier(v, fallback)
BY DEF trusted_identifier

\* The field of a metadata name: its name, its value, and that it stays when taken again.
LEMMA IdentifierIs ==
  ASSUME NEW n, NEW v
  PROVE  /\ Identifier(n, v)[1] = Named(n)
         /\ Identifier(n, v)[2] = trusted_identifier(v, IDENTITY_FALLBACKS[n])
         /\ Identifier(n, Identifier(n, v)[2]) = Identifier(n, v)
BY TrustedAgain DEF Identifier

\* The metadata in the order of the names.
LEMMA OrderedIs ==
  ASSUME NEW event, IsSequence(event)
  PROVE  /\ IsSequence(Ordered(event))
         /\ ToSet(Ordered(event)) = {<<Named(n), Field(event, Named(n))>> :
                                       n \in {m \in Metadata : HasKey(event, Named(m))}}
<1>. DEFINE places == {i \in 1..Len(IdentityNames) : HasKey(event, Named(IdentityNames[i]))}
            names == Picked(IdentityNames, places)
            result == [i \in 1..Len(names) |-> <<Named(names[i]), Field(event, Named(names[i]))>>]
<1>1. /\ IsSequence(names)
      /\ ToSet(names) = {IdentityNames[i] : i \in places \cap 1..Len(IdentityNames)}
  BY MetadataIs, PickedIs
<1>2. Metadata = {IdentityNames[i] : i \in 1..Len(IdentityNames)}
  BY MetadataIs, SequenceHas DEF Metadata
<1>3. ToSet(names) = {m \in Metadata : HasKey(event, Named(m))}
  BY <1>1, <1>2
<1>4. Len(names) \in Nat /\ ToSet(names) = {names[i] : i \in 1..Len(names)}
  BY <1>1, SequenceHas
<1>5. Ordered(event) = result
  BY DEF Ordered
<1>. HIDE DEF names, places
<1>6. IsSequence(result) /\ Len(result) = Len(names)
  BY <1>4, FunctionIsSequence
<1>7. ToSet(result) = {result[i] : i \in 1..Len(names)}
  BY <1>6, SequenceHas
<1>8. ToSet(result) = {<<Named(n), Field(event, Named(n))>> : n \in ToSet(names)}
  BY <1>4, <1>7
<1>. QED
  BY <1>3, <1>5, <1>6, <1>8

\* It has the names of the event that are metadata, with what the event bears.
LEMMA OrderedBears ==
  ASSUME NEW event, IsSequence(event), NEW n \in Metadata
  PROVE  /\ HasKey(Ordered(event), Named(n)) <=> HasKey(event, Named(n))
         /\ \A v : Bears(event, Named(n), v) => Bears(Ordered(event), Named(n), v)
<1>. DEFINE F(m) == <<Named(m), Field(event, Named(m))>>
            present == {m \in Metadata : HasKey(event, Named(m))}
<1>1. IsSequence(Ordered(event)) /\ ToSet(Ordered(event)) = {F(m) : m \in present}
  BY OrderedIs
<1>2. \A m : F(m)[1] = Named(m) /\ F(m)[2] = Field(event, Named(m))
  OBVIOUS
<1>. HIDE DEF F
<1>3. HasKey(Ordered(event), Named(n)) <=> \E m \in present : Named(m) = Named(n)
  BY <1>1, <1>2, NamesAre
<1>4. HasKey(Ordered(event), Named(n)) <=> HasKey(event, Named(n))
  BY <1>3, NamedApart
<1>5. ASSUME NEW v, Bears(event, Named(n), v) PROVE Bears(Ordered(event), Named(n), v)
  <2>1. Field(event, Named(n)) = v /\ HasKey(event, Named(n))
    BY <1>5, BearsSays DEF Bears
  <2>2. ASSUME NEW field \in ToSet(Ordered(event)), field[1] = Named(n) PROVE field[2] = v
    BY <1>1, <1>2, <2>1, <2>2, NamedApart
  <2>. QED
    BY <1>4, <2>1, <2>2 DEF Bears
<1>. QED
  BY <1>4, <1>5

\* The identifiers of an event that are emitted: an identifier stays.
LEMMA IdentityBears ==
  ASSUME NEW event, IsSequence(event), NEW n \in Metadata
  PROVE  /\ IsSequence(_identity(event))
         /\ HasKey(_identity(event), Named(n)) <=> HasKey(event, Named(n))
         /\ \A v : Bears(event, Named(n), Identifier(n, v)[2])
                     => Bears(_identity(event), Named(n), Identifier(n, v)[2])
<1>. DEFINE own == Only(event, Identifiers)
            present == Ordered(own)
            F(field) == Identifier(Head(field[1].s), field[2])
            result == [i \in 1..Len(present) |-> F(present[i])]
<1>1. IsSequence(own) /\ ToSet(own) = {field \in ToSet(event) : field[1] \in Identifiers}
  BY OnlyIs
<1>2. Named(n) \in Identifiers
  BY MetadataIs
<1>3. HasKey(own, Named(n)) <=> HasKey(event, Named(n))
  BY <1>1, <1>2, NamesAre
<1>4. \A v : Bears(event, Named(n), v) => Bears(own, Named(n), v)
  BY <1>1, <1>3 DEF Bears
<1>. HIDE DEF own
<1>5. /\ IsSequence(present)
      /\ HasKey(present, Named(n)) <=> HasKey(event, Named(n))
      /\ \A v : Bears(event, Named(n), v) => Bears(present, Named(n), v)
  BY <1>1, <1>3, <1>4, OrderedIs, OrderedBears
<1>6. \A field \in ToSet(present) : \E m : field[1] = Named(m)
  BY <1>1, OrderedIs
<1>7. _identity(event) = result
  BY DEF _identity, own
<1>8. Len(present) \in Nat /\ ToSet(present) = {present[i] : i \in 1..Len(present)}
  BY <1>5, SequenceHas
<1>. HIDE DEF present
<1>9. IsSequence(result) /\ Len(result) = Len(present)
  BY <1>8, FunctionIsSequence
<1>10. ToSet(result) = {result[i] : i \in 1..Len(present)}
  BY <1>9, SequenceHas
<1>11. ToSet(result) = {F(field) : field \in ToSet(present)}
  BY <1>8, <1>10
<1>12. \A m : Head(Named(m).s) = m
  BY DEF Named, Text
<1>13. ASSUME NEW field \in ToSet(present), NEW m, field[1] = Named(m)
       PROVE  F(field) = Identifier(m, field[2])
  BY <1>12, <1>13
<1>. HIDE DEF result, F
<1>14. \A field \in ToSet(present) : F(field)[1] = field[1]
  BY <1>6, <1>13, IdentifierIs
<1>15. HasKey(result, Named(n)) <=> HasKey(present, Named(n))
  BY <1>5, <1>9, <1>11, <1>14, NamesAre
<1>16. ASSUME NEW v, Bears(event, Named(n), Identifier(n, v)[2])
       PROVE  Bears(result, Named(n), Identifier(n, v)[2])
  <2>1. Bears(present, Named(n), Identifier(n, v)[2])
    BY <1>5, <1>16
  <2>2. ASSUME NEW field \in ToSet(result), field[1] = Named(n)
        PROVE  field[2] = Identifier(n, v)[2]
    <3>1. PICK f \in ToSet(present) : field = F(f)
      BY <1>11
    <3>2. f[1] = Named(n) /\ f[2] = Identifier(n, v)[2]
      BY <1>14, <2>1, <2>2, <3>1 DEF Bears
    <3>3. field = Identifier(n, Identifier(n, v)[2])
      BY <1>13, <3>1, <3>2
    <3>. QED
      BY <3>3, IdentifierIs
  <2>. QED
    BY <1>15, <2>1, <2>2 DEF Bears
<1>. QED
  BY <1>5, <1>7, <1>9, <1>15, <1>16

\* Two events with the same fields of a name.
LEMMA SameFields ==
  ASSUME NEW d, IsSequence(d), NEW e, IsSequence(e), NEW name,
         \A field : field[1] = name => (field \in ToSet(d) <=> field \in ToSet(e))
  PROVE  /\ HasKey(d, name) <=> HasKey(e, name)
         /\ \A v : Bears(d, name, v) <=> Bears(e, name, v)
BY NamesAre DEF Bears

\* An event updated with one field.
LEMMA UpdateOneIs ==
  ASSUME NEW event, IsSequence(event), NEW key, NEW value
  PROVE  /\ IsSequence(Update(event, <<<<key, value>>>>))
         /\ Bears(Update(event, <<<<key, value>>>>), key, value)
         /\ \A name : name # key =>
              /\ HasKey(Update(event, <<<<key, value>>>>), name) <=> HasKey(event, name)
              /\ \A v : Bears(event, name, v) => Bears(Update(event, <<<<key, value>>>>), name, v)
<1>. DEFINE more == <<<<key, value>>>>
            result == Update(event, more)
<1>1. IsSequence(more) /\ ToSet(more) = {<<key, value>>}
  BY ShortIs
<1>2. <<key, value>>[1] = key /\ <<key, value>>[2] = value
  OBVIOUS
<1>. HIDE DEF more
<1>3. \A name : HasKey(more, name) <=> name = key
  BY <1>1, <1>2, NamesAre
<1>4. Field(more, key) = value
  <2>1. Bears(more, key, value)
    BY <1>1, <1>2, <1>3 DEF Bears
  <2>. QED
    BY <1>1, <2>1, BearsSays
<1>5. /\ IsSequence(result)
      /\ \A field \in ToSet(result) :
           \/ field \in ToSet(event) /\ ~HasKey(more, field[1])
           \/ HasKey(event, field[1]) /\ HasKey(more, field[1]) /\ field[2] = Field(more, field[1])
           \/ field \in ToSet(more) /\ ~HasKey(event, field[1])
      /\ \A field \in ToSet(event) : ~HasKey(more, field[1]) => field \in ToSet(result)
      /\ \A name : HasKey(result, name) <=> HasKey(event, name) \/ HasKey(more, name)
  BY <1>1, UpdateIs
<1>. HIDE DEF result
<1>6. Bears(result, key, value)
  <2>1. ASSUME NEW field \in ToSet(result), field[1] = key PROVE field[2] = value
    BY <1>1, <1>2, <1>3, <1>4, <1>5, <2>1
  <2>. QED
    BY <1>3, <1>5, <2>1 DEF Bears
<1>7. ASSUME NEW name, name # key
      PROVE  /\ HasKey(result, name) <=> HasKey(event, name)
             /\ \A v : Bears(event, name, v) => Bears(result, name, v)
  <2>1. ASSUME NEW field, field[1] = name
        PROVE  field \in ToSet(event) <=> field \in ToSet(result)
    BY <1>1, <1>2, <1>3, <1>5, <1>7, <2>1
  <2>. QED
    BY <1>5, <2>1, SameFields
<1>. QED
  BY <1>5, <1>6, <1>7 DEF result, more

\* What the process itself says of a record: never a request id.
LEMMA OwnIs ==
  ASSUME NEW logger, NEW level, NEW time, NEW config
  PROVE  LET own == _establish_identity(logger, level, time, config)
         IN  /\ IsSequence(own)
             /\ ~HasKey(own, RequestId)
             /\ \A i \in 1..Len(own) : \E n \in Metadata \ {"request_id"} : \E v :
                  own[i] = Identifier(n, v) /\ Bears(own, Named(n), Identifier(n, v)[2])
<1>. DEFINE value == [timestamp |-> Named(time), level |-> level, logger |-> logger,
                      service |-> config.service, environment |-> config.environment]
            I(n) == Identifier(n, value[n])
            own == _establish_identity(logger, level, time, config)
<1>1. own = <<I("timestamp"), I("level"), I("logger"), I("service"), I("environment")>>
  BY DEF _establish_identity
<1>2. \A n : I(n)[1] = Named(n)
  BY IdentifierIs
<1>. HIDE DEF I, value
<1>. HIDE DEF own
<1>4. /\ IsSequence(own)
      /\ ToSet(own) = {I("timestamp"), I("level"), I("logger"), I("service"), I("environment")}
  BY <1>1, FiveAre
<1>. DEFINE Mine == {"timestamp", "level", "logger", "service", "environment"}
<1>5. ToSet(own) = {I(n) : n \in Mine}
  BY <1>4
<1>6. Mine = Metadata \ {"request_id"}
  BY MetadataIs
<1>. HIDE DEF Mine
<1>7. ~HasKey(own, RequestId)
  BY <1>2, <1>4, <1>5, <1>6, NamesAre, NamedApart DEF RequestId
<1>8. ASSUME NEW i \in 1..Len(own)
      PROVE  \E n \in Metadata \ {"request_id"} : \E v :
               own[i] = Identifier(n, v) /\ Bears(own, Named(n), Identifier(n, v)[2])
  <2>1. own[i] \in ToSet(own)
    BY <1>4, SequenceHas
  <2>2. PICK n \in Mine : own[i] = I(n)
    BY <1>5, <2>1
  <2>3. HasKey(own, Named(n))
    BY <1>2, <1>4, <2>1, <2>2, NamesAre
  <2>4. \A field \in ToSet(own) : field[1] = Named(n) => field = I(n)
    BY <1>2, <1>5, NamedApart
  <2>5. Bears(own, Named(n), I(n)[2])
    BY <2>3, <2>4 DEF Bears
  <2>. QED
    BY <1>6, <2>2, <2>5 DEF I
<1>. QED
  BY <1>4, <1>7, <1>8 DEF own

\* At most one request id is served in a thread.
OneRequest(t) == request[t] = {} \/ \E id : request[t] = {id}

\* The request id that is established, and what else is known stays.
LEMMA RequestIdIs ==
  ASSUME NEW identity, IsSequence(identity), NEW event, IsSequence(event), NEW t, OneRequest(t)
  PROVE  LET known == _establish_request_id(identity, event, t)
         IN  /\ IsSequence(known)
             /\ \A n \in Metadata \ {"request_id"} : \A v :
                  Bears(identity, Named(n), v) => Bears(known, Named(n), v)
             /\ \A id : request[t] = {id}
                         => Bears(known, RequestId, Identifier("request_id", id)[2])
             /\ \A v : request[t] = {} /\ Bears(event, RequestId, v)
                         => Bears(known, RequestId, Identifier("request_id", v)[2])
             /\ request[t] = {} /\ ~HasKey(event, RequestId) => known = identity
<1>. DEFINE bound == {Field(event, n) : n \in FieldNames(event) \cap {RequestId}}
            ids == IF request[t] # {} THEN request[t] ELSE bound
            id == CHOOSE x \in ids : TRUE
            value == Identifier("request_id", id)[2]
            known == _establish_request_id(identity, event, t)
<1>1. known = IF ids = {} THEN identity ELSE Update(identity, <<Identifier("request_id", id)>>)
  BY DEF _establish_request_id, RequestId
<1>2. Identifier("request_id", id) = <<RequestId, value>>
  BY DEF Identifier, RequestId
<1>3. bound = IF HasKey(event, RequestId) THEN {Field(event, RequestId)} ELSE {}
  BY NamesAre
<1>4. \A x : ids = {x} => id = x
  OBVIOUS
<1>5. \A n \in Metadata \ {"request_id"} : Named(n) # RequestId
  BY NamedApart DEF RequestId
<1>. HIDE DEF known, bound, id, value
<1>6. CASE ids = {}
  <2>1. known = identity /\ request[t] = {}
    BY <1>1, <1>6
  <2>2. ~HasKey(event, RequestId)
    BY <1>3, <1>6
  <2>3. \A v : ~Bears(event, RequestId, v)
    BY <2>2 DEF Bears
  <2>4. \A x : request[t] # {x}
    BY <2>1
  <2>. QED
    BY <2>1, <2>2, <2>3, <2>4 DEF known
<1>7. CASE ids # {}
  <2>1. known = Update(identity, <<<<RequestId, value>>>>)
    BY <1>1, <1>2, <1>7
  <2>2. /\ IsSequence(known) /\ Bears(known, RequestId, value)
        /\ \A n \in Metadata \ {"request_id"} : \A v :
             Bears(identity, Named(n), v) => Bears(known, Named(n), v)
    BY <1>5, <2>1, UpdateOneIs
  <2>3. ASSUME NEW x, request[t] = {x}
        PROVE  Bears(known, RequestId, Identifier("request_id", x)[2])
    <3>1. id = x
      BY <1>4, <2>3
    <3>. QED
      BY <2>2, <3>1 DEF value
  <2>4. ASSUME NEW v, request[t] = {}, Bears(event, RequestId, v)
        PROVE  Bears(known, RequestId, Identifier("request_id", v)[2])
    <3>1. HasKey(event, RequestId) /\ Field(event, RequestId) = v
      BY <2>4, BearsSays DEF Bears
    <3>2. ids = {v}
      BY <1>3, <2>4, <3>1
    <3>. QED
      BY <1>4, <2>2, <3>2 DEF value
  <2>5. request[t] = {} => HasKey(event, RequestId)
    BY <1>3, <1>7
  <2>. QED
    BY <2>2, <2>3, <2>4, <2>5 DEF known
<1>. QED
  BY <1>6, <1>7

-----------------------------------------------------------------------------
(* The context                                                             *)

\* The ids that are bound to the context of a thread.
BoundIds(t) == {_context_request_id(t)[i].value : i \in 1..Len(_context_request_id(t))}

\* There is at most one.
LEMMA ContextIdIs ==
  ASSUME situation \in 1..Len(Situations), NEW t \in Threads
  PROVE  /\ IsSequence(The.context[t]) /\ IsSequence(_context_request_id(t))
         /\ _context_request_id(t) = <<>> => BoundIds(t) = {}
         /\ _context_request_id(t) # <<>> => BoundIds(t) = {_context_request_id(t)[1].value}
<1>. DEFINE variables == The.context[t]
            bound == Bound(t)
            ids == _context_request_id(t)
<1>1. /\ IsSequence(variables)
      /\ \A i, j \in 1..Len(variables) :
           variables[i].ours /\ variables[j].ours /\ variables[i].name = variables[j].name => i = j
  BY SituationsAssumption DEF The, Threads
<1>2. /\ IsSequence(bound)
      /\ ToSet(bound) = {variables[i] : i \in {k \in 1..Len(variables) :
                           variables[k].ours /\ variables[k].bound} \cap 1..Len(variables)}
  BY <1>1, PickedIs DEF Bound
<1>. HIDE DEF bound
<1>3. /\ IsSequence(ids)
      /\ ToSet(ids) = {bound[i] : i \in {k \in 1..Len(bound) : bound[k].name = RequestId}
                                            \cap 1..Len(bound)}
  BY <1>2, PickedIs DEF _context_request_id, RequestId, bound
<1>. HIDE DEF ids
<1>4. ASSUME NEW v \in ToSet(ids) PROVE \E i \in 1..Len(variables) :
        v = variables[i] /\ variables[i].ours /\ variables[i].name = RequestId
  <2>1. v \in ToSet(bound) /\ v.name = RequestId
    BY <1>2, <1>3, SequenceHas
  <2>. QED
    BY <1>2, <2>1
<1>5. ASSUME NEW v \in ToSet(ids), NEW w \in ToSet(ids) PROVE v = w
  BY <1>1, <1>4
<1>6. Len(ids) \in Nat /\ ToSet(ids) = {ids[i] : i \in 1..Len(ids)}
  BY <1>3, SequenceHas
<1>7. CASE ids = <<>>
  <2>1. 1..Len(ids) = {}
    BY <1>7
  <2>. QED
    BY <1>1, <1>3, <1>7, <2>1 DEF BoundIds, ids
<1>8. CASE ids # <<>>
  <2>1. Len(ids) # 0
    BY <1>3, <1>8 DEF IsSequence
  <2>2. 1 \in 1..Len(ids) /\ ids[1] \in ToSet(ids)
    BY <1>6, <2>1
  <2>3. \A i \in 1..Len(ids) : ids[i].value = ids[1].value
    BY <1>5, <1>6, <2>2
  <2>4. {ids[i].value : i \in 1..Len(ids)} = {ids[1].value}
    BY <2>2, <2>3
  <2>. QED
    BY <1>1, <1>3, <1>8, <2>4 DEF BoundIds, ids
<1>. QED
  BY <1>7, <1>8

\* How far the merge has come: an event that says as much of the metadata.
Merging(m, event) ==
  /\ "event" \in DOMAIN m
  /\ IsSequence(m.event)
  /\ \A n \in Metadata : \A field : field[1] = Named(n) =>
       (field \in ToSet(m.event) <=> field \in ToSet(event))

\* One variable more.
LEMMA MergeIs ==
  ASSUME NEW event, NEW m, Merging(m, event), NEW v, NEW i
  PROVE  Merging(Merge(m, v, i), event)
<1>. DEFINE more == [m EXCEPT !.event = Append(@, <<v.name, v.value>>),
                              !.room = @ - (IF v.name \in UNCOUNTED THEN 0 ELSE 1)]
            cut == [m EXCEPT !.event = SetDefault(m.event, Text(TRUNCATED), Text(Note)),
                             !.full = TRUE]
<1>1. \/ Merge(m, v, i) = m
      \/ Merge(m, v, i) = cut
      \/ Merge(m, v, i) = more /\ v.name \notin Identifiers
  BY DEF Merge
<1>2. IsSequence(m.event)
  BY DEF Merging
<1>3. Merging(cut, event)
  <2>1. \A n \in Metadata : <<Text(TRUNCATED), Text(Note)>>[1] # Named(n)
    BY OtherNames
  <2>. DEFINE e == SetDefault(m.event, Text(TRUNCATED), Text(Note))
  <2>2. /\ IsSequence(e) /\ ToSet(m.event) \subseteq ToSet(e)
        /\ ToSet(e) \subseteq ToSet(m.event) \cup {<<Text(TRUNCATED), Text(Note)>>}
    BY <1>2, SetDefaultIs
  <2>. HIDE DEF e
  <2>3. "event" \in DOMAIN cut /\ cut.event = e
    <3>1. "event" \in DOMAIN m
      BY DEF Merging
    <3>. QED
      BY <3>1 DEF e
  <2>4. \A n \in Metadata : \A field : field[1] = Named(n) =>
          (field \in ToSet(e) <=> field \in ToSet(event))
    BY <2>1, <2>2 DEF Merging
  <2>. HIDE DEF cut
  <2>. QED
    BY <2>2, <2>3, <2>4 DEF Merging
<1>4. ASSUME v.name \notin Identifiers PROVE Merging(more, event)
  <2>. DEFINE f == <<v.name, v.value>>
              e == Append(m.event, f)
  <2>1. \A n \in Metadata : f[1] # Named(n)
    BY <1>4, MetadataIs
  <2>. HIDE DEF f
  <2>2. IsSequence(e) /\ ToSet(e) = ToSet(m.event) \cup {f}
    BY <1>2, AppendedIs
  <2>. HIDE DEF e
  <2>3. "event" \in DOMAIN more /\ more.event = e
    <3>1. "event" \in DOMAIN m
      BY DEF Merging
    <3>. QED
      BY <3>1 DEF e, f
  <2>4. \A n \in Metadata : \A field : field[1] = Named(n) =>
          (field \in ToSet(e) <=> field \in ToSet(event))
    BY <2>1, <2>2 DEF Merging
  <2>. HIDE DEF more
  <2>. QED
    BY <2>2, <2>3, <2>4 DEF Merging
<1>. QED
  BY <1>1, <1>3, <1>4

\* What merges the first n variables.
Merges(f, b, variables, n) ==
  f = [i \in 0..n |-> IF i = 0 THEN b ELSE Merge(f[i - 1], variables[i], i)]

\* There is such a function for each number of variables.
LEMMA MergesExist ==
  ASSUME NEW b, NEW variables
  PROVE  \A n \in Nat : \E f : Merges(f, b, variables, n)
<1>. DEFINE T == {n \in Nat : \E f : Merges(f, b, variables, n)}
<1>1. 0 \in T
  <2>1. Merges([i \in 0..0 |-> b], b, variables, 0)
    BY DEF Merges
  <2>. QED
    BY <2>1
<1>2. ASSUME NEW n \in Nat, n \in T PROVE n + 1 \in T
  <2>1. PICK f : Merges(f, b, variables, n)
    BY <1>2
  <2>2. \A i \in 0..n : f[i] = IF i = 0 THEN b ELSE Merge(f[i - 1], variables[i], i)
    BY <2>1, Zenon DEF Merges
  <2>. DEFINE next == Merge(f[n], variables[n + 1], n + 1)
              g == [i \in 0..(n + 1) |-> IF i = n + 1 THEN next ELSE f[i]]
  <2>3. ASSUME NEW i \in 0..(n + 1)
        PROVE  g[i] = IF i = 0 THEN b ELSE Merge(g[i - 1], variables[i], i)
    <3>1. CASE i = n + 1
      <4>1. n \in 0..(n + 1) /\ n # n + 1 /\ i - 1 = n /\ i # 0
        BY <3>1
      <4>2. g[i - 1] = f[n] /\ g[i] = next
        BY <3>1, <4>1
      <4>. QED
        BY <3>1, <4>1, <4>2
    <3>2. CASE i # n + 1
      <4>1. i \in 0..n /\ (i # 0 => i - 1 \in 0..(n + 1) /\ i - 1 # n + 1)
        BY <3>2
      <4>2. g[i] = f[i] /\ (i # 0 => g[i - 1] = f[i - 1])
        BY <3>2, <4>1
      <4>. QED
        BY <2>2, <4>1, <4>2
    <3>. QED
      BY <3>1, <3>2
  <2>4. Merges(g, b, variables, n + 1)
    BY <2>3 DEF Merges
  <2>. QED
    BY <2>4
<1>. HIDE DEF T
<1>3. \A n \in Nat : n \in T
  BY <1>1, <1>2, Induction
<1>. QED
  BY <1>3 DEF T

\* However many variables there are.
LEMMA MergesIs ==
  ASSUME NEW event, NEW b, Merging(b, event), NEW variables, NEW n \in Nat,
         NEW f, Merges(f, b, variables, n)
  PROVE  Merging(f[n], event)
<1>. DEFINE T == {i \in Nat : i \in 0..n => Merging(f[i], event)}
<1>1. \A i \in 0..n : f[i] = IF i = 0 THEN b ELSE Merge(f[i - 1], variables[i], i)
  BY Zenon DEF Merges
<1>2. 0 \in T
  BY <1>1
<1>3. ASSUME NEW i \in Nat, i \in T PROVE i + 1 \in T
  <2> SUFFICES ASSUME i + 1 \in 0..n PROVE Merging(f[i + 1], event)
    OBVIOUS
  <2>1. Merging(f[i], event)
    BY <1>3
  <2>2. (i + 1) - 1 = i /\ i + 1 # 0
    OBVIOUS
  <2>3. f[i + 1] = Merge(f[i], variables[i + 1], i + 1)
    BY <1>1, <2>2
  <2>. QED
    BY <2>1, <2>3, MergeIs
<1>. HIDE DEF T
<1>4. \A i \in Nat : i \in T
  BY <1>2, <1>3, Induction
<1>. QED
  BY <1>4 DEF T

\* An event into which the context has been merged bears the id that is bound,
\* and, if none is, says what it said.
LEMMA MergedIs ==
  ASSUME situation \in 1..Len(Situations), NEW t \in Threads, NEW event, IsSequence(event)
  PROVE  LET merged == merge_bounded_contextvars(event, t)
         IN  /\ IsSequence(merged)
             /\ \A id \in BoundIds(t) : Bears(merged, RequestId, id)
             /\ BoundIds(t) = {} => (HasKey(merged, RequestId) <=> HasKey(event, RequestId))
<1>. DEFINE ids == _context_request_id(t)
            named == IF ids = <<>> THEN event ELSE Put(event, RequestId, ids[1].value)
            variables == The.context[t]
            n == Len(variables)
            b == [event |-> named, full |-> FALSE,
                  room |-> MAX_EVENT_FIELDS - Len(Without(named, UNCOUNTED))]
            merges == CHOOSE f : Merges(f, b, variables, n)
<1>1. merge_bounded_contextvars(event, t) = merges[n].event
  BY DEF merge_bounded_contextvars, Merges, RequestId
<1>2. IsSequence(variables) /\ n \in Nat
  BY ContextIdIs, SequenceHas
<1>3. IsSequence(named)
  BY PutIs
<1>4. Merging(b, named)
  BY <1>3 DEF Merging
<1>. HIDE DEF b, named, variables, n
<1>5. Merges(merges, b, variables, n)
  BY <1>2, MergesExist
<1>. HIDE DEF merges
<1>6. Merging(merges[n], named)
  BY <1>2, <1>4, <1>5, MergesIs
<1>. DEFINE merged == merges[n].event
<1>7. /\ IsSequence(merged)
      /\ \A field : field[1] = RequestId => (field \in ToSet(merged) <=> field \in ToSet(named))
  BY <1>6, MetadataIs DEF Merging, RequestId
<1>. HIDE DEF merged
<1>8. /\ HasKey(merged, RequestId) <=> HasKey(named, RequestId)
      /\ \A v : Bears(merged, RequestId, v) <=> Bears(named, RequestId, v)
  BY <1>3, <1>7, SameFields
<1>9. \A id \in BoundIds(t) : Bears(named, RequestId, id)
  BY ContextIdIs, PutIs DEF named
<1>10. BoundIds(t) = {} => named = event
  BY ContextIdIs DEF named
<1>. QED
  BY <1>1, <1>7, <1>8, <1>9, <1>10 DEF merged

-----------------------------------------------------------------------------
(* The passes of an event                                                  *)

\* The sanitiser leaves out the metadata, whatever the event and the heap.
SanitizerSkips == \A event, heap : IsSequence(event) => SkipsMetadata(event, heap)

\* The fixed event of a failure has the metadata that was known.
LEMMA FailureIs ==
  ASSUME NEW identity, IsSequence(identity), NEW event, NEW n \in Metadata
  PROVE  LET failure == _failure_event(identity, event)
         IN  /\ IsSequence(failure)
             /\ \A v : Bears(identity, Named(n), v) => Bears(failure, Named(n), v)
             /\ HasKey(failure, Named(n)) <=> HasKey(identity, Named(n))
<1>. DEFINE what == <<Named("event"), Named(event)>>
            type == <<Named("error_type"), Text(TypeName)>>
            failure == _failure_event(identity, event)
<1>1. IsSequence(<<what, type>>) /\ ToSet(<<what, type>>) = {what, type}
  BY PairIs
<1>2. what[1] # Named(n) /\ type[1] # Named(n)
  BY OtherNames
<1>3. failure = <<what, type>> \o identity
  BY DEF _failure_event
<1>. HIDE DEF what, type, failure
<1>4. IsSequence(failure) /\ ToSet(failure) = {what, type} \cup ToSet(identity)
  BY <1>1, <1>3, JoinedIs
<1>5. \A field : field[1] = Named(n) => (field \in ToSet(failure) <=> field \in ToSet(identity))
  BY <1>2, <1>4
<1>. QED
  BY <1>4, <1>5, SameFields DEF failure

\* Sanitised fields under an identity: the metadata is that of the identity.
LEMMA SanitisedUnder ==
  ASSUME SanitizerSkips, NEW event, IsSequence(event), NEW identity, IsSequence(identity),
         _sanitized_fields(event).v # Raise, NEW n \in Metadata
  PROVE  LET result == Completed(identity, _sanitized_fields(event).v.items)
         IN  /\ IsSequence(result)
             /\ \A v : Bears(identity, Named(n), v) => Bears(result, Named(n), v)
             /\ HasKey(result, Named(n)) <=> HasKey(identity, Named(n))
<1>. DEFINE items == _sanitized_fields(event).v.items
            result == Completed(identity, items)
<1>1. IsSequence(items) /\ FieldNames(items) \cap NOT_PAYLOAD = {}
  BY DEF SanitizerSkips, SkipsMetadata, _sanitized_fields
<1>. HIDE DEF items
<1>2. \A field \in ToSet(items) : field[1] # Named(n)
  BY <1>1, OtherNames, NamesAre
<1>3. /\ IsSequence(result)
      /\ ToSet(result) = ToSet(identity) \cup {field \in ToSet(items) : ~HasKey(identity, field[1])}
  BY <1>1, CompletedIs
<1>. HIDE DEF result
<1>4. \A field : field[1] = Named(n) => (field \in ToSet(result) <=> field \in ToSet(identity))
  BY <1>2, <1>3
<1>. QED
  BY <1>3, <1>4, SameFields DEF result, items

\* An assembled event has the metadata of the identity.
LEMMA AssembledIs ==
  ASSUME SanitizerSkips, NEW event, IsSequence(event), NEW identity, IsSequence(identity),
         NEW n \in Metadata
  PROVE  LET result == _assemble(event, identity)
         IN  /\ IsSequence(result)
             /\ \A v : Bears(identity, Named(n), v) => Bears(result, Named(n), v)
             /\ HasKey(result, Named(n)) <=> HasKey(identity, Named(n))
<1>1. CASE _sanitized_fields(event).v = Raise
  <2>1. _assemble(event, identity) = _failure_event(identity, "log_event_redaction_failed")
    BY <1>1 DEF _assemble
  <2>. QED
    BY <2>1, FailureIs
<1>2. CASE _sanitized_fields(event).v # Raise
  <2>1. _assemble(event, identity) = Completed(Ordered(identity), _sanitized_fields(event).v.items)
    BY <1>2 DEF _assemble
  <2>2. /\ IsSequence(Ordered(identity))
        /\ HasKey(Ordered(identity), Named(n)) <=> HasKey(identity, Named(n))
        /\ \A v : Bears(identity, Named(n), v) => Bears(Ordered(identity), Named(n), v)
    BY OrderedIs, OrderedBears
  <2>. QED
    BY <1>2, <2>1, <2>2, SanitisedUnder
<1>. QED
  BY <1>1, <1>2

\* What is emitted bears the identifiers of the event, and no metadata besides.
LEMMA EmittedIs ==
  ASSUME SanitizerSkips, NEW event, IsSequence(event), NEW n \in Metadata
  PROVE  LET result == redact_sensitive_fields(event)
         IN  /\ IsSequence(result)
             /\ \A v : Bears(event, Named(n), Identifier(n, v)[2])
                         => Bears(result, Named(n), Identifier(n, v)[2])
             /\ HasKey(result, Named(n)) => HasKey(event, Named(n))
<1>1. /\ IsSequence(_identity(event))
      /\ HasKey(_identity(event), Named(n)) <=> HasKey(event, Named(n))
      /\ \A v : Bears(event, Named(n), Identifier(n, v)[2])
                  => Bears(_identity(event), Named(n), Identifier(n, v)[2])
  BY IdentityBears
<1>2. CASE _sanitized_fields(event).v = Raise
  <2>1. redact_sensitive_fields(event)
          = _failure_event(_identity(event), "log_event_redaction_failed")
    BY <1>2 DEF redact_sensitive_fields
  <2>. QED
    BY <1>1, <2>1, FailureIs
<1>3. CASE _sanitized_fields(event).v # Raise
  <2>1. redact_sensitive_fields(event)
          = Completed(_identity(event), _sanitized_fields(event).v.items)
    BY <1>3 DEF redact_sensitive_fields
  <2>. QED
    BY <1>1, <1>3, <2>1, SanitisedUnder
<1>. QED
  BY <1>2, <1>3

\* What a stack or a traceback is put into is an event still.
LEMMA RenderedIs ==
  ASSUME NEW event, IsSequence(event)
  PROVE  IsSequence(render_stack_info(event)) /\ IsSequence(render_exc_info(event))
<1>1. /\ IsSequence(Without(event, {Named("stack_info")}))
      /\ IsSequence(Without(event, {Named("exc_info")}))
  BY WithoutIs
<1>2. IsSequence(render_stack_info(event))
  BY <1>1, PutIs DEF render_stack_info
<1>3. IsSequence(render_exc_info(event))
  BY <1>1, PutIs DEF render_exc_info
<1>. QED
  BY <1>2, <1>3

\* The whole path: outside a request a processed event bears the id bound to the
\* context, and if none is bound it has one only if it had one.
LEMMA ProcessedIs ==
  ASSUME SanitizerSkips, situation \in 1..Len(Situations), NEW t \in Threads, OneRequest(t),
         NEW event, IsSequence(event), NEW identity, IsSequence(identity)
  PROVE  LET result == _process(event, identity, t)
         IN  /\ IsSequence(result)
             /\ request[t] = {} =>
                  \A id \in BoundIds(t) : Bears(result, RequestId, Identifier("request_id", id)[2])
             /\ request[t] = {} /\ BoundIds(t) = {} /\ ~HasKey(identity, RequestId)
                  /\ HasKey(result, RequestId) => HasKey(event, RequestId)
<1>. DEFINE merged == merge_bounded_contextvars(event, t)
            fields == Without(merged, PROCESSOR_META_KEYS)
            known == _establish_request_id(identity, fields, t)
            rendered == render_exc_info(render_stack_info(fields))
            assembled == _assemble(rendered, known)
            result == _process(event, identity, t)
<1>1. result = IF fields = merged THEN assembled ELSE Put(assembled, RESERVED, Text(Note))
  BY DEF _process
<1>2. /\ IsSequence(merged)
      /\ \A id \in BoundIds(t) : Bears(merged, RequestId, id)
      /\ BoundIds(t) = {} => (HasKey(merged, RequestId) <=> HasKey(event, RequestId))
  BY MergedIs
<1>3. "request_id" \in Metadata /\ RequestId = Named("request_id")
        /\ RequestId \notin PROCESSOR_META_KEYS /\ RequestId # RESERVED
  BY MetadataIs, OtherNames DEF RequestId
<1>. HIDE DEF result, merged
<1>4. /\ IsSequence(fields)
      /\ ToSet(fields) = {field \in ToSet(merged) : field[1] \notin PROCESSOR_META_KEYS}
  BY <1>2, WithoutIs
<1>. HIDE DEF fields
<1>5. /\ HasKey(fields, RequestId) <=> HasKey(merged, RequestId)
      /\ \A v : Bears(fields, RequestId, v) <=> Bears(merged, RequestId, v)
  BY <1>2, <1>3, <1>4, SameFields
<1>6. /\ IsSequence(known)
      /\ \A v : request[t] = {} /\ Bears(fields, RequestId, v)
                  => Bears(known, RequestId, Identifier("request_id", v)[2])
      /\ request[t] = {} /\ ~HasKey(fields, RequestId) => known = identity
  BY <1>4, RequestIdIs
<1>7. IsSequence(rendered)
  BY <1>4, RenderedIs
<1>. HIDE DEF known, rendered
<1>8. /\ IsSequence(assembled)
      /\ \A v : Bears(known, RequestId, v) => Bears(assembled, RequestId, v)
      /\ HasKey(assembled, RequestId) <=> HasKey(known, RequestId)
  BY <1>3, <1>6, <1>7, AssembledIs
<1>. HIDE DEF assembled
<1>9. /\ IsSequence(Put(assembled, RESERVED, Text(Note)))
      /\ \A field : field[1] = RequestId =>
           (field \in ToSet(Put(assembled, RESERVED, Text(Note))) <=> field \in ToSet(assembled))
  BY <1>3, <1>8, PutIs
<1>10. /\ IsSequence(result)
       /\ \A field : field[1] = RequestId =>
            (field \in ToSet(result) <=> field \in ToSet(assembled))
  BY <1>1, <1>8, <1>9
<1>11. /\ HasKey(result, RequestId) <=> HasKey(assembled, RequestId)
       /\ \A v : Bears(result, RequestId, v) <=> Bears(assembled, RequestId, v)
  BY <1>8, <1>10, SameFields
<1>12. ASSUME request[t] = {}, NEW id \in BoundIds(t)
       PROVE  Bears(result, RequestId, Identifier("request_id", id)[2])
  BY <1>2, <1>5, <1>6, <1>8, <1>11, <1>12
<1>13. ASSUME request[t] = {}, BoundIds(t) = {}, ~HasKey(identity, RequestId),
              HasKey(result, RequestId)
       PROVE  HasKey(event, RequestId)
  <2>1. HasKey(known, RequestId)
    BY <1>8, <1>11, <1>13
  <2>2. HasKey(fields, RequestId)
    BY <1>6, <1>13, <2>1
  <2>. QED
    BY <1>2, <1>5, <1>13, <2>2
<1>. QED
  BY <1>10, <1>12, <1>13 DEF result

-----------------------------------------------------------------------------
(* What a bound logger hands over, and what its caller gave                *)

\* The fields and the binds of a call are events.
OfEvents(call) ==
  /\ IsSequence(call.fields) /\ IsSequence(call.binds)
  /\ \A i \in 1..Len(call.binds) : IsSequence(call.binds[i])
GivesId(call) ==
  HasKey(call.fields, RequestId) \/ \E i \in 1..Len(call.binds) : HasKey(call.binds[i], RequestId)

\* The values that are admitted name nothing new but what marks the rest.
LEMMA AdmittedIs ==
  ASSUME NEW values, IsSequence(values), NEW room \in Int
  PROVE  /\ IsSequence(_admitted(values, room))
         /\ HasKey(_admitted(values, room), RequestId) => HasKey(values, RequestId)
<1>. DEFINE apart == Only(values, UNCOUNTED)
            fields == Without(values, UNCOUNTED)
            n == IF room < 0 THEN 0 ELSE Least(room, Len(fields))
            kept == SubSeq(fields, 1, n)
            marked == Put(kept, Text(TRUNCATED), Text(Note))
            result == _admitted(values, room)
<1>1. \/ result = values
      \/ result = marked \o apart
      \/ result = kept \o apart
  BY DEF _admitted
<1>2. IsSequence(apart) /\ ToSet(apart) \subseteq ToSet(values)
  BY OnlyIs
<1>3. IsSequence(fields) /\ ToSet(fields) \subseteq ToSet(values)
  BY WithoutIs
<1>. HIDE DEF result, apart, fields
<1>4. n \in Nat /\ n <= Len(fields)
  BY <1>3, SequenceHas DEF Least
<1>. HIDE DEF n
<1>5. IsSequence(kept) /\ ToSet(kept) \subseteq ToSet(values)
  BY <1>3, <1>4, BeginningIs
<1>. HIDE DEF kept
<1>6. RequestId # Text(TRUNCATED)
  BY MetadataIs, OtherNames DEF RequestId
<1>7. /\ IsSequence(marked)
      /\ \A field \in ToSet(marked) : field[1] = RequestId => field \in ToSet(values)
  BY <1>5, <1>6, PutIs
<1>. HIDE DEF marked
<1>8. /\ IsSequence(marked \o apart)
      /\ ToSet(marked \o apart) = ToSet(marked) \cup ToSet(apart)
  BY <1>2, <1>7, JoinedIs
<1>9. /\ IsSequence(kept \o apart)
      /\ ToSet(kept \o apart) = ToSet(kept) \cup ToSet(apart)
  BY <1>2, <1>5, JoinedIs
<1>10. /\ IsSequence(result)
       /\ \A field \in ToSet(result) : field[1] = RequestId => field \in ToSet(values)
  BY <1>1, <1>2, <1>5, <1>7, <1>8, <1>9
<1>. QED
  BY <1>10, NamesAre DEF result

\* The contexts after each of the binds.
Binds(f, binds, n) == f = [i \in 0..n |-> IF i = 0 THEN <<>> ELSE bind(f[i - 1], binds[i])]

\* There is such a function for each number of binds.
LEMMA BindsExist ==
  ASSUME NEW binds
  PROVE  \A n \in Nat : \E f : Binds(f, binds, n)
<1>. DEFINE T == {n \in Nat : \E f : Binds(f, binds, n)}
<1>1. 0 \in T
  <2>1. Binds([i \in 0..0 |-> <<>>], binds, 0)
    BY DEF Binds
  <2>. QED
    BY <2>1
<1>2. ASSUME NEW n \in Nat, n \in T PROVE n + 1 \in T
  <2>1. PICK f : Binds(f, binds, n)
    BY <1>2
  <2>2. \A i \in 0..n : f[i] = IF i = 0 THEN <<>> ELSE bind(f[i - 1], binds[i])
    BY <2>1, Zenon DEF Binds
  <2>. DEFINE next == bind(f[n], binds[n + 1])
              g == [i \in 0..(n + 1) |-> IF i = n + 1 THEN next ELSE f[i]]
  <2>3. ASSUME NEW i \in 0..(n + 1)
        PROVE  g[i] = IF i = 0 THEN <<>> ELSE bind(g[i - 1], binds[i])
    <3>1. CASE i = n + 1
      <4>1. n \in 0..(n + 1) /\ n # n + 1 /\ i - 1 = n /\ i # 0
        BY <3>1
      <4>2. g[i - 1] = f[n] /\ g[i] = next
        BY <3>1, <4>1
      <4>. QED
        BY <3>1, <4>1, <4>2
    <3>2. CASE i # n + 1
      <4>1. i \in 0..n /\ (i # 0 => i - 1 \in 0..(n + 1) /\ i - 1 # n + 1)
        BY <3>2
      <4>2. g[i] = f[i] /\ (i # 0 => g[i - 1] = f[i - 1])
        BY <3>2, <4>1
      <4>. QED
        BY <2>2, <4>1, <4>2
    <3>. QED
      BY <3>1, <3>2
  <2>4. Binds(g, binds, n + 1)
    BY <2>3 DEF Binds
  <2>. QED
    BY <2>4
<1>. HIDE DEF T
<1>3. \A n \in Nat : n \in T
  BY <1>1, <1>2, Induction
<1>. QED
  BY <1>3 DEF T

\* The context after some binds is an event, and has an id only if one of them gave it.
LEMMA BindsAre ==
  ASSUME NEW call, OfEvents(call), NEW n \in Nat, n <= Len(call.binds),
         NEW f, Binds(f, call.binds, n)
  PROVE  IsSequence(f[n]) /\ (HasKey(f[n], RequestId) => GivesId(call))
<1>. DEFINE Good(e) == IsSequence(e) /\ (HasKey(e, RequestId) => GivesId(call))
            T == {i \in Nat : i \in 0..n => Good(f[i])}
<1>1. \A i \in 0..n : f[i] = IF i = 0 THEN <<>> ELSE bind(f[i - 1], call.binds[i])
  BY Zenon DEF Binds
<1>2. 0 \in T
  <2>1. IsSequence(<<>>) /\ ~HasKey(<<>>, RequestId)
    BY ShortIs, NamesAre
  <2>. QED
    BY <1>1, <2>1
<1>3. ASSUME NEW i \in Nat, i \in T PROVE i + 1 \in T
  <2> SUFFICES ASSUME i + 1 \in 0..n PROVE Good(f[i + 1])
    OBVIOUS
  <2>. DEFINE values == call.binds[i + 1]
              room == MAX_EVENT_FIELDS - Len(f[i])
  <2>1. Good(f[i])
    BY <1>3
  <2>2. (i + 1) - 1 = i /\ i + 1 # 0
    OBVIOUS
  <2>3. f[i + 1] = Update(f[i], _admitted(values, room))
    BY <1>1, <2>2 DEF bind
  <2>4. Len(call.binds) \in Nat
    BY SequenceHas DEF OfEvents
  <2>5. i + 1 \in 1..Len(call.binds) /\ IsSequence(values)
    BY <2>4 DEF OfEvents
  <2>6. HasKey(values, RequestId) => GivesId(call)
    BY <2>5 DEF GivesId
  <2>7. room \in Int
    BY <2>1, SequenceHas, BoundsAssumption DEF MAX_EVENT_FIELDS
  <2>. HIDE DEF values, room
  <2>8. /\ IsSequence(_admitted(values, room))
        /\ HasKey(_admitted(values, room), RequestId) => HasKey(values, RequestId)
    BY <2>5, <2>7, AdmittedIs
  <2>. QED
    BY <2>1, <2>3, <2>6, <2>8, UpdateIs
<1>. HIDE DEF T
<1>4. \A i \in Nat : i \in T
  BY <1>2, <1>3, Induction
<1>. QED
  BY <1>4 DEF T

\* The event of a call has a request id only if its caller gave one.
LEMMA EventOfCall ==
  ASSUME NEW call, OfEvents(call)
  PROVE  /\ IsSequence(_process_event(call))
         /\ HasKey(_process_event(call), RequestId) => GivesId(call)
<1>. DEFINE n == Len(call.binds)
            bound == CHOOSE f : Binds(f, call.binds, n)
            more == _admitted(call.fields, MAX_EVENT_FIELDS)
            updated == Update(bound[n], more)
<1>1. _process_event(call) = Put(updated, Named("event"), call.event)
  BY DEF _process_event, Binds
<1>2. n \in Nat
  BY SequenceHas DEF OfEvents
<1>3. Binds(bound, call.binds, n)
  BY <1>2, BindsExist
<1>. HIDE DEF bound
<1>4. IsSequence(bound[n]) /\ (HasKey(bound[n], RequestId) => GivesId(call))
  BY <1>2, <1>3, BindsAre
<1>5. IsSequence(more) /\ (HasKey(more, RequestId) => GivesId(call))
  BY AdmittedIs, BoundsAssumption DEF MAX_EVENT_FIELDS, OfEvents, GivesId
<1>. HIDE DEF n, more
<1>6. IsSequence(updated) /\ (HasKey(updated, RequestId) => GivesId(call))
  BY <1>4, <1>5, UpdateIs
<1>. HIDE DEF updated
<1>7. RequestId # Named("event")
  BY MetadataIs, OtherNames DEF RequestId
<1>8. /\ IsSequence(Put(updated, Named("event"), call.event))
      /\ \A field : field[1] = RequestId =>
           (field \in ToSet(Put(updated, Named("event"), call.event)) <=> field \in ToSet(updated))
  BY <1>6, <1>7, PutIs
<1>. QED
  BY <1>1, <1>6, <1>8, SameFields

\* What the caller gave then has it as well.
LEMMA GivenIs ==
  ASSUME situation \in 1..Len(Situations), NEW t \in Threads,
         NEW call, OfEvents(call), GivesId(call)
  PROVE  HasKey(Given(call, t), RequestId)
<1>. DEFINE context == Bound(t)
            bound == [i \in 1..Len(context) |-> <<context[i].name, context[i].value>>]
            flat == FlattenSeq(call.binds)
<1>1. IsSequence(context)
  BY ContextIdIs, PickedIs DEF Bound
<1>2. IsSequence(bound)
  BY <1>1, SequenceHas, FunctionIsSequence
<1>3. /\ IsSequence(flat)
      /\ ToSet(flat) = UNION {ToSet(call.binds[i]) : i \in 1..Len(call.binds)}
  BY FlattenedIs DEF OfEvents
<1>4. Given(call, t) = (bound \o flat) \o call.fields
  BY DEF Given
<1>. HIDE DEF bound, flat
<1>5. IsSequence(call.fields)
  BY DEF OfEvents
<1>6. /\ IsSequence(Given(call, t))
      /\ ToSet(flat) \cup ToSet(call.fields) \subseteq ToSet(Given(call, t))
  BY <1>2, <1>3, <1>4, <1>5, JoinedIs
<1>7. \E field \in ToSet(flat) \cup ToSet(call.fields) : field[1] = RequestId
  <2>1. CASE HasKey(call.fields, RequestId)
    BY <1>5, <2>1, NamesAre
  <2>2. CASE \E i \in 1..Len(call.binds) : HasKey(call.binds[i], RequestId)
    <3>1. PICK i \in 1..Len(call.binds) : HasKey(call.binds[i], RequestId)
      BY <2>2
    <3>2. PICK field \in ToSet(call.binds[i]) : field[1] = RequestId
      BY <3>1, NamesAre DEF OfEvents
    <3>. QED
      BY <1>3, <3>2
  <2>. QED
    BY <2>1, <2>2 DEF GivesId
<1>. QED
  BY <1>6, <1>7, NamesAre

-----------------------------------------------------------------------------
(* A line                                                                  *)

\* What the formatter takes for an event is the event of the record, which the
\* first pipeline produced; all else is a message.
LEMMA SafeIs ==
  ASSUME NEW r, NEW t
  PROVE  LET safe == _with_sanitized_arguments(r, t)
         IN  /\ safe.kind = "event" => IsProduced(r, t) /\ safe.event = r.msg.items
             /\ safe.kind = "message" => ~IsProduced(r, t) /\ \E s : safe.event = EventOf(s)
<1>. DEFINE safe == _with_sanitized_arguments(r, t)
<1>1. \A kind, event : Safe(kind, event).kind = kind /\ Safe(kind, event).event = event
  BY DEF Safe
<1>2. CASE IsProduced(r, t)
  <2>1. safe = Safe("event", r.msg.items)
    BY <1>2 DEF _with_sanitized_arguments
  <2>. QED
    BY <1>1, <1>2, <2>1
<1>3. CASE ~IsProduced(r, t)
  <2>1. \/ \E s : safe = Safe("message", EventOf(s))
        \/ safe = Safe("log_record_unsafe_format", <<>>)
        \/ safe = Safe("log_record_unrenderable", <<>>)
    BY <1>3, Zenon DEF _with_sanitized_arguments
  <2>. HIDE DEF safe
  <2>. QED
    BY <1>1, <1>3, <2>1 DEF safe
<1>. QED
  BY <1>2, <1>3

\* What is completed bears what it bore.
LEMMA CompletedBears ==
  ASSUME NEW event, IsSequence(event), NEW more, IsSequence(more), NEW name
  PROVE  /\ IsSequence(Completed(event, more))
         /\ \A v : Bears(event, name, v) => Bears(Completed(event, more), name, v)
         /\ HasKey(Completed(event, more), name) <=> HasKey(event, name) \/ HasKey(more, name)
<1>1. /\ IsSequence(Completed(event, more))
      /\ ToSet(Completed(event, more)) =
           ToSet(event) \cup {field \in ToSet(more) : ~HasKey(event, field[1])}
  BY CompletedIs
<1>2. HasKey(Completed(event, more), name) <=> HasKey(event, name) \/ HasKey(more, name)
  BY <1>1, NamesAre
<1>. QED
  BY <1>1, <1>2 DEF Bears

\* The metadata that is finished: what is known, and of the event no more than
\* the names that are not known.
LEMMA FinishedIs ==
  ASSUME NEW known, IsSequence(known), NEW event, IsSequence(event), NEW n \in Metadata
  PROVE  LET finished == Completed(Ordered(known), event)
         IN  /\ IsSequence(finished)
             /\ \A v : Bears(known, Named(n), v) => Bears(finished, Named(n), v)
             /\ HasKey(finished, Named(n)) <=> HasKey(known, Named(n)) \/ HasKey(event, Named(n))
<1>1. /\ IsSequence(Ordered(known))
      /\ HasKey(Ordered(known), Named(n)) <=> HasKey(known, Named(n))
      /\ \A v : Bears(known, Named(n), v) => Bears(Ordered(known), Named(n), v)
  BY OrderedIs, OrderedBears
<1>. QED
  BY <1>1, CompletedBears

-----------------------------------------------------------------------------
(* The inductive invariant                                                 *)

\* What an event keeps of its thread outside a request: it bears the id that is
\* bound to the context, and if none is, only a caller gave it one.
EventKeeps(items, call, t) ==
  /\ \A id \in BoundIds(t) : Bears(items, RequestId, Identifier("request_id", id)[2])
  /\ BoundIds(t) = {} /\ HasKey(items, RequestId) => HasKey(Given(call, t), RequestId)

\* A record in progress in a thread.
RecordIs(r, t) ==
  /\ {"call", "msg", "object", "info", "undisturbed"} \subseteq DOMAIN r
  /\ IsSequence(r.info)
  /\ HasKey(r.info, RequestId) => HasKey(Given(r.call, t), RequestId)
  /\ r.object # NoObject => "items" \in DOMAIN r.msg /\ IsSequence(r.msg.items)
  /\ r.object # NoObject /\ r.undisturbed /\ request[t] = {} => EventKeeps(r.msg.items, r.call, t)
RecordsAre(records, t) == IsSequence(records) /\ \A r \in ToSet(records) : RecordIs(r, t)

ThreadsInv ==
  /\ situation \in 1..Len(Situations)
  /\ made \in [Threads -> Nat]
  /\ DOMAIN request = Threads /\ \A t \in Threads : OneRequest(t)
  /\ DOMAIN stack = Threads /\ \A t \in Threads : RecordsAre(stack[t], t)
IInv == ThreadsInv /\ MetadataIsEstablished

-----------------------------------------------------------------------------
(* The line of a record                                                    *)

\* The event of a line, as the final pipeline has it before it finishes.
EventOfLine(r, t, handler) ==
  LET safe == _with_sanitized_arguments(r, t)
      own == _establish_identity(r.logger, r.level, "now", The.configs[handler])
  IN  IF safe.kind = "event" THEN Without(safe.event, PROCESSOR_META_KEYS)
      ELSE _process(safe.event \o r.info, _establish_request_id(own, <<>>, t), t)

\* Outside a request it keeps what an event keeps, unless another handler has
\* disturbed the event the first pipeline produced.
LEMMA EventOfLineIs ==
  ASSUME SanitizerSkips, situation \in 1..Len(Situations), NEW t \in Threads, OneRequest(t),
         NEW r, RecordIs(r, t), NEW handler,
         _with_sanitized_arguments(r, t).kind \in {"event", "message"}
  PROVE  /\ IsSequence(EventOfLine(r, t, handler))
         /\ request[t] = {} /\ ~(IsProduced(r, t) /\ ~r.undisturbed)
              => EventKeeps(EventOfLine(r, t, handler), r.call, t)
<1>. DEFINE safe == _with_sanitized_arguments(r, t)
            own == _establish_identity(r.logger, r.level, "now", The.configs[handler])
            identity == _establish_request_id(own, <<>>, t)
<1>1. /\ safe.kind = "event" => IsProduced(r, t) /\ safe.event = r.msg.items
      /\ safe.kind = "message" => ~IsProduced(r, t) /\ \E s : safe.event = EventOf(s)
  BY SafeIs
<1>2. IsSequence(own) /\ ~HasKey(own, RequestId)
  BY OwnIs
<1>3. EventOfLine(r, t, handler) = IF safe.kind = "event" THEN Without(safe.event, PROCESSOR_META_KEYS)
                          ELSE _process(safe.event \o r.info, identity, t)
  BY DEF EventOfLine
<1>. HIDE DEF safe, own
<1>4. CASE safe.kind = "event"
  <2>. DEFINE items == r.msg.items
              event == Without(items, PROCESSOR_META_KEYS)
  <2>1. EventOfLine(r, t, handler) = event /\ IsProduced(r, t)
    BY <1>1, <1>3, <1>4
  <2>2. IsSequence(items)
    BY <2>1 DEF RecordIs, IsProduced
  <2>3. request[t] = {} /\ r.undisturbed => EventKeeps(items, r.call, t)
    BY <2>1 DEF RecordIs, IsProduced
  <2>4. RequestId \notin PROCESSOR_META_KEYS
    BY MetadataIs, OtherNames DEF RequestId
  <2>. HIDE DEF items
  <2>5. /\ IsSequence(event)
        /\ \A field : field[1] = RequestId => (field \in ToSet(event) <=> field \in ToSet(items))
    BY <2>2, <2>4, WithoutIs
  <2>. HIDE DEF event
  <2>6. /\ HasKey(event, RequestId) <=> HasKey(items, RequestId)
        /\ \A v : Bears(event, RequestId, v) <=> Bears(items, RequestId, v)
    BY <2>2, <2>5, SameFields
  <2>. QED
    BY <2>1, <2>3, <2>5, <2>6 DEF EventKeeps
<1>5. CASE safe.kind # "event"
  <2>1. safe.kind = "message"
    BY <1>5 DEF safe
  <2>2. PICK s : safe.event = EventOf(s)
    BY <1>1, <2>1
  <2>. DEFINE field == <<Named("event"), Text(s)>>
              given == safe.event \o r.info
              event == _process(given, identity, t)
  <2>3. IsSequence(safe.event) /\ ToSet(safe.event) = {field}
    BY <2>2, ShortIs DEF EventOf
  <2>4. field[1] # RequestId
    BY MetadataIs, OtherNames DEF RequestId
  <2>. HIDE DEF field
  <2>5. IsSequence(r.info) /\ (HasKey(r.info, RequestId) => HasKey(Given(r.call, t), RequestId))
    BY DEF RecordIs
  <2>6. IsSequence(given) /\ ToSet(given) = {field} \cup ToSet(r.info)
    BY <2>3, <2>5, JoinedIs
  <2>. HIDE DEF given
  <2>7. HasKey(given, RequestId) => HasKey(Given(r.call, t), RequestId)
    BY <2>4, <2>5, <2>6, NamesAre
  <2>8. IsSequence(<<>>) /\ ~HasKey(<<>>, RequestId)
    BY ShortIs, NamesAre
  <2>9. IsSequence(identity) /\ (request[t] = {} => identity = own)
    BY <1>2, <2>8, RequestIdIs
  <2>. HIDE DEF identity
  <2>10. /\ IsSequence(event)
         /\ request[t] = {} =>
              \A id \in BoundIds(t) : Bears(event, RequestId, Identifier("request_id", id)[2])
         /\ request[t] = {} /\ BoundIds(t) = {} /\ ~HasKey(identity, RequestId)
              /\ HasKey(event, RequestId) => HasKey(given, RequestId)
    BY <2>6, <2>9, ProcessedIs
  <2>11. EventOfLine(r, t, handler) = event
    BY <1>3, <1>5 DEF identity, given
  <2>. HIDE DEF event
  <2>. QED
    BY <1>2, <2>7, <2>9, <2>10, <2>11 DEF EventKeeps
<1>. QED
  BY <1>4, <1>5

\* The line of a record has the metadata that is established.
LEMMA LineIs ==
  ASSUME SanitizerSkips, situation \in 1..Len(Situations), NEW t \in Threads, OneRequest(t),
         NEW r, RecordIs(r, t), NEW handler \in r.handler..final,
         format(r, t, handler).kind = "line"
  PROVE  Established(format(r, t, handler).items, r, t)
<1>. DEFINE safe == _with_sanitized_arguments(r, t)
            own == _establish_identity(r.logger, r.level, "now", The.configs[handler])
            identity == _establish_request_id(own, <<>>, t)
            event == EventOfLine(r, t, handler)
            known == _establish_request_id(identity, event, t)
            finished == Completed(Ordered(known), event)
            items == redact_sensitive_fields(finished)
            kept == IsProduced(r, t) /\ ~r.undisturbed
            Value(id) == Identifier("request_id", id)[2]
<1>1. _finish(r, safe, t, handler) = finished
  BY DEF _finish, EventOfLine
<1>2. \A kind, fields : Line(kind, fields).kind = kind /\ Line(kind, fields).items = fields
  BY DEF Line
<1>3. /\ safe.kind \in {"event", "message"}
      /\ format(r, t, handler) = Line("line", items)
  <2>1. \/ safe.kind \notin {"event", "message"} /\ format(r, t, handler).kind = "emergency"
        \/ format(r, t, handler).kind = "emergency"
        \/ safe.kind \in {"event", "message"} /\ format(r, t, handler) = Line("line", items)
    BY <1>1, <1>2 DEF format
  <2>. QED
    BY <2>1
<1>4. /\ IsSequence(event)
      /\ request[t] = {} /\ ~kept => EventKeeps(event, r.call, t)
  BY <1>3, EventOfLineIs
<1>5. /\ IsSequence(own) /\ ~HasKey(own, RequestId)
      /\ \A i \in 1..Len(own) : \E n \in Metadata \ {"request_id"} : \E v :
           own[i] = Identifier(n, v) /\ Bears(own, Named(n), Identifier(n, v)[2])
  BY OwnIs
<1>6. IsSequence(<<>>) /\ ~HasKey(<<>>, RequestId)
  BY ShortIs, NamesAre
<1>7. "request_id" \in Metadata /\ RequestId = Named("request_id")
  BY MetadataIs DEF RequestId
<1>. HIDE DEF own, event
<1>8. /\ IsSequence(identity)
      /\ \A n \in Metadata \ {"request_id"} : \A v :
           Bears(own, Named(n), v) => Bears(identity, Named(n), v)
      /\ request[t] = {} => identity = own
  BY <1>5, <1>6, RequestIdIs
<1>. HIDE DEF identity
<1>9. /\ IsSequence(known)
      /\ \A n \in Metadata \ {"request_id"} : \A v :
           Bears(identity, Named(n), v) => Bears(known, Named(n), v)
      /\ \A id : request[t] = {id} => Bears(known, RequestId, Value(id))
      /\ \A v : request[t] = {} /\ Bears(event, RequestId, v) => Bears(known, RequestId, Value(v))
      /\ request[t] = {} /\ ~HasKey(event, RequestId) => known = identity
  BY <1>4, <1>8, RequestIdIs
<1>. HIDE DEF known
<1>10. \A n \in Metadata :
         /\ IsSequence(finished)
         /\ \A v : Bears(known, Named(n), v) => Bears(finished, Named(n), v)
         /\ HasKey(finished, Named(n)) <=> HasKey(known, Named(n)) \/ HasKey(event, Named(n))
  BY <1>4, <1>9, FinishedIs
<1>. HIDE DEF finished
<1>11. \A n \in Metadata :
         /\ IsSequence(items)
         /\ \A v : Bears(finished, Named(n), Identifier(n, v)[2])
                     => Bears(items, Named(n), Identifier(n, v)[2])
         /\ HasKey(items, Named(n)) => HasKey(finished, Named(n))
  BY <1>7, <1>10, EmittedIs
<1>. HIDE DEF items, Value
<1>12. \A v : Bears(known, RequestId, Value(v)) => Says(items, RequestId, Value(v))
  <2>1. \A v : Value(v) = Identifier("request_id", v)[2]
    BY DEF Value
  <2>. QED
    BY <1>7, <1>10, <1>11, <2>1, BearsSays
<1>13. ASSUME NEW i \in 1..Len(own) PROVE Says(items, own[i][1], own[i][2])
  <2>. DEFINE Own(n, v) == own[i] = Identifier(n, v) /\ Bears(own, Named(n), Identifier(n, v)[2])
  <2>0. PICK n \in Metadata \ {"request_id"} : \E v : Own(n, v)
    BY <1>5, <1>13
  <2>1. PICK v : Own(n, v)
    BY <2>0
  <2>2. Bears(items, Named(n), Identifier(n, v)[2])
    BY <1>8, <1>9, <1>10, <1>11, <2>1
  <2>3. own[i][1] = Named(n) /\ own[i][2] = Identifier(n, v)[2]
    BY <2>1, IdentifierIs
  <2>. QED
    BY <1>11, <2>2, <2>3, BearsSays
<1>14. ASSUME NEW id \in request[t] PROVE Says(items, RequestId, Value(id))
  BY <1>9, <1>12, <1>14 DEF OneRequest
<1>15. ASSUME request[t] = {}, ~kept, NEW id \in BoundIds(t)
       PROVE  Says(items, RequestId, Value(id))
  <2>1. Bears(event, RequestId, Value(id))
    BY <1>4, <1>15 DEF EventKeeps, Value
  <2>2. Value(Value(id)) = Value(id)
    BY IdentifierIs DEF Value
  <2>. QED
    BY <1>9, <1>12, <1>15, <2>1, <2>2
<1>16. ASSUME request[t] = {}, ~kept, BoundIds(t) = {}, HasKey(items, RequestId)
       PROVE  HasKey(Given(r.call, t), RequestId)
  <2>1. HasKey(event, RequestId)
    BY <1>5, <1>7, <1>8, <1>9, <1>10, <1>11, <1>16
  <2>. QED
    BY <1>4, <1>16, <2>1 DEF EventKeeps
<1>17. format(r, t, handler).items = items
  BY <1>2, <1>3
<1>18. \E h \in r.handler..final :
         LET theirs == _establish_identity(r.logger, r.level, "now", The.configs[h])
         IN  \A i \in 1..Len(theirs) : Says(items, theirs[i][1], theirs[i][2])
  <2>. WITNESS handler \in r.handler..final
  <2>. QED
    BY <1>13 DEF own
<1>. QED
  BY <1>14, <1>15, <1>16, <1>17, <1>18 DEF Established, Value, BoundIds, RequestId

-----------------------------------------------------------------------------
(* Steps                                                                   *)

\* The context belongs to the situation, and so does what a caller gave.
LEMMA SameContext ==
  ASSUME UNCHANGED situation
  PROVE  /\ The' = The /\ Threads' = Threads
         /\ \A t : BoundIds(t)' = BoundIds(t)
         /\ \A call, t : Given(call, t)' = Given(call, t)
<1>1. The' = The
  BY DEF The
<1>2. Threads' = Threads
  BY <1>1 DEF Threads
<1>3. \A t : Bound(t)' = Bound(t)
  BY <1>1 DEF Bound
<1>4. \A t : _context_request_id(t)' = _context_request_id(t)
  BY <1>3 DEF _context_request_id
<1>5. \A t : BoundIds(t)' = BoundIds(t)
  BY <1>4 DEF BoundIds
<1>6. \A call, t : Given(call, t)' = Given(call, t)
  BY <1>3 DEF Given
<1>. QED
  BY <1>1, <1>2, <1>5, <1>6

\* A record stays what it is while its thread serves the same request.
LEMMA RecordStays ==
  ASSUME UNCHANGED <<situation, request>>, NEW r, NEW t
  PROVE  RecordIs(r, t)' <=> RecordIs(r, t)
<1>1. \A items, call : EventKeeps(items, call, t)' <=> EventKeeps(items, call, t)
  BY SameContext DEF EventKeeps
<1>. QED
  BY <1>1, SameContext DEF RecordIs

\* What is established depends on nothing that writing a line changes.
LEMMA EstablishedStays ==
  ASSUME UNCHANGED <<situation, request, final, produced>>, NEW items, NEW r, NEW t
  PROVE  Established(items, r, t)' <=> Established(items, r, t)
<1>1. _context_request_id(t)' = _context_request_id(t)
  BY DEF _context_request_id, Bound, The
<1>2. The' = The
  BY SameContext
<1>3. IsProduced(r, t)' <=> IsProduced(r, t)
  BY DEF IsProduced
<1>4. Given(r.call, t)' = Given(r.call, t)
  BY SameContext
<1>. QED
  BY <1>1, <1>2, <1>3, <1>4 DEF Established

\* The innermost record in progress, and those around it.
LEMMA TopIs ==
  ASSUME NEW s, IsSequence(s), s # <<>>
  PROVE  Last(s) \in ToSet(s) /\ IsSequence(Front(s)) /\ ToSet(Front(s)) \subseteq ToSet(s)
<1>1. s \in Seq(ToSet(s)) /\ Len(s) \in Nat
  BY SequenceHas DEF IsSequence
<1>2. Len(s) # 0
  BY <1>1
<1>3. Len(s) - 1 \in Nat /\ Len(s) - 1 <= Len(s) /\ Len(s) \in 1..Len(s)
  BY <1>1, <1>2
<1>4. Front(s) = SubSeq(s, 1, Len(s) - 1) /\ Last(s) = s[Len(s)]
  BY DEF Front, Last
<1>. QED
  BY <1>1, <1>3, <1>4, BeginningIs

\* Another record in place of the innermost.
LEMMA ReplacedIs ==
  ASSUME NEW s, IsSequence(s), s # <<>>, NEW x
  PROVE  /\ IsSequence([s EXCEPT ![Len(s)] = x])
         /\ ToSet([s EXCEPT ![Len(s)] = x]) \subseteq ToSet(s) \cup {x}
<1>. DEFINE u == [s EXCEPT ![Len(s)] = x]
<1>1. Len(s) \in Nat /\ DOMAIN s = 1..Len(s) /\ ToSet(s) = {s[i] : i \in 1..Len(s)}
  BY SequenceHas
<1>2. DOMAIN u = 1..Len(s) /\ \A i \in 1..Len(s) : u[i] = IF i = Len(s) THEN x ELSE s[i]
  BY <1>1
<1>3. u = [i \in 1..Len(s) |-> u[i]]
  BY <1>1
<1>. HIDE DEF u
<1>4. IsSequence(u) /\ Len(u) = Len(s)
  BY <1>1, <1>3, FunctionIsSequence
<1>5. ToSet(u) = {u[i] : i \in 1..Len(s)}
  BY <1>4, SequenceHas
<1>6. ToSet(u) \subseteq ToSet(s) \cup {x}
  BY <1>1, <1>2, <1>5
<1>. QED
  BY <1>4, <1>6 DEF u

\* A record that is disturbed promises less.
LEMMA DisturbedIs ==
  ASSUME NEW t, NEW records, RecordsAre(records, t)
  PROVE  RecordsAre(Disturbed(records), t)
<1>1. CASE records = <<>>
  BY <1>1 DEF Disturbed
<1>2. CASE records # <<>>
  <2>. DEFINE r == Last(records)
              x == [r EXCEPT !.undisturbed = FALSE]
              u == [records EXCEPT ![Len(records)] = x]
  <2>1. IsSequence(records) /\ r \in ToSet(records) /\ RecordIs(r, t)
    BY <1>2, TopIs DEF RecordsAre
  <2>2. Disturbed(records) = u
    <3>1. Len(records) \in DOMAIN records
      <4>1. Len(records) \in Nat /\ DOMAIN records = 1..Len(records)
        BY <2>1, SequenceHas
      <4>2. Len(records) # 0
        BY <1>2, <2>1 DEF IsSequence
      <4>. QED
        BY <4>1, <4>2
    <3>. QED
      BY <1>2, <3>1 DEF Disturbed, Last
  <2>3. RecordIs(x, t)
    <3>1. x.call = r.call /\ x.msg = r.msg /\ x.object = r.object /\ x.info = r.info
            /\ x.undisturbed = FALSE /\ DOMAIN x = DOMAIN r
      BY <2>1 DEF RecordIs
    <3>. HIDE DEF x, r
    <3>. QED
      BY <2>1, <3>1 DEF RecordIs
  <2>. HIDE DEF x, r
  <2>4. IsSequence(u) /\ ToSet(u) \subseteq ToSet(records) \cup {x}
    BY <1>2, <2>1, ReplacedIs
  <2>. HIDE DEF u
  <2>. QED
    BY <2>2, <2>3, <2>4 DEF RecordsAre
<1>. QED
  BY <1>1, <1>2

\* One record more.
LEMMA MoreRecords ==
  ASSUME NEW t, NEW records, RecordsAre(records, t), NEW r, RecordIs(r, t)
  PROVE  RecordsAre(Append(records, r), t)
BY AppendedIs DEF RecordsAre

\* A step that changes the records of one thread.
LEMMA OneStack ==
  ASSUME ThreadsInv, UNCHANGED <<situation, request>>, made' \in [Threads -> Nat],
         NEW t \in Threads, NEW records, RecordsAre(records, t),
         stack' = [stack EXCEPT ![t] = records]
  PROVE  ThreadsInv'
<1>1. Threads' = Threads
  BY SameContext
<1>2. ASSUME NEW u \in Threads PROVE RecordsAre(stack[u], u)'
  <2>1. RecordsAre(stack'[u], u)
    BY DEF ThreadsInv
  <2>. QED
    BY <2>1, RecordStays DEF RecordsAre
<1>3. \A u : OneRequest(u)' <=> OneRequest(u)
  BY DEF OneRequest
<1>. QED
  BY <1>1, <1>2, <1>3 DEF ThreadsInv

\* A new record of a structlog call outside a request keeps its event.
LEMMA StructlogRecord ==
  ASSUME SanitizerSkips, situation \in 1..Len(Situations), NEW t \in Threads, OneRequest(t),
         NEW call, OfEvents(call), NEW object
  PROVE  RecordIs(Record(call, MapOf(FirstPass(call, t)), object, <<>>), t)
<1>. DEFINE event == FirstPass(call, t)
            r == Record(call, MapOf(event), object, <<>>)
            own == _establish_identity(call.logger, call.level, "then", The.configs[first])
<1>1. event = _process(_process_event(call), own, t)
  BY DEF FirstPass
<1>2. IsSequence(own) /\ ~HasKey(own, RequestId)
  BY OwnIs
<1>3. /\ IsSequence(_process_event(call))
      /\ HasKey(_process_event(call), RequestId) => GivesId(call)
  BY EventOfCall
<1>. HIDE DEF own
<1>4. /\ IsSequence(event)
      /\ request[t] = {} =>
           \A id \in BoundIds(t) : Bears(event, RequestId, Identifier("request_id", id)[2])
      /\ request[t] = {} /\ BoundIds(t) = {} /\ HasKey(event, RequestId)
           => HasKey(_process_event(call), RequestId)
  BY <1>1, <1>2, <1>3, ProcessedIs
<1>. HIDE DEF event
<1>5. request[t] = {} => EventKeeps(event, call, t)
  BY <1>3, <1>4, GivenIs DEF EventKeeps
<1>6. /\ r.call = call /\ r.msg = MapOf(event) /\ r.object = object /\ r.info = <<>>
      /\ {"call", "msg", "object", "info", "undisturbed"} \subseteq DOMAIN r
  BY DEF Record
<1>7. MapOf(event).items = event /\ "items" \in DOMAIN MapOf(event)
  BY DEF MapOf
<1>8. IsSequence(<<>>) /\ ~HasKey(<<>>, RequestId)
  BY ShortIs, NamesAre
<1>. HIDE DEF r
<1>. QED
  BY <1>4, <1>5, <1>6, <1>7, <1>8 DEF RecordIs, r, event

\* A record of the standard library has what its caller gave.
LEMMA StdlibRecord ==
  ASSUME situation \in 1..Len(Situations), NEW t \in Threads, NEW call, OfEvents(call)
  PROVE  RecordIs(Record(call, call.event, NoObject, call.fields), t)
<1>. DEFINE r == Record(call, call.event, NoObject, call.fields)
<1>1. /\ r.call = call /\ r.object = NoObject /\ r.info = call.fields
      /\ {"call", "msg", "object", "info", "undisturbed"} \subseteq DOMAIN r
  BY DEF Record
<1>2. IsSequence(call.fields)
  BY DEF OfEvents
<1>3. HasKey(call.fields, RequestId) => HasKey(Given(call, t), RequestId)
  BY GivenIs DEF GivesId
<1>. HIDE DEF r
<1>. QED
  BY <1>1, <1>2, <1>3 DEF RecordIs, r

\* The record of a call on top of those in progress.
LEMMA CallsStep ==
  ASSUME SanitizerSkips, ThreadsInv, made' \in [Threads -> Nat], NEW t \in Threads,
         NEW call, OfEvents(call), Calls(t, call)
  PROVE  IInv'
<1>1. /\ situation \in 1..Len(Situations) /\ OneRequest(t)
      /\ RecordsAre(stack[t], t) /\ RecordsAre(Disturbed(stack[t]), t) /\ DOMAIN stack = Threads
  BY DisturbedIs DEF ThreadsInv
<1>2. \E r : RecordIs(r, t) /\ stack' = [stack EXCEPT ![t] = Append(Disturbed(@), r)]
  <2>1. CASE Structlog(t, call)
    BY <1>1, <2>1, StructlogRecord DEF Structlog
  <2>2. CASE Stdlib(t, call)
    BY <1>1, <2>2, StdlibRecord DEF Stdlib
  <2>. QED
    BY <2>1, <2>2 DEF Calls
<1>3. PICK r : RecordIs(r, t) /\ stack' = [stack EXCEPT ![t] = Append(Disturbed(@), r)]
  BY <1>2
<1>. DEFINE records == Append(Disturbed(stack[t]), r)
<1>4. RecordsAre(records, t) /\ stack' = [stack EXCEPT ![t] = records]
  BY <1>1, <1>3, MoreRecords
<1>. HIDE DEF records
<1>5. ThreadsInv'
  BY <1>4, OneStack DEF Calls
<1>6. last'.kind # "line"
  BY DEF Calls, NoLine
<1>. QED
  BY <1>5, <1>6 DEF IInv, MetadataIsEstablished

\* The calls of a situation are made of events.
LEMMA CallsAre ==
  ASSUME situation \in 1..Len(Situations), NEW t \in Threads
  PROVE  /\ IsSequence(The.calls[t])
         /\ \A call \in ToSet(The.calls[t]) \cup The.nested[t] : OfEvents(call)
BY SituationsAssumption DEF The, Threads, OfEvents

\* A step that leaves the records alone, or forgets the line.
LEMMA NoLineKept ==
  ASSUME last' = NoLine
  PROVE  MetadataIsEstablished'
<1>1. last'.kind # "line"
  BY DEF NoLine
<1>. QED
  BY <1>1 DEF MetadataIsEstablished

\* A thread makes its next call.
LEMMA CallStep ==
  ASSUME SanitizerSkips, IInv, NEW t \in Threads, Call(t)
  PROVE  IInv'
<1>1. ThreadsInv /\ made[t] \in Nat
  BY DEF IInv, ThreadsInv
<1>2. /\ IsSequence(The.calls[t])
      /\ \A call \in ToSet(The.calls[t]) : OfEvents(call)
  BY <1>1, CallsAre DEF ThreadsInv
<1>. DEFINE call == The.calls[t][made[t] + 1]
<1>3. Len(The.calls[t]) \in Nat /\ made[t] < Len(The.calls[t])
  BY <1>2, SequenceHas DEF Call
<1>4. made[t] + 1 \in 1..Len(The.calls[t])
  BY <1>1, <1>3
<1>5. OfEvents(call)
  BY <1>2, <1>4, SequenceHas
<1>6. made' \in [Threads -> Nat]
  BY <1>1 DEF ThreadsInv, Call
<1>7. Calls(t, call)
  BY DEF Call
<1>. HIDE DEF call
<1>. QED
  BY <1>1, <1>5, <1>6, <1>7, CallsStep

\* Another handler makes one while a record is in progress.
LEMMA NestedCallStep ==
  ASSUME SanitizerSkips, IInv, NEW t \in Threads, NestedCall(t)
  PROVE  IInv'
<1>1. ThreadsInv /\ made' \in [Threads -> Nat]
  BY DEF IInv, ThreadsInv, NestedCall
<1>2. PICK call \in The.nested[t] : Calls(t, call)
  BY DEF NestedCall
<1>3. OfEvents(call)
  BY <1>1, CallsAre DEF ThreadsInv
<1>. QED
  BY <1>1, <1>2, <1>3, CallsStep

\* The event that is logged again is the same one, and counts as disturbed.
LEMMA ForwardStep ==
  ASSUME IInv, NEW t \in Threads, Forward(t)
  PROVE  IInv'
<1>. DEFINE r == Last(stack[t])
<1>1. ThreadsInv /\ RecordsAre(stack[t], t) /\ DOMAIN stack = Threads
  BY DEF IInv, ThreadsInv
<1>2. RecordIs(r, t)
  BY <1>1, TopIs DEF Forward, RecordsAre
<1>3. PICK call \in The.forwards :
        stack' = [stack EXCEPT ![t] =
                    Append(@, [Record(call, r.msg, r.object, <<>>) EXCEPT !.undisturbed = FALSE])]
  BY DEF Forward
<1>. HIDE DEF r
<1>. DEFINE new == [Record(call, r.msg, r.object, <<>>) EXCEPT !.undisturbed = FALSE]
            records == Append(stack[t], new)
<1>4. /\ {"call", "msg", "object", "info", "undisturbed"} \subseteq DOMAIN new
      /\ new.msg = r.msg /\ new.object = r.object /\ new.info = <<>> /\ new.undisturbed = FALSE
  BY DEF Record
<1>5. IsSequence(<<>>) /\ ~HasKey(<<>>, RequestId)
  BY ShortIs, NamesAre
<1>6. stack' = [stack EXCEPT ![t] = records]
  BY <1>1, <1>3
<1>. HIDE DEF new
<1>7. RecordIs(new, t)
  BY <1>2, <1>4, <1>5 DEF RecordIs
<1>8. RecordsAre(records, t)
  BY <1>1, <1>7, MoreRecords
<1>. HIDE DEF records
<1>9. made' \in [Threads -> Nat] /\ UNCHANGED <<situation, request>>
  BY <1>1 DEF ThreadsInv, Forward
<1>. QED
  BY <1>1, <1>6, <1>8, <1>9, OneStack, NoLineKept DEF IInv, Forward

\* A field put into the event of the record leaves an event.
LEMMA TamperStep ==
  ASSUME IInv, NEW t \in Threads, Tamper(t)
  PROVE  IInv'
<1>. DEFINE r == Last(stack[t])
            n == Len(stack[t])
<1>1. /\ ThreadsInv /\ RecordsAre(stack[t], t) /\ DOMAIN stack = Threads
      /\ made \in [Threads -> Nat] /\ stack[t] # <<>> /\ r.object # NoObject
      /\ UNCHANGED <<situation, made, request, final, produced, last>>
  BY DEF IInv, ThreadsInv, Tamper
<1>2. RecordIs(r, t)
  BY <1>1, TopIs DEF RecordsAre
<1>3. PICK field \in The.tamper :
        stack' = [stack EXCEPT ![t][n] =
                    [r EXCEPT !.undisturbed = FALSE, !.msg.items = Put(@, field[1], field[2])]]
  BY DEF Tamper
<1>. HIDE DEF r, n
<1>. DEFINE put == Put(r.msg.items, field[1], field[2])
            new == [r EXCEPT !.undisturbed = FALSE, !.msg.items = Put(@, field[1], field[2])]
            records == [stack[t] EXCEPT ![n] = new]
<1>4. stack' = [stack EXCEPT ![t] = records]
  BY <1>1, <1>3
<1>5. IsSequence(put)
  BY <1>1, <1>2, PutIs DEF RecordIs
<1>6. /\ DOMAIN new = DOMAIN r /\ new.call = r.call /\ new.object = r.object /\ new.info = r.info
      /\ new.undisturbed = FALSE /\ DOMAIN new.msg = DOMAIN r.msg /\ new.msg.items = put
  BY <1>1, <1>2 DEF RecordIs
<1>. HIDE DEF new, put
<1>7. RecordIs(new, t)
  BY <1>2, <1>5, <1>6 DEF RecordIs
<1>8. IsSequence(records) /\ ToSet(records) \subseteq ToSet(stack[t]) \cup {new}
  BY <1>1, ReplacedIs DEF RecordsAre, n
<1>. HIDE DEF records
<1>9. RecordsAre(records, t)
  BY <1>1, <1>7, <1>8 DEF RecordsAre
<1>10. ThreadsInv'
  BY <1>1, <1>4, <1>9, OneStack
<1>11. MetadataIsEstablished'
  BY <1>1, EstablishedStays DEF IInv, MetadataIsEstablished
<1>. QED
  BY <1>10, <1>11 DEF IInv

\* A line is of the innermost record, which then is done.
LEMMA EmittedStep ==
  ASSUME IInv, NEW t \in Threads, stack[t] # <<>>, NEW line, Emitted(t, line),
         line.kind = "line" => Established(line.items, Last(stack[t]), t)
  PROVE  IInv'
<1>. DEFINE records == Front(stack[t])
<1>1. /\ ThreadsInv /\ RecordsAre(stack[t], t) /\ DOMAIN stack = Threads
      /\ made \in [Threads -> Nat]
      /\ UNCHANGED <<situation, made, request, final, produced>>
  BY DEF IInv, ThreadsInv, Emitted
<1>2. IsSequence(records) /\ ToSet(records) \subseteq ToSet(stack[t])
  BY <1>1, TopIs DEF RecordsAre
<1>3. stack' = [stack EXCEPT ![t] = records]
  BY <1>1 DEF Emitted
<1>. HIDE DEF records
<1>4. RecordsAre(records, t)
  BY <1>1, <1>2 DEF RecordsAre
<1>5. ThreadsInv'
  BY <1>1, <1>3, <1>4, OneStack
<1>6. /\ last'.kind = line.kind /\ last'.items = line.items
      /\ last'.record = Last(stack[t]) /\ last'.thread = t
  BY DEF Emitted
<1>7. MetadataIsEstablished'
  BY <1>1, <1>6, EstablishedStays DEF MetadataIsEstablished
<1>. QED
  BY <1>5, <1>7 DEF IInv

\* The line of the innermost record has its metadata established.
LEMMA WriteStep ==
  ASSUME SanitizerSkips, IInv, NEW t \in Threads, Write(t)
  PROVE  IInv'
<1>. DEFINE r == Last(stack[t])
<1>1. /\ situation \in 1..Len(Situations) /\ OneRequest(t) /\ RecordsAre(stack[t], t)
      /\ stack[t] # <<>>
  BY DEF IInv, ThreadsInv, Write
<1>2. RecordIs(r, t)
  BY <1>1, TopIs DEF RecordsAre
<1>4. PICK handler \in r.handler..final : Emitted(t, format(r, t, handler))
  BY DEF Write
<1>3. format(r, t, handler).kind = "line" => Established(format(r, t, handler).items, r, t)
  BY <1>1, <1>2, LineIs
<1>. QED
  BY <1>1, <1>3, <1>4, EmittedStep

\* What goes to stderr is no line.
LEMMA WriteFailsStep ==
  ASSUME IInv, NEW t \in Threads, WriteFails(t)
  PROVE  IInv'
<1>1. handleError(Last(stack[t])).kind # "line"
  BY DEF handleError, Line
<1>. QED
  BY <1>1, EmittedStep DEF WriteFails

\* A thread that serves another request, or none, has no records in progress.
LEMMA ServeStep ==
  ASSUME IInv, NEW t \in Threads, Serve(t)
  PROVE  IInv'
<1>1. ThreadsInv /\ Threads' = Threads /\ UNCHANGED <<situation, made, stack>> /\ stack[t] = <<>>
  BY SameContext DEF IInv, Serve
<1>2. PICK id \in The.requests[t] :
        request' = [request EXCEPT ![t] = IF @ = {} THEN {id} ELSE {}]
  BY DEF Serve
<1>3. DOMAIN request' = Threads /\ \A u \in Threads : OneRequest(u)'
  BY <1>1, <1>2 DEF ThreadsInv, OneRequest
<1>4. ASSUME NEW u \in Threads PROVE RecordsAre(stack[u], u)'
  <2>1. RecordsAre(stack[u], u)
    BY <1>1 DEF ThreadsInv
  <2>2. CASE u = t
    <3>1. ToSet(stack[t]) = {}
      BY <1>1, ShortIs
    <3>. QED
      BY <1>1, <2>1, <2>2, <3>1 DEF RecordsAre
  <2>3. CASE u # t
    <3>1. request'[u] = request[u]
      BY <1>1, <1>2, <2>3 DEF ThreadsInv
    <3>2. \A items, call : EventKeeps(items, call, u)' <=> EventKeeps(items, call, u)
      BY <1>1, SameContext DEF EventKeeps
    <3>3. \A r : RecordIs(r, u)' <=> RecordIs(r, u)
      BY <1>1, <3>1, <3>2, SameContext DEF RecordIs
    <3>. QED
      BY <1>1, <2>1, <3>3 DEF RecordsAre
  <2>. QED
    BY <2>2, <2>3
<1>5. ThreadsInv'
  BY <1>1, <1>3, <1>4 DEF ThreadsInv
<1>. QED
  BY <1>5, NoLineKept DEF IInv, Serve

\* Nothing of the records changes: a configuration, or a step that does nothing.
LEMMA QuietStep ==
  ASSUME IInv, UNCHANGED <<situation, made, request, stack>>,
         \/ last' = NoLine
         \/ UNCHANGED <<final, produced, last>>
  PROVE  IInv'
<1>1. Threads' = Threads
  BY SameContext
<1>2. \A t : OneRequest(t)' <=> OneRequest(t)
  BY DEF OneRequest
<1>3. \A t \in Threads : RecordsAre(stack[t], t)' <=> RecordsAre(stack[t], t)
  BY RecordStays DEF RecordsAre
<1>4. ThreadsInv'
  BY <1>1, <1>2, <1>3 DEF IInv, ThreadsInv
<1>5. MetadataIsEstablished'
  BY NoLineKept, EstablishedStays DEF IInv, MetadataIsEstablished
<1>. QED
  BY <1>4, <1>5 DEF IInv

\* Nothing is in progress and nothing is written.
LEMMA InitIs ==
  ASSUME Init
  PROVE  IInv
<1>1. IsSequence(<<>>) /\ ToSet(<<>>) = {}
  BY ShortIs
<1>2. \A t \in Threads : RecordsAre(stack[t], t) /\ OneRequest(t)
  BY <1>1 DEF Init, RecordsAre, OneRequest
<1>3. ThreadsInv
  BY <1>2 DEF Init, ThreadsInv
<1>4. last.kind # "line"
  BY DEF Init, NoLine
<1>. QED
  BY <1>3, <1>4 DEF IInv, MetadataIsEstablished

-----------------------------------------------------------------------------
(* The theorem                                                             *)

\* Every step keeps the invariant.
LEMMA StepIs ==
  ASSUME SanitizerSkips, IInv, [Next]_vars
  PROVE  IInv'
<1>1. CASE \E t \in Threads : Call(t) \/ NestedCall(t) \/ Forward(t) \/ Tamper(t) \/ Write(t)
                                \/ WriteFails(t) \/ Serve(t)
  BY <1>1, CallStep, NestedCallStep, ForwardStep, TamperStep, WriteStep, WriteFailsStep, ServeStep
<1>2. CASE ConfigureStructlog
  BY <1>2, QuietStep DEF ConfigureStructlog
<1>3. CASE ConfigureHandler
  BY <1>3, QuietStep DEF ConfigureHandler
<1>4. CASE UNCHANGED vars
  BY <1>4, QuietStep DEF vars
<1>. QED
  BY <1>1, <1>2, <1>3, <1>4 DEF Next

\* Whatever the events, the contexts and the other handlers say, and in whatever
\* order threads log, nest, serve and configure: a line's level, logger, time,
\* service and environment are the server's own, and its request id is the one
\* served, else the one bound to the context, else one a caller gave.  Of the
\* sanitiser this takes that it leaves the skipped names out, and nothing else.
THEOREM MetadataEstablished ==
  ASSUME SanitizerSkips
  PROVE  Spec => []MetadataIsEstablished
<1>1. Init => IInv
  BY InitIs
<1>2. IInv /\ [Next]_vars => IInv'
  BY StepIs
<1>3. IInv => MetadataIsEstablished
  BY DEF IInv
<1>. QED
  BY <1>1, <1>2, <1>3, PTL DEF Spec

-----------------------------------------------------------------------------
(* Secrets: what redaction and the callers promise                         *)

Shows(items) == "s" \in Rendered(items)
\* An event of fields of a set, and the fields of a set that show no secret.
IsField(field) == field = <<field[1], field[2]>>
Of(items, w) ==
  IsSequence(items) /\ \A field \in ToSet(items) : IsField(field) /\ field \in w
Hidden(w) == {field \in w : ~Shows(<<field>>)}

\* What the pipeline writes of its own accord.
Fixed ==
  {<<Named("event"), Named(word)>> : word \in PipelineWords}
    \cup {<<Named(n), Named(IDENTITY_FALLBACKS[n])>> : n \in Metadata}
    \cup {<<Named("timestamp"), Named(time)>> : time \in {"then", "now"}}
    \cup {<<Named("error_type"), Text(TypeName)>>, <<RESERVED, Text(Note)>>,
          <<Text(TRUNCATED), Text(Note)>>}

\* The message that is made of a value which is no text.
Message(v, heap) ==
  LET clean == Sanitize[v, heap]
  IN  <<Named("event"), Text(IF clean.t = "text" THEN clean.s ELSE json_dumps[clean])>>

\* A set of fields in which redaction finds each secret: of an event of such
\* fields it leaves some of which none shows one; neither the metadata that is
\* accepted nor what the pipeline itself writes shows one; and an event, or the
\* message made of it, shows no more than its fields.
Redacts(w, heap) ==
  /\ Fixed \subseteq Hidden(w)
  /\ \A n \in Metadata : \A v :
       <<Named(n), v>> \in w /\ IsIdentifier[v] => <<Named(n), v>> \in Hidden(w)
  /\ \A event : Of(event, w) =>
       LET clean == SanitizeEvent[event, NOT_PAYLOAD, LEADING_FIELDS, ASSEMBLED_FIELDS, heap].v
       IN  clean = Raise \/ Of(clean.items, Hidden(w))
  /\ \A items : Of(items, Hidden(w)) => ~Shows(items) /\ Message(MapOf(items), heap) \in w

\* The template of a call to a logger of the standard library, and its message.
Template(call) == SubSeq(call.event.s, 1, Least(MAX_STRING_LENGTH + 1, Len(call.event.s)))
MessageIsWritten(call, w, heap) ==
  LET args == Sanitize[ListOf(call.args), heap]
  IN  IF call.event.t # "text" THEN Message(call.event, heap) \in w
      ELSE /\ call.args = <<>> => <<Named("event"), Text(call.event.s)>> \in w
           /\ _is_bounded_template(Template(call)) /\ args.t = "list"
                /\ Directives(Template(call)) = Len(args.items)
                => <<Named("event"), Text(Interpolated(Template(call), args.items))>> \in w

\* Who logs at which level.
CallerIsWritten(call, w) ==
  <<Named("level"), call.level>> \in w /\ <<Named("logger"), call.logger>> \in w

\* What is logged in a situation is written in fields of the set: by the callers,
\* the context, the server and the other handlers, and as tracebacks and stacks.
WritesIn(w, s) ==
  /\ \A t \in DOMAIN s.calls :
       /\ \A call \in ToSet(s.calls[t]) \cup s.nested[t] :
            /\ Of(call.fields, w) /\ \A i \in 1..Len(call.binds) : Of(call.binds[i], w)
            /\ <<Named("event"), call.event>> \in w
            /\ ~call.structlog => MessageIsWritten(call, w, s.heap)
            /\ CallerIsWritten(call, w)
       /\ \A i \in 1..Len(s.context[t]) :
            LET v == s.context[t][i]
            IN  v.ours /\ v.bound => <<v.name, v.value>> \in w
       /\ \A id \in s.requests[t] : <<RequestId, id>> \in w
  /\ \A call \in s.forwards : CallerIsWritten(call, w)
  /\ \A field \in s.tamper : <<field[1], field[2]>> \in w
  /\ \A config \in ToSet(s.configs) : /\ <<Named("service"), config.service>> \in w
                                      /\ <<Named("environment"), config.environment>> \in w
  /\ \A e \in s.handling \cup {field[2].e : field \in {f \in w : f[1] = Named("exc_info")
                                                                /\ f[2].t = "error"}} :
       <<Named("exception"), Text(TracebackText[e, s.heap])>> \in w
  /\ <<Named("stack"), Text(StackText[_calling_frame(s.frames), s.heap])>> \in w

-----------------------------------------------------------------------------
(* Events of fields of a set                                               *)

\* A name and a value are a field.
LEMMA PairIsField == \A name, value : IsField(<<name, value>>)
BY DEF IsField

\* Some of the fields.
LEMMA SomeOf ==
  ASSUME NEW w, NEW event, Of(event, w), NEW names
  PROVE  Of(Only(event, names), w) /\ Of(Without(event, names), w)
BY OnlyIs, WithoutIs DEF Of

\* The fields of two events.
LEMMA JoinedOf ==
  ASSUME NEW w, NEW d, Of(d, w), NEW e, Of(e, w)
  PROVE  Of(d \o e, w)
BY JoinedIs DEF Of

\* One more field.
LEMMA AppendedOf ==
  ASSUME NEW w, NEW event, Of(event, w), NEW name, NEW value, <<name, value>> \in w
  PROVE  Of(Append(event, <<name, value>>), w)
BY AppendedIs, PairIsField DEF Of

\* No field, and a single one.
LEMMA SmallOf ==
  ASSUME NEW w
  PROVE  Of(<<>>, w) /\ \A name, value : <<name, value>> \in w => Of(<<<<name, value>>>>, w)
BY ShortIs, PairIsField DEF Of

\* The set may be larger.
LEMMA MoreOf ==
  ASSUME NEW w, NEW v, v \subseteq w, NEW event, Of(event, v)
  PROVE  Of(event, w)
BY DEF Of

\* The value of a field.
LEMMA FieldOf ==
  ASSUME NEW w, NEW event, Of(event, w), NEW name, HasKey(event, name)
  PROVE  <<name, Field(event, name)>> \in w
<1>1. PICK field \in ToSet(event) : field[1] = name /\ field[2] = Field(event, name)
  BY FieldIs DEF Of
<1>2. field = <<field[1], field[2]>> /\ field \in w
  BY <1>1 DEF Of, IsField
<1>. QED
  BY <1>1, <1>2

\* A value put into an event, in place of another or as one more.
LEMMA PutOf ==
  ASSUME NEW w, NEW event, Of(event, w), NEW name, NEW value, <<name, value>> \in w
  PROVE  Of(Put(event, name, value), w)
<1>1. CASE ~HasKey(event, name)
  BY <1>1, AppendedOf DEF Put
<1>2. CASE HasKey(event, name)
  <2>. DEFINE field == <<name, value>>
              put == [i \in 1..Len(event) |-> IF event[i][1] = name THEN field ELSE event[i]]
  <2>1. Put(event, name, value) = put
    BY <1>2 DEF Put
  <2>2. IsField(field) /\ field \in w
    BY PairIsField
  <2>. HIDE DEF field
  <2>3. Len(event) \in Nat /\ ToSet(event) = {event[i] : i \in 1..Len(event)}
    BY SequenceHas DEF Of
  <2>4. IsSequence(put) /\ Len(put) = Len(event)
    BY <2>3, FunctionIsSequence
  <2>5. ToSet(put) = {put[i] : i \in 1..Len(event)}
    BY <2>4, SequenceHas
  <2>6. ToSet(put) \subseteq ToSet(event) \cup {field}
    BY <2>3, <2>5
  <2>. HIDE DEF put
  <2>. QED
    BY <2>1, <2>2, <2>4, <2>6 DEF Of
<1>. QED
  BY <1>1, <1>2

\* A value that is only put where there is none.
LEMMA SetDefaultOf ==
  ASSUME NEW w, NEW event, Of(event, w), NEW name, NEW value, <<name, value>> \in w
  PROVE  Of(SetDefault(event, name, value), w)
BY AppendedOf DEF SetDefault

\* An event completed by another.
LEMMA CompletedOf ==
  ASSUME NEW w, NEW event, Of(event, w), NEW more, Of(more, w)
  PROVE  Of(Completed(event, more), w)
BY CompletedIs DEF Of

\* An event updated by another.
LEMMA UpdateOf ==
  ASSUME NEW w, NEW event, Of(event, w), NEW more, Of(more, w)
  PROVE  Of(Update(event, more), w)
<1>. DEFINE F(i) == IF HasKey(more, event[i][1]) THEN <<event[i][1], Field(more, event[i][1])>>
                    ELSE event[i]
            old == [i \in 1..Len(event) |-> F(i)]
            new == Without(more, FieldNames(event))
<1>1. Update(event, more) = old \o new
  BY DEF Update
<1>2. Of(new, w)
  BY SomeOf
<1>3. Len(event) \in Nat /\ ToSet(event) = {event[i] : i \in 1..Len(event)}
  BY SequenceHas DEF Of
<1>4. IsSequence(old) /\ Len(old) = Len(event)
  BY <1>3, FunctionIsSequence
<1>5. ToSet(old) = {old[i] : i \in 1..Len(event)}
  BY <1>4, SequenceHas
<1>6. ASSUME NEW i \in 1..Len(event) PROVE IsField(F(i)) /\ F(i) \in w
  <2>1. CASE HasKey(more, event[i][1])
    BY <2>1, FieldOf, PairIsField
  <2>2. CASE ~HasKey(more, event[i][1])
    BY <1>3, <2>2 DEF Of
  <2>. QED
    BY <2>1, <2>2
<1>. HIDE DEF F
<1>7. Of(old, w)
  BY <1>4, <1>5, <1>6 DEF Of
<1>. HIDE DEF old, new
<1>. QED
  BY <1>1, <1>2, <1>7, JoinedOf

\* The metadata in the order of the names.
LEMMA OrderedOf ==
  ASSUME NEW w, NEW event, Of(event, w)
  PROVE  Of(Ordered(event), w)
<1>. DEFINE F(n) == <<Named(n), Field(event, Named(n))>>
            present == {m \in Metadata : HasKey(event, Named(m))}
<1>1. IsSequence(Ordered(event)) /\ ToSet(Ordered(event)) = {F(n) : n \in present}
  BY OrderedIs DEF Of
<1>2. \A n \in present : F(n) \in w /\ IsField(F(n))
  BY FieldOf, PairIsField
<1>. HIDE DEF F
<1>. QED
  BY <1>1, <1>2 DEF Of

-----------------------------------------------------------------------------
(* The metadata shows no secret                                            *)

\* What is hidden is of the set.
LEMMA HiddenIs == ASSUME NEW w PROVE Hidden(w) \subseteq w
BY DEF Hidden

\* A value of a metadata field is one that was accepted, or the fixed one.
LEMMA IdentifierOf ==
  ASSUME NEW w, NEW heap, Redacts(w, heap), NEW n \in Metadata, NEW v, <<Named(n), v>> \in w
  PROVE  IsField(Identifier(n, v)) /\ Identifier(n, v) \in Hidden(w)
<1>1. Identifier(n, v) = IF IsIdentifier[v] THEN <<Named(n), v>>
                         ELSE <<Named(n), Named(IDENTITY_FALLBACKS[n])>>
  BY DEF Identifier, trusted_identifier
<1>2. <<Named(n), Named(IDENTITY_FALLBACKS[n])>> \in Hidden(w)
  BY DEF Redacts, Fixed
<1>3. IsIdentifier[v] => <<Named(n), v>> \in Hidden(w)
  BY DEF Redacts
<1>. QED
  BY <1>1, <1>2, <1>3, PairIsField

\* The metadata that the server establishes.
LEMMA OwnOf ==
  ASSUME NEW w, NEW heap, Redacts(w, heap), NEW logger, NEW level, NEW time \in {"then", "now"},
         NEW config, <<Named("logger"), logger>> \in w, <<Named("level"), level>> \in w,
         <<Named("service"), config.service>> \in w,
         <<Named("environment"), config.environment>> \in w
  PROVE  Of(_establish_identity(logger, level, time, config), Hidden(w))
<1>1. <<Named("timestamp"), Named(time)>> \in w
  BY HiddenIs DEF Redacts, Fixed
<1>. DEFINE a == Identifier("timestamp", Named(time))
            b == Identifier("level", level)
            c == Identifier("logger", logger)
            d == Identifier("service", config.service)
            e == Identifier("environment", config.environment)
<1>2. {"timestamp", "level", "logger", "service", "environment"} \subseteq Metadata
  BY MetadataIs
<1>3. \A x \in {a, b, c, d, e} : IsField(x) /\ x \in Hidden(w)
  BY <1>1, <1>2, IdentifierOf
<1>4. _establish_identity(logger, level, time, config) = <<a, b, c, d, e>>
  BY DEF _establish_identity
<1>. HIDE DEF a, b, c, d, e
<1>. QED
  BY <1>3, <1>4, FiveAre DEF Of

\* The request id that is established: of the request or of the event.
LEMMA RequestIdOf ==
  ASSUME NEW w, NEW heap, Redacts(w, heap), NEW identity, Of(identity, Hidden(w)),
         NEW event, Of(event, w), NEW t, \A x \in request[t] : <<RequestId, x>> \in w
  PROVE  Of(_establish_request_id(identity, event, t), Hidden(w))
<1>. DEFINE bound == {Field(event, n) : n \in FieldNames(event) \cap {RequestId}}
            known == IF request[t] # {} THEN request[t] ELSE bound
            id == CHOOSE x \in known : TRUE
            result == _establish_request_id(identity, event, t)
            field == Identifier("request_id", id)
<1>1. result = IF known = {} THEN identity ELSE Update(identity, <<field>>)
  BY DEF _establish_request_id, RequestId
<1>2. \A x \in bound : <<RequestId, x>> \in w
  BY FieldOf, NamesAre DEF Of
<1>3. known # {} => id \in known
  OBVIOUS
<1>4. known # {} => <<Named("request_id"), id>> \in w
  BY <1>2, <1>3 DEF RequestId
<1>. HIDE DEF result, id, known
<1>5. known # {} => IsField(field) /\ field \in Hidden(w)
  BY <1>4, MetadataIs, IdentifierOf
<1>. HIDE DEF field
<1>6. known # {} => Of(<<field>>, Hidden(w))
  BY <1>5, ShortIs DEF Of
<1>. QED
  BY <1>1, <1>6, UpdateOf DEF result

\* The metadata an event has.
LEMMA IdentityOf ==
  ASSUME NEW w, NEW heap, Redacts(w, heap), NEW event, Of(event, w)
  PROVE  Of(_identity(event), Hidden(w))
<1>. DEFINE own == Only(event, Identifiers)
            present == Ordered(own)
            F(field) == Identifier(Head(field[1].s), field[2])
            result == [i \in 1..Len(present) |-> F(present[i])]
<1>1. _identity(event) = result
  BY DEF _identity
<1>2. IsSequence(own) /\ Of(own, w)
  BY SomeOf DEF Of
<1>. HIDE DEF own
<1>3. /\ IsSequence(present) /\ Of(present, w)
      /\ \A field \in ToSet(present) : \E n \in Metadata : field[1] = Named(n)
  BY <1>2, OrderedIs, OrderedOf
<1>. HIDE DEF present
<1>4. Len(present) \in Nat /\ ToSet(present) = {present[i] : i \in 1..Len(present)}
  BY <1>3, SequenceHas
<1>5. IsSequence(result) /\ Len(result) = Len(present)
  BY <1>4, FunctionIsSequence
<1>6. ToSet(result) = {result[i] : i \in 1..Len(present)}
  BY <1>5, SequenceHas
<1>7. \A n : Head(Named(n).s) = n
  BY DEF Named, Text
<1>8. ASSUME NEW field \in ToSet(result) PROVE IsField(field) /\ field \in Hidden(w)
  <2>1. PICK f \in ToSet(present) : field = F(f)
    BY <1>4, <1>6
  <2>2. PICK n \in Metadata : f[1] = Named(n)
    BY <1>3
  <2>3. field = Identifier(n, f[2])
    BY <1>7, <2>1, <2>2
  <2>4. <<Named(n), f[2]>> \in w
    BY <1>3, <2>2 DEF Of, IsField
  <2>. QED
    BY <2>3, <2>4, IdentifierOf
<1>. QED
  BY <1>1, <1>5, <1>8 DEF Of

-----------------------------------------------------------------------------
(* The passes leave nothing that shows a secret                            *)

\* The event in place of one that redaction failed on.
LEMMA FailureOf ==
  ASSUME NEW w, NEW heap, Redacts(w, heap), NEW identity, Of(identity, Hidden(w)),
         NEW event \in PipelineWords
  PROVE  Of(_failure_event(identity, event), Hidden(w))
<1>. DEFINE what == <<Named("event"), Named(event)>>
            type == <<Named("error_type"), Text(TypeName)>>
<1>1. what \in Hidden(w) /\ type \in Hidden(w)
  BY DEF Redacts, Fixed
<1>2. IsField(what) /\ IsField(type)
  BY PairIsField
<1>3. _failure_event(identity, event) = <<what, type>> \o identity
  BY DEF _failure_event
<1>. HIDE DEF what, type
<1>4. Of(<<what, type>>, Hidden(w))
  BY <1>1, <1>2, PairIs DEF Of
<1>. QED
  BY <1>3, <1>4, JoinedOf

\* What is left of an event, under what is known of the record.
LEMMA SanitisedOf ==
  ASSUME NEW w, Redacts(w, Heap), NEW event, Of(event, w), NEW identity, Of(identity, Hidden(w))
  PROVE  /\ Of(_failure_event(identity, "log_event_redaction_failed"), Hidden(w))
         /\ _sanitized_fields(event).v # Raise
              => Of(Completed(identity, _sanitized_fields(event).v.items), Hidden(w))
<1>1. _sanitized_fields(event).v # Raise => Of(_sanitized_fields(event).v.items, Hidden(w))
  BY DEF Redacts, _sanitized_fields
<1>2. "log_event_redaction_failed" \in PipelineWords
  BY DEF PipelineWords
<1>. QED
  BY <1>1, <1>2, FailureOf, CompletedOf

\* What the first pipeline assembles.
LEMMA AssembledOf ==
  ASSUME NEW w, Redacts(w, Heap), NEW event, Of(event, w), NEW identity, Of(identity, Hidden(w))
  PROVE  Of(_assemble(event, identity), Hidden(w))
<1>1. Of(Ordered(identity), Hidden(w))
  BY OrderedOf
<1>. QED
  BY <1>1, SanitisedOf DEF _assemble

\* An event that is emitted shows no secret.
LEMMA EmittedOf ==
  ASSUME NEW w, Redacts(w, Heap), NEW event, Of(event, w)
  PROVE  Of(redact_sensitive_fields(event), Hidden(w))
<1>1. Of(_identity(event), Hidden(w))
  BY IdentityOf
<1>. QED
  BY <1>1, SanitisedOf DEF redact_sensitive_fields

\* The context merged into an event.
LEMMA MergeOf ==
  ASSUME NEW w, NEW heap, Redacts(w, heap), NEW m, "event" \in DOMAIN m, Of(m.event, w),
         NEW v, v.ours /\ v.bound => <<v.name, v.value>> \in w, NEW i
  PROVE  "event" \in DOMAIN Merge(m, v, i) /\ Of(Merge(m, v, i).event, w)
<1>. DEFINE e == Append(m.event, <<v.name, v.value>>)
            d == SetDefault(m.event, Text(TRUNCATED), Text(Note))
            more == [m EXCEPT !.event = Append(@, <<v.name, v.value>>),
                              !.room = @ - (IF v.name \in UNCOUNTED THEN 0 ELSE 1)]
            cut == [m EXCEPT !.event = d, !.full = TRUE]
<1>1. \/ Merge(m, v, i) = m
      \/ Merge(m, v, i) = cut
      \/ Merge(m, v, i) = more /\ v.ours /\ v.bound
  BY DEF Merge
<1>2. Of(d, w)
  <2>1. <<Text(TRUNCATED), Text(Note)>> \in w
    BY HiddenIs DEF Redacts, Fixed
  <2>. QED
    BY <2>1, SetDefaultOf
<1>3. v.ours /\ v.bound => Of(e, w)
  BY AppendedOf
<1>4. "event" \in DOMAIN more /\ more.event = e /\ "event" \in DOMAIN cut /\ cut.event = d
  OBVIOUS
<1>. HIDE DEF e, d, more, cut
<1>. QED
  BY <1>1, <1>2, <1>3, <1>4

\* Any number of variables merged into an event.
LEMMA MergesOf ==
  ASSUME NEW w, NEW heap, Redacts(w, heap), NEW b, "event" \in DOMAIN b, Of(b.event, w),
         NEW variables, NEW n \in Nat,
         \A i \in 1..n : variables[i].ours /\ variables[i].bound
                           => <<variables[i].name, variables[i].value>> \in w,
         NEW f, Merges(f, b, variables, n)
  PROVE  Of(f[n].event, w)
<1>. DEFINE Good(m) == "event" \in DOMAIN m /\ Of(m.event, w)
            T == {i \in Nat : i \in 0..n => Good(f[i])}
<1>1. \A i \in 0..n : f[i] = IF i = 0 THEN b ELSE Merge(f[i - 1], variables[i], i)
  BY Zenon DEF Merges
<1>2. 0 \in T
  BY <1>1
<1>3. ASSUME NEW i \in Nat, i \in T PROVE i + 1 \in T
  <2> SUFFICES ASSUME i + 1 \in 0..n PROVE Good(f[i + 1])
    OBVIOUS
  <2>1. Good(f[i])
    BY <1>3
  <2>2. (i + 1) - 1 = i /\ i + 1 # 0 /\ i + 1 \in 1..n
    OBVIOUS
  <2>3. f[i + 1] = Merge(f[i], variables[i + 1], i + 1)
    BY <1>1, <2>2
  <2>. QED
    BY <2>1, <2>2, <2>3, MergeOf
<1>. HIDE DEF T
<1>4. \A i \in Nat : i \in T
  BY <1>2, <1>3, Induction
<1>5. n \in T
  BY <1>4
<1>. QED
  BY <1>5 DEF T

\* The variables of a thread's context that are read.
LEMMA ContextOf ==
  ASSUME NEW w, WritesIn(w, The), situation \in 1..Len(Situations), NEW t \in Threads
  PROVE  /\ Len(The.context[t]) \in Nat
         /\ \A i \in 1..Len(The.context[t]) :
              LET v == The.context[t][i]
              IN  v.ours /\ v.bound => <<v.name, v.value>> \in w
         /\ _context_request_id(t) # <<>> => <<RequestId, _context_request_id(t)[1].value>> \in w
<1>. DEFINE variables == The.context[t]
            ids == _context_request_id(t)
            read == {i \in 1..Len(variables) : variables[i].ours /\ variables[i].bound}
<1>1. IsSequence(variables) /\ IsSequence(ids)
  BY ContextIdIs
<1>2. Len(variables) \in Nat
  BY <1>1, SequenceHas
<1>3. \A i \in 1..Len(variables) :
        LET v == variables[i] IN v.ours /\ v.bound => <<v.name, v.value>> \in w
  BY DEF WritesIn, Threads
<1>4. IsSequence(Bound(t)) /\ ToSet(Bound(t)) = {variables[i] : i \in read \cap 1..Len(variables)}
  BY <1>1, PickedIs DEF Bound
<1>5. \A v \in ToSet(Bound(t)) : <<v.name, v.value>> \in w
  BY <1>3, <1>4
<1>6. \A v \in ToSet(ids) : v \in ToSet(Bound(t)) /\ v.name = RequestId
  <2>. DEFINE bound == Bound(t)
              places == {i \in 1..Len(bound) : bound[i].name = RequestId}
  <2>1. ids = Picked(bound, places)
    BY DEF _context_request_id, RequestId
  <2>2. IsSequence(bound)
    BY <1>4
  <2>. HIDE DEF bound, ids, read
  <2>3. ToSet(ids) = {bound[i] : i \in places \cap 1..Len(bound)}
    BY <2>1, <2>2, PickedIs
  <2>4. ToSet(bound) = {bound[i] : i \in 1..Len(bound)}
    BY <2>2, SequenceHas
  <2>. QED
    BY <2>3, <2>4 DEF bound
<1>7. ids # <<>> => ids[1] \in ToSet(ids)
  <2>1. ids # <<>> => Len(ids) # 0
    BY <1>1 DEF IsSequence
  <2>. QED
    BY <1>1, <2>1, SequenceHas
<1>. QED
  BY <1>2, <1>3, <1>5, <1>6, <1>7

\* The whole context merged into an event.
LEMMA MergedOf ==
  ASSUME NEW w, Redacts(w, Heap), WritesIn(w, The), situation \in 1..Len(Situations),
         NEW t \in Threads, NEW event, Of(event, w)
  PROVE  Of(merge_bounded_contextvars(event, t), w)
<1>. DEFINE ids == _context_request_id(t)
            named == IF ids = <<>> THEN event ELSE Put(event, RequestId, ids[1].value)
            variables == The.context[t]
            n == Len(variables)
            b == [event |-> named, full |-> FALSE,
                  room |-> MAX_EVENT_FIELDS - Len(Without(named, UNCOUNTED))]
            merges == CHOOSE f : Merges(f, b, variables, n)
<1>1. merge_bounded_contextvars(event, t) = merges[n].event
  BY DEF merge_bounded_contextvars, Merges, RequestId
<1>2. /\ n \in Nat
      /\ \A i \in 1..n : variables[i].ours /\ variables[i].bound
                           => <<variables[i].name, variables[i].value>> \in w
      /\ ids # <<>> => <<RequestId, ids[1].value>> \in w
  BY ContextOf
<1>. HIDE DEF ids, variables, n
<1>3. Of(named, w)
  BY <1>2, PutOf
<1>. HIDE DEF named
<1>4. "event" \in DOMAIN b /\ b.event = named
  OBVIOUS
<1>. HIDE DEF b
<1>5. Merges(merges, b, variables, n)
  BY <1>2, MergesExist
<1>. HIDE DEF merges
<1>6. Of(merges[n].event, w)
  BY <1>2, <1>3, <1>4, <1>5, MergesOf
<1>. QED
  BY <1>1, <1>6

\* A stack and a traceback take the places of what asked for them.
LEMMA RenderedOf ==
  ASSUME NEW w, WritesIn(w, The), NEW event, Of(event, w)
  PROVE  Of(render_stack_info(event), w) /\ Of(render_exc_info(event), w)
<1>1. Of(render_stack_info(event), w)
  <2>. DEFINE rest == Without(event, {Named("stack_info")})
              text == Text(StackText[_calling_frame(The.frames), Heap])
  <2>1. Of(rest, w)
    BY SomeOf
  <2>2. <<Named("stack"), text>> \in w
    BY DEF WritesIn, Heap
  <2>3. \/ render_stack_info(event) = event
        \/ render_stack_info(event) = Put(rest, Named("stack"), text)
    BY DEF render_stack_info
  <2>. HIDE DEF rest, text
  <2>. QED
    BY <2>1, <2>2, <2>3, PutOf
<1>2. Of(render_exc_info(event), w)
  <2>. DEFINE info == Field(event, Named("exc_info"))
              exc == IF info.t = "error" THEN {info.e} ELSE The.handling
              e == CHOOSE x \in exc : TRUE
              rest == Without(event, {Named("exc_info")})
              text == Text(TracebackText[e, Heap])
  <2>1. Of(rest, w)
    BY SomeOf
  <2>2. ASSUME HasKey(event, Named("exc_info")), exc # {} PROVE <<Named("exception"), text>> \in w
    <3>1. <<Named("exc_info"), info>> \in w
      BY <2>2, FieldOf
    <3>2. e \in exc
      BY <2>2
    <3>3. \A i : <<Named("exc_info"), i>>[1] = Named("exc_info") /\ <<Named("exc_info"), i>>[2] = i
      OBVIOUS
    <3>. HIDE DEF info
    <3>4. info.t = "error" =>
            info.e \in {field[2].e :
                          field \in {f \in w : f[1] = Named("exc_info") /\ f[2].t = "error"}}
      BY <3>1, <3>3
    <3>5. e \in The.handling \cup
                  {pair[2].e : pair \in {p \in w : p[1] = Named("exc_info") /\ p[2].t = "error"}}
      BY <3>2, <3>4
    <3>. HIDE DEF e, exc
    <3>. QED
      BY <3>5 DEF WritesIn, Heap
  <2>3. \/ render_exc_info(event) = event
        \/ render_exc_info(event) = rest
        \/ /\ HasKey(event, Named("exc_info")) /\ exc # {}
           /\ render_exc_info(event) = Put(rest, Named("exception"), text)
    BY DEF render_exc_info
  <2>. HIDE DEF rest, text, exc
  <2>. QED
    BY <2>1, <2>2, <2>3, PutOf
<1>. QED
  BY <1>1, <1>2

\* What the pipeline makes of an event shows no secret.
LEMMA ProcessedOf ==
  ASSUME NEW w, Redacts(w, Heap), WritesIn(w, The), situation \in 1..Len(Situations),
         NEW t \in Threads, \A x \in request[t] : <<RequestId, x>> \in w,
         NEW event, Of(event, w), NEW identity, Of(identity, Hidden(w))
  PROVE  Of(_process(event, identity, t), Hidden(w))
<1>. DEFINE merged == merge_bounded_contextvars(event, t)
            fields == Without(merged, PROCESSOR_META_KEYS)
            known == _establish_request_id(identity, fields, t)
            rendered == render_exc_info(render_stack_info(fields))
            assembled == _assemble(rendered, known)
<1>1. _process(event, identity, t)
        = IF fields = merged THEN assembled ELSE Put(assembled, RESERVED, Text(Note))
  BY DEF _process
<1>2. Of(fields, w)
  BY MergedOf, SomeOf
<1>. HIDE DEF merged, fields
<1>3. Of(known, Hidden(w))
  BY <1>2, RequestIdOf
<1>4. Of(rendered, w)
  BY <1>2, RenderedOf
<1>. HIDE DEF known, rendered
<1>5. Of(assembled, Hidden(w))
  BY <1>3, <1>4, AssembledOf
<1>6. <<RESERVED, Text(Note)>> \in Hidden(w)
  BY DEF Redacts, Fixed
<1>. HIDE DEF assembled
<1>. QED
  BY <1>1, <1>5, <1>6, PutOf

\* What a bound logger hands over is of what it was given.
LEMMA AdmittedOf ==
  ASSUME NEW w, NEW heap, Redacts(w, heap), NEW values, Of(values, w), NEW room \in Int
  PROVE  Of(_admitted(values, room), w)
<1>. DEFINE apart == Only(values, UNCOUNTED)
            fields == Without(values, UNCOUNTED)
            n == IF room < 0 THEN 0 ELSE Least(room, Len(fields))
            kept == SubSeq(fields, 1, n)
            marked == Put(kept, Text(TRUNCATED), Text(Note))
            result == _admitted(values, room)
<1>1. \/ result = values
      \/ result = marked \o apart
      \/ result = kept \o apart
  BY DEF _admitted
<1>2. Of(apart, w) /\ Of(fields, w)
  BY SomeOf
<1>. HIDE DEF result, apart, fields
<1>3. n \in Nat /\ n <= Len(fields)
  BY <1>2, SequenceHas DEF Least, Of
<1>. HIDE DEF n
<1>4. Of(kept, w)
  BY <1>2, <1>3, BeginningIs DEF Of
<1>. HIDE DEF kept
<1>5. <<Text(TRUNCATED), Text(Note)>> \in w
  BY HiddenIs DEF Redacts, Fixed
<1>6. Of(marked, w)
  BY <1>4, <1>5, PutOf
<1>. HIDE DEF marked
<1>. QED
  BY <1>1, <1>2, <1>4, <1>6, JoinedOf DEF result

\* The context after some binds.
LEMMA BindsOf ==
  ASSUME NEW w, NEW heap, Redacts(w, heap), NEW call, OfEvents(call),
         \A i \in 1..Len(call.binds) : Of(call.binds[i], w),
         NEW n \in Nat, n <= Len(call.binds), NEW f, Binds(f, call.binds, n)
  PROVE  Of(f[n], w)
<1>. DEFINE T == {i \in Nat : i \in 0..n => Of(f[i], w)}
<1>1. \A i \in 0..n : f[i] = IF i = 0 THEN <<>> ELSE bind(f[i - 1], call.binds[i])
  BY Zenon DEF Binds
<1>2. 0 \in T
  BY <1>1, SmallOf
<1>3. ASSUME NEW i \in Nat, i \in T PROVE i + 1 \in T
  <2> SUFFICES ASSUME i + 1 \in 0..n PROVE Of(f[i + 1], w)
    OBVIOUS
  <2>. DEFINE values == call.binds[i + 1]
              room == MAX_EVENT_FIELDS - Len(f[i])
  <2>1. Of(f[i], w)
    BY <1>3
  <2>2. (i + 1) - 1 = i /\ i + 1 # 0
    OBVIOUS
  <2>3. f[i + 1] = Update(f[i], _admitted(values, room))
    BY <1>1, <2>2 DEF bind
  <2>4. Len(call.binds) \in Nat
    BY SequenceHas DEF OfEvents
  <2>5. i + 1 \in 1..Len(call.binds) /\ Of(values, w)
    BY <2>4
  <2>6. room \in Int
    BY <2>1, SequenceHas, BoundsAssumption DEF MAX_EVENT_FIELDS, Of
  <2>. HIDE DEF values, room
  <2>7. Of(_admitted(values, room), w)
    BY <2>5, <2>6, AdmittedOf
  <2>. QED
    BY <2>1, <2>3, <2>7, UpdateOf
<1>. HIDE DEF T
<1>4. \A i \in Nat : i \in T
  BY <1>2, <1>3, Induction
<1>. QED
  BY <1>4 DEF T

\* A call as the situations have them.
CallIsWritten(call, w, heap) ==
  /\ OfEvents(call) /\ Of(call.fields, w) /\ \A i \in 1..Len(call.binds) : Of(call.binds[i], w)
  /\ <<Named("event"), call.event>> \in w
  /\ ~call.structlog => MessageIsWritten(call, w, heap)
  /\ CallerIsWritten(call, w)

\* The event of a call is of what its caller gave.
LEMMA EventOfCallOf ==
  ASSUME NEW w, NEW heap, Redacts(w, heap), NEW call, CallIsWritten(call, w, heap)
  PROVE  Of(_process_event(call), w)
<1>. DEFINE n == Len(call.binds)
            bound == CHOOSE f : Binds(f, call.binds, n)
            more == _admitted(call.fields, MAX_EVENT_FIELDS)
            updated == Update(bound[n], more)
<1>1. _process_event(call) = Put(updated, Named("event"), call.event)
  BY DEF _process_event, Binds
<1>2. OfEvents(call) /\ n \in Nat
  BY SequenceHas DEF CallIsWritten, OfEvents
<1>3. Binds(bound, call.binds, n)
  BY <1>2, BindsExist
<1>. HIDE DEF bound
<1>4. Of(bound[n], w)
  BY <1>2, <1>3, BindsOf DEF CallIsWritten
<1>5. Of(more, w)
  BY AdmittedOf, BoundsAssumption DEF MAX_EVENT_FIELDS, CallIsWritten
<1>. HIDE DEF n, more
<1>6. Of(updated, w)
  BY <1>4, <1>5, UpdateOf
<1>. HIDE DEF updated
<1>. QED
  BY <1>1, <1>6, PutOf DEF CallIsWritten

\* The process is configured, as one of its configurations says.
Configured == first \in 1..Len(The.configs) /\ final \in 1..Len(The.configs) /\ final <= first
\* Whichever handler writes a record had one of them.
Handlers(r) == r.handler \in 1..Len(The.configs)
ServesIds(t, w) == \A id \in request[t] : <<RequestId, id>> \in w

\* Service and environment.
LEMMA ConfigOf ==
  ASSUME NEW w, WritesIn(w, The), situation \in 1..Len(Situations), NEW n \in 1..Len(The.configs)
  PROVE  /\ <<Named("service"), The.configs[n].service>> \in w
         /\ <<Named("environment"), The.configs[n].environment>> \in w
<1>1. IsSequence(The.configs)
  BY SituationsAssumption DEF The
<1>2. The.configs[n] \in ToSet(The.configs)
  BY <1>1, SequenceHas
<1>. QED
  BY <1>2 DEF WritesIn

\* An event that other handlers are given shows no secret.
LEMMA FirstPassOf ==
  ASSUME NEW w, Redacts(w, Heap), WritesIn(w, The), situation \in 1..Len(Situations), Configured,
         NEW t \in Threads, ServesIds(t, w), NEW call, CallIsWritten(call, w, Heap)
  PROVE  Of(FirstPass(call, t), Hidden(w))
<1>. DEFINE own == _establish_identity(call.logger, call.level, "then", The.configs[first])
<1>1. Of(own, Hidden(w))
  BY ConfigOf, OwnOf DEF CallIsWritten, CallerIsWritten, Configured
<1>. HIDE DEF own
<1>2. Of(_process_event(call), w)
  BY EventOfCallOf
<1>3. FirstPass(call, t) = _process(_process_event(call), own, t)
  BY DEF FirstPass, own
<1>. QED
  BY <1>1, <1>2, <1>3, ProcessedOf DEF ServesIds

-----------------------------------------------------------------------------
(* Records and lines show no secret                                        *)

\* A record in progress: its event, if it carries one, or the message of its call.
Kept(r, w) ==
  /\ {"call", "msg", "object", "info", "args", "level", "logger", "handler", "undisturbed"}
       \subseteq DOMAIN r
  /\ Of(r.info, w) /\ CallerIsWritten(r, w) /\ Handlers(r)
  /\ r.object # NoObject => r.msg = MapOf(r.msg.items) /\ Of(r.msg.items, w)
  /\ r.object = NoObject => /\ ~r.call.structlog /\ r.msg = r.call.event /\ r.args = r.call.args
                            /\ MessageIsWritten(r.call, w, Heap)

\* An event carried by a record, as the first pipeline left it.
Untouched(r, w) == r.object # NoObject => Of(r.msg.items, Hidden(w))

\* What the formatter gets is written in fields of the set.
LEMMA SafeOf ==
  ASSUME NEW w, Redacts(w, Heap), NEW r, Kept(r, w), NEW t, IsProduced(r, t) \/ Untouched(r, w)
  PROVE  LET safe == _with_sanitized_arguments(r, t)
         IN  /\ safe.kind \in {"event", "message", "log_record_unsafe_format",
                               "log_record_unrenderable"}
             /\ safe.kind \in {"event", "message"} => Of(safe.event, w)
<1>. DEFINE safe == _with_sanitized_arguments(r, t)
            clean == Sanitize[r.msg, Heap]
            args == Sanitize[ListOf(r.args), Heap]
            template == SubSeq(r.msg.s, 1, Least(MAX_STRING_LENGTH + 1, Len(r.msg.s)))
            said == IF clean.t = "text" THEN clean.s ELSE json_dumps[clean]
            formatted == Interpolated(template, args.items)
<1>1. \A kind, event : Safe(kind, event).kind = kind /\ Safe(kind, event).event = event
  BY DEF Safe
<1>2. \A s : EventOf(s) = <<<<Named("event"), Text(s)>>>>
  BY DEF EventOf
<1>3. CASE IsProduced(r, t)
  <2>1. safe = Safe("event", r.msg.items)
    BY <1>3 DEF _with_sanitized_arguments
  <2>. HIDE DEF safe
  <2>2. Of(r.msg.items, w)
    BY <1>3 DEF Kept, IsProduced
  <2>. QED
    BY <1>1, <2>1, <2>2 DEF safe
<1>4. CASE ~IsProduced(r, t) /\ r.msg.t # "text"
  <2>1. safe = Safe("message", EventOf(said))
    BY <1>4 DEF _with_sanitized_arguments
  <2>2. <<Named("event"), Text(said)>> = Message(r.msg, Heap)
    BY DEF Message
  <2>. HIDE DEF safe, said
  <2>3. Message(r.msg, Heap) \in w
    <3>1. CASE r.object = NoObject
      BY <1>4, <3>1 DEF Kept, MessageIsWritten
    <3>2. CASE r.object # NoObject
      <4>1. Of(r.msg.items, Hidden(w)) /\ r.msg = MapOf(r.msg.items)
        BY <1>4, <3>2 DEF Kept, Untouched
      <4>. QED
        BY <4>1, Zenon DEF Redacts
    <3>. QED
      BY <3>1, <3>2
  <2>4. Of(EventOf(said), w)
    BY <1>2, <2>2, <2>3, SmallOf
  <2>. QED
    BY <1>1, <2>1, <2>4 DEF safe
<1>5. CASE ~IsProduced(r, t) /\ r.msg.t = "text"
  <2>1. r.object = NoObject
    <3>1. \A items : MapOf(items).t = "map"
      BY DEF MapOf
    <3>. QED
      BY <1>5, <3>1 DEF Kept
  <2>2. r.msg = r.call.event /\ r.args = r.call.args /\ MessageIsWritten(r.call, w, Heap)
    BY <2>1 DEF Kept
  <2>3. \/ r.args = <<>> /\ safe = Safe("message", EventOf(r.msg.s))
        \/ safe = Safe("log_record_unsafe_format", <<>>)
        \/ safe = Safe("log_record_unrenderable", <<>>)
        \/ /\ _is_bounded_template(template) /\ args.t = "list"
           /\ Directives(template) = Len(args.items)
           /\ safe = Safe("message", EventOf(formatted))
    BY <1>5 DEF _with_sanitized_arguments
  <2>4. template = Template(r.call)
    BY <2>2 DEF Template
  <2>. HIDE DEF safe, template
  <2>5. r.args = <<>> => <<Named("event"), Text(r.msg.s)>> \in w
    BY <1>5, <2>2 DEF MessageIsWritten
  <2>6. _is_bounded_template(template) /\ args.t = "list"
          /\ Directives(template) = Len(args.items)
          => <<Named("event"), Text(formatted)>> \in w
    BY <1>5, <2>2, <2>4 DEF MessageIsWritten
  <2>. HIDE DEF args, formatted
  <2>7. /\ r.args = <<>> => Of(EventOf(r.msg.s), w)
        /\ _is_bounded_template(template) /\ args.t = "list"
             /\ Directives(template) = Len(args.items) => Of(EventOf(formatted), w)
    BY <1>2, <2>5, <2>6, SmallOf
  <2>. QED
    BY <1>1, <2>3, <2>7 DEF safe
<1>. QED
  BY <1>3, <1>4, <1>5

\* Neither the emergency line nor what goes to stderr has anything of the event.
LEMMA EmergencyOf ==
  ASSUME NEW w, NEW heap, Redacts(w, heap), NEW r, CallerIsWritten(r, w),
         NEW event \in PipelineWords
  PROVE  /\ ~Shows(_emergency_line(r, event))
         /\ ~Shows(handleError(r).items)
<1>. DEFINE a == <<Named("event"), Named(event)>>
            b == Identifier("level", r.level)
            c == Identifier("logger", r.logger)
            d == Identifier("timestamp", Named("now"))
            e == <<Named("error_type"), Text(TypeName)>>
<1>1. {"level", "logger", "timestamp"} \subseteq Metadata
  BY MetadataIs
<1>2. <<Named("timestamp"), Named("now")>> \in w
  BY HiddenIs DEF Redacts, Fixed
<1>3. \A x \in {b, c, d} : IsField(x) /\ x \in Hidden(w)
  BY <1>1, <1>2, IdentifierOf DEF CallerIsWritten
<1>4. \A x \in {a, e} : IsField(x) /\ x \in Hidden(w)
  BY PairIsField DEF Redacts, Fixed
<1>5. _emergency_line(r, event) = <<a, b, c, d, e>> /\ handleError(r).items = <<c, b>>
  BY DEF _emergency_line, handleError, Line
<1>. HIDE DEF a, b, c, d, e
<1>6. Of(<<a, b, c, d, e>>, Hidden(w))
  BY <1>3, <1>4, FiveAre DEF Of
<1>7. Of(<<c, b>>, Hidden(w))
  BY <1>3, PairIs DEF Of
<1>. QED
  BY <1>5, <1>6, <1>7 DEF Redacts

\* A line shows no secret.
LEMMA FormatOf ==
  ASSUME NEW w, Redacts(w, Heap), WritesIn(w, The), situation \in 1..Len(Situations), Configured,
         NEW t \in Threads, ServesIds(t, w), NEW r, Kept(r, w), IsProduced(r, t) \/ Untouched(r, w),
         NEW handler \in r.handler..final
  PROVE  ~Shows(format(r, t, handler).items)
<1>. DEFINE safe == _with_sanitized_arguments(r, t)
            own == _establish_identity(r.logger, r.level, "now", The.configs[handler])
            identity == _establish_request_id(own, <<>>, t)
            event == EventOfLine(r, t, handler)
            known == _establish_request_id(identity, event, t)
            finished == Completed(Ordered(known), event)
            items == redact_sensitive_fields(finished)
<1>1. \A kind, fields : Line(kind, fields).items = fields
  BY DEF Line
<1>2. \/ safe.kind \notin {"event", "message"} /\ format(r, t, handler).items = _emergency_line(r, safe.kind)
      \/ format(r, t, handler).items = _emergency_line(r, "log_record_oversized")
      \/ safe.kind \in {"event", "message"} /\ format(r, t, handler).items = items
  <2>1. _finish(r, safe, t, handler) = finished
    BY DEF _finish, EventOfLine
  <2>. HIDE DEF finished
  <2>. QED
    BY <1>1, <2>1 DEF format
<1>3. /\ safe.kind \in {"event", "message", "log_record_unsafe_format", "log_record_unrenderable"}
      /\ safe.kind \in {"event", "message"} => Of(safe.event, w)
  BY SafeOf
<1>4. {"log_record_unsafe_format", "log_record_unrenderable", "log_record_oversized"}
        \subseteq PipelineWords
  BY DEF PipelineWords
<1>5. ASSUME safe.kind \in {"event", "message"} PROVE ~Shows(items)
  <2>1. EventOfLine(r, t, handler) = IF safe.kind = "event" THEN Without(safe.event, PROCESSOR_META_KEYS)
                            ELSE _process(safe.event \o r.info, identity, t)
    BY DEF EventOfLine
  <2>0. handler \in 1..Len(The.configs)
    BY DEF Configured, Kept, Handlers
  <2>2. Of(own, Hidden(w))
    BY <2>0, ConfigOf, OwnOf DEF Kept, CallerIsWritten
  <2>. HIDE DEF safe, own
  <2>3. Of(identity, Hidden(w))
    BY <2>2, SmallOf, RequestIdOf DEF ServesIds
  <2>. HIDE DEF identity
  <2>4. Of(Without(safe.event, PROCESSOR_META_KEYS), w)
    BY <1>3, <1>5, SomeOf
  <2>5. Of(safe.event \o r.info, w)
    BY <1>3, <1>5, JoinedOf DEF Kept
  <2>6. Of(_process(safe.event \o r.info, identity, t), Hidden(w))
    BY <2>3, <2>5, ProcessedOf DEF ServesIds
  <2>7. Of(event, w)
    BY <2>1, <2>4, <2>6, HiddenIs, MoreOf
  <2>. HIDE DEF event
  <2>8. Of(known, Hidden(w))
    BY <2>3, <2>7, RequestIdOf DEF ServesIds
  <2>. HIDE DEF known
  <2>9. Of(Ordered(known), w)
    BY <2>8, OrderedOf, HiddenIs, MoreOf
  <2>10. Of(finished, w)
    BY <2>7, <2>9, CompletedOf
  <2>. HIDE DEF finished
  <2>. QED
    BY <2>10, EmittedOf DEF Redacts
<1>. HIDE DEF items
<1>6. \A word \in PipelineWords : ~Shows(_emergency_line(r, word))
  BY EmergencyOf DEF Kept
<1>. QED
  BY <1>2, <1>3, <1>4, <1>5, <1>6

-----------------------------------------------------------------------------
(* The second inductive invariant                                          *)

KeptAll(records, w) == IsSequence(records) /\ \A r \in ToSet(records) : Kept(r, w)

\* Of the records in progress in a thread at most one is undisturbed, and its event
\* is the one the thread produced last; and only of the innermost, if its event is
\* the one produced last, another handler may have changed the event.
Guarded(s, event, w) ==
  /\ \A i, j \in 1..Len(s) : s[i].undisturbed /\ s[j].undisturbed => i = j
  /\ \A i \in 1..Len(s) : s[i].object # NoObject /\ s[i].undisturbed => s[i].object = event
  /\ \A i \in 1..Len(s) :
       \/ Untouched(s[i], w)
       \/ i = Len(s) /\ ~s[i].undisturbed /\ s[i].object = event

\* What other handlers are given and what is written shows no secret.
SecretsInv(W) ==
  /\ situation \in 1..Len(Situations)
  /\ Configured
  /\ made \in [Threads -> Nat] /\ objects \in Nat
  /\ DOMAIN request = Threads /\ \A t \in Threads : ServesIds(t, W[situation])
  /\ DOMAIN stack = Threads /\ produced \in [Threads -> Nat]
  /\ \A t \in Threads : /\ KeptAll(stack[t], W[situation])
                        /\ Guarded(stack[t], produced[t], W[situation])
  /\ ~Shows(last.items)

\* For each situation there is a set of fields that redaction can read, in which
\* its callers write.
Promised(W) ==
  \A n \in 1..Len(Situations) :
    Redacts(W[n], Situations[n].heap) /\ WritesIn(W[n], Situations[n])

\* What is promised of the situation there is.
LEMMA PromisedHere ==
  ASSUME NEW W, Promised(W), situation \in 1..Len(Situations)
  PROVE  Redacts(W[situation], Heap) /\ WritesIn(W[situation], The)
BY DEF Promised, Heap, The

\* The situation stays.
LEMMA KeptStays ==
  ASSUME UNCHANGED situation, NEW W
  PROVE  /\ The' = The /\ Threads' = Threads
         /\ \A records : KeptAll(records, W[situation])' <=> KeptAll(records, W[situation])
<1>1. The' = The /\ Heap' = Heap /\ Threads' = Threads
  BY SameContext DEF Heap
<1>2. \A r : Kept(r, W[situation])' <=> Kept(r, W[situation])
  BY <1>1 DEF Kept, Handlers
<1>. QED
  BY <1>1, <1>2 DEF KeptAll

\* A step that changes the records of one thread.
LEMMA OneKept ==
  ASSUME NEW W, SecretsInv(W), UNCHANGED <<situation, request, first, final>>,
         made' \in [Threads -> Nat], objects' \in Nat,
         NEW t \in Threads, NEW records, KeptAll(records, W[situation]),
         NEW event \in Nat, Guarded(records, event, W[situation]),
         stack' = [stack EXCEPT ![t] = records], produced' = [produced EXCEPT ![t] = event],
         ~Shows(last'.items)
  PROVE  SecretsInv(W)'
<1>1. \A u \in Threads : /\ KeptAll(stack'[u], W[situation])
                         /\ Guarded(stack'[u], produced'[u], W[situation])
  BY DEF SecretsInv
<1>2. \A u \in Threads : /\ KeptAll(stack[u], W[situation])'
                         /\ Guarded(stack[u], produced[u], W[situation])'
  BY <1>1, KeptStays DEF Guarded, Untouched, Of, Hidden, Shows, Rendered
<1>3. Configured' /\ \A u \in Threads : ServesIds(u, W[situation])'
  BY KeptStays DEF SecretsInv, Configured, ServesIds
<1>4. ~Shows(last.items)'
  BY DEF Shows, Rendered
<1>. QED
  BY <1>2, <1>3, <1>4, KeptStays DEF SecretsInv

\* A record that is disturbed promises less.
LEMMA DisturbedKept ==
  ASSUME NEW w, NEW records, KeptAll(records, w)
  PROVE  KeptAll(Disturbed(records), w)
<1>1. CASE records = <<>>
  BY <1>1 DEF Disturbed
<1>2. CASE records # <<>>
  <2>. DEFINE r == Last(records)
              x == [r EXCEPT !.undisturbed = FALSE]
              u == [records EXCEPT ![Len(records)] = x]
  <2>1. IsSequence(records) /\ r \in ToSet(records) /\ Kept(r, w)
    BY <1>2, TopIs DEF KeptAll
  <2>2. Disturbed(records) = u
    <3>1. Len(records) \in Nat /\ DOMAIN records = 1..Len(records) /\ Len(records) # 0
      BY <1>2, <2>1, SequenceHas DEF IsSequence
    <3>2. Len(records) \in DOMAIN records
      BY <3>1
    <3>. QED
      BY <1>2, <3>2 DEF Disturbed, Last
  <2>3. Kept(x, w)
    <3>1. x.call = r.call /\ x.msg = r.msg /\ x.object = r.object /\ x.info = r.info
            /\ x.args = r.args /\ x.level = r.level /\ x.logger = r.logger /\ x.handler = r.handler
            /\ x.undisturbed = FALSE /\ DOMAIN x = DOMAIN r
      BY <2>1 DEF Kept
    <3>. HIDE DEF x, r
    <3>. QED
      BY <2>1, <3>1 DEF Kept, CallerIsWritten, Handlers
  <2>. HIDE DEF x, r
  <2>4. IsSequence(u) /\ ToSet(u) \subseteq ToSet(records) \cup {x}
    BY <1>2, <2>1, ReplacedIs
  <2>. HIDE DEF u
  <2>. QED
    BY <2>1, <2>2, <2>3, <2>4 DEF KeptAll
<1>. QED
  BY <1>1, <1>2

\* One record more.
LEMMA MoreKept ==
  ASSUME NEW w, NEW records, KeptAll(records, w), NEW r, Kept(r, w)
  PROVE  KeptAll(Append(records, r), w)
BY AppendedIs DEF KeptAll

\* Records none of which is touched, and one more of which, if it is undisturbed,
\* nothing else is.
LEMMA MoreGuarded ==
  ASSUME NEW w, NEW event, NEW s, IsSequence(s),
         \A i \in 1..Len(s) : /\ Untouched(s[i], w)
                              /\ s[i].object # NoObject /\ s[i].undisturbed => s[i].object = event,
         \A i, j \in 1..Len(s) : s[i].undisturbed /\ s[j].undisturbed => i = j,
         NEW r, Untouched(r, w), r.object # NoObject /\ r.undisturbed => r.object = event,
         r.undisturbed => \A i \in 1..Len(s) : ~s[i].undisturbed
  PROVE  Guarded(Append(s, r), event, w)
<1>. DEFINE u == Append(s, r)
<1>1. Len(s) \in Nat /\ s \in Seq(ToSet(s) \cup {r})
  BY SequenceHas DEF IsSequence
<1>2. Len(u) = Len(s) + 1 /\ u[Len(s) + 1] = r /\ \A i \in 1..Len(s) : u[i] = s[i]
  BY <1>1
<1>3. \A i \in 1..Len(u) : i = Len(s) + 1 \/ i \in 1..Len(s)
  BY <1>1, <1>2
<1>. HIDE DEF u
<1>4. \A i \in 1..Len(u) : /\ Untouched(u[i], w)
                           /\ u[i].object # NoObject /\ u[i].undisturbed => u[i].object = event
  BY <1>2, <1>3
<1>5. \A i, j \in 1..Len(u) : u[i].undisturbed /\ u[j].undisturbed => i = j
  BY <1>2, <1>3
<1>. QED
  BY <1>4, <1>5 DEF Guarded, u

\* While the innermost record is undisturbed no record is touched, and when it is
\* disturbed none is undisturbed.
LEMMA DisturbedGuarded ==
  ASSUME NEW w, NEW event, NEW s, KeptAll(s, w), Guarded(s, event, w),
         s # <<>> => Last(s).undisturbed
  PROVE  /\ \A i \in 1..Len(s) : Untouched(s[i], w)
         /\ IsSequence(Disturbed(s))
         /\ \A i \in 1..Len(Disturbed(s)) : /\ Untouched(Disturbed(s)[i], w)
                                            /\ ~Disturbed(s)[i].undisturbed
<1>1. CASE s = <<>>
  BY <1>1, ShortIs DEF Disturbed
<1>2. CASE s # <<>>
  <2>. DEFINE n == Len(s)
              x == [s[n] EXCEPT !.undisturbed = FALSE]
              u == [s EXCEPT ![n] = x]
  <2>1. Len(s) \in Nat /\ DOMAIN s = 1..n /\ n # 0 /\ Last(s) = s[n]
    BY <1>2, SequenceHas DEF KeptAll, IsSequence, Last
  <2>2. n \in 1..n /\ s[n].undisturbed
    BY <1>2, <2>1
  <2>3. \A i \in 1..n : Untouched(s[i], w) /\ (i # n => ~s[i].undisturbed)
    BY <2>2 DEF Guarded
  <2>4. Kept(s[n], w)
    BY <2>2, SequenceHas DEF KeptAll
  <2>5. x.object = s[n].object /\ x.msg = s[n].msg /\ ~x.undisturbed
    BY <2>4 DEF Kept
  <2>6. Disturbed(s) = u
    BY <1>2, <2>1, <2>2 DEF Disturbed
  <2>7. u = [i \in 1..n |-> u[i]] /\ \A i \in 1..n : u[i] = IF i = n THEN x ELSE s[i]
    BY <2>1
  <2>8. Untouched(x, w)
    BY <2>2, <2>3, <2>5 DEF Untouched
  <2>. HIDE DEF x, u
  <2>9. IsSequence(u) /\ Len(u) = n
    BY <2>1, <2>7, FunctionIsSequence
  <2>. QED
    BY <2>3, <2>5, <2>6, <2>7, <2>8, <2>9
<1>. QED
  BY <1>1, <1>2

\* No line shows nothing.
LEMMA NoLineShows ==
  ASSUME NEW w, NEW heap, Redacts(w, heap)
  PROVE  ~Shows(NoLine.items)
BY SmallOf DEF Redacts, NoLine

-----------------------------------------------------------------------------
(* Its steps                                                               *)

\* A record of a structlog call carries an event that shows no secret.
LEMMA StructlogKept ==
  ASSUME NEW w, Redacts(w, Heap), WritesIn(w, The), situation \in 1..Len(Situations), Configured,
         NEW t \in Threads, ServesIds(t, w), NEW call, CallIsWritten(call, w, Heap), NEW object,
         object # NoObject
  PROVE  LET r == Record(call, MapOf(FirstPass(call, t)), object, <<>>)
         IN  Kept(r, w) /\ Untouched(r, w) /\ r.object = object
<1>. DEFINE event == FirstPass(call, t)
            r == Record(call, MapOf(event), object, <<>>)
<1>1. Of(event, Hidden(w))
  BY FirstPassOf
<1>. HIDE DEF event
<1>2. Of(event, w) /\ Of(<<>>, w)
  BY <1>1, HiddenIs, MoreOf, SmallOf
<1>3. /\ r.call = call /\ r.msg = MapOf(event) /\ r.object = object /\ r.info = <<>>
      /\ r.level = call.level /\ r.logger = call.logger /\ r.handler = final
      /\ {"call", "msg", "object", "info", "args", "level", "logger", "handler", "undisturbed"}
           \subseteq DOMAIN r
  BY DEF Record
<1>4. MapOf(event).items = event
  BY DEF MapOf
<1>. HIDE DEF r
<1>. QED
  BY <1>1, <1>2, <1>3, <1>4
     DEF Kept, Untouched, CallIsWritten, CallerIsWritten, Handlers, Configured, r, event

\* A record of the standard library has what its caller gave.
LEMMA StdlibKept ==
  ASSUME NEW w, Configured, NEW call, CallIsWritten(call, w, Heap), ~call.structlog
  PROVE  LET r == Record(call, call.event, NoObject, call.fields)
         IN  Kept(r, w) /\ Untouched(r, w) /\ r.object = NoObject
<1>. DEFINE r == Record(call, call.event, NoObject, call.fields)
<1>1. /\ r.call = call /\ r.msg = call.event /\ r.object = NoObject /\ r.info = call.fields
      /\ r.args = call.args /\ r.level = call.level /\ r.logger = call.logger
      /\ r.handler = final
      /\ {"call", "msg", "object", "info", "args", "level", "logger", "handler", "undisturbed"}
           \subseteq DOMAIN r
  BY DEF Record
<1>. HIDE DEF r
<1>. QED
  BY <1>1 DEF Kept, Untouched, CallIsWritten, CallerIsWritten, Handlers, Configured, r

\* The record of a call on top of those in progress.
LEMMA CallsKept ==
  ASSUME NEW W, Promised(W), SecretsInv(W), made' \in [Threads -> Nat],
         NEW t \in Threads, stack[t] # <<>> => Last(stack[t]).undisturbed,
         NEW call \in ToSet(The.calls[t]) \cup The.nested[t], Calls(t, call)
  PROVE  SecretsInv(W)'
<1>. DEFINE w == W[situation]
<1>1. /\ situation \in 1..Len(Situations) /\ Configured /\ ServesIds(t, w)
      /\ KeptAll(stack[t], w) /\ KeptAll(Disturbed(stack[t]), w) /\ DOMAIN stack = Threads
      /\ Guarded(stack[t], produced[t], w) /\ produced \in [Threads -> Nat]
      /\ objects \in Nat
  BY DisturbedKept DEF SecretsInv
<1>2. Redacts(w, Heap) /\ WritesIn(w, The)
  BY <1>1, PromisedHere
<1>3. CallIsWritten(call, w, Heap)
  <2>1. OfEvents(call)
    BY <1>1, CallsAre
  <2>2. t \in DOMAIN The.calls
    BY DEF Threads
  <2>. HIDE DEF w
  <2>. QED
    BY <1>2, <2>1, <2>2 DEF WritesIn, CallIsWritten, Heap
<1>. HIDE DEF w
<1>4. \E r, event : /\ Kept(r, w) /\ Untouched(r, w) /\ (r.object # NoObject => r.object = event)
                    /\ event \in Nat
                    /\ stack' = [stack EXCEPT ![t] = Append(Disturbed(@), r)]
                    /\ produced' = [produced EXCEPT ![t] = event]
  <2>1. CASE call.structlog
    <3>1. objects + 1 # NoObject /\ objects + 1 \in Nat
      BY <1>1 DEF NoObject
    <3>. QED
      BY <1>1, <1>2, <1>3, <2>1, <3>1, StructlogKept DEF Calls, Structlog
  <2>2. CASE ~call.structlog
    <3>1. produced' = [produced EXCEPT ![t] = produced[t]] /\ produced[t] \in Nat
      BY <1>1, <2>2 DEF Calls, Stdlib
    <3>. QED
      BY <1>1, <1>3, <2>2, <3>1, StdlibKept DEF Calls, Stdlib
  <2>. QED
    BY <2>1, <2>2
<1>5. PICK r, event :
        /\ Kept(r, w) /\ Untouched(r, w) /\ (r.object # NoObject => r.object = event)
        /\ event \in Nat
        /\ stack' = [stack EXCEPT ![t] = Append(Disturbed(@), r)]
        /\ produced' = [produced EXCEPT ![t] = event]
  BY <1>4
<1>. DEFINE records == Append(Disturbed(stack[t]), r)
<1>6. KeptAll(records, w) /\ stack' = [stack EXCEPT ![t] = records]
  BY <1>1, <1>5, MoreKept
<1>7. Guarded(records, event, w)
  <2>1. /\ IsSequence(Disturbed(stack[t]))
        /\ \A i \in 1..Len(Disturbed(stack[t])) : /\ Untouched(Disturbed(stack[t])[i], w)
                                                  /\ ~Disturbed(stack[t])[i].undisturbed
    BY <1>1, DisturbedGuarded
  <2>. QED
    BY <1>5, <2>1, MoreGuarded
<1>. HIDE DEF records
<1>8. ~Shows(last'.items) /\ UNCHANGED <<situation, request, first, final>>
  BY <1>2, NoLineShows DEF Calls
<1>9. objects' \in Nat
  BY <1>1 DEF Calls, Structlog, Stdlib
<1>. QED
  BY <1>5, <1>6, <1>7, <1>8, <1>9, OneKept DEF w

\* A thread makes its next call.
LEMMA CallKeeps ==
  ASSUME NEW W, Promised(W), SecretsInv(W), NEW t \in Threads, Call(t)
  PROVE  SecretsInv(W)'
<1>. DEFINE call == The.calls[t][made[t] + 1]
<1>1. made \in [Threads -> Nat] /\ situation \in 1..Len(Situations)
  BY DEF SecretsInv
<1>2. IsSequence(The.calls[t])
  BY <1>1, CallsAre
<1>3. Len(The.calls[t]) \in Nat /\ made[t] < Len(The.calls[t])
  BY <1>2, SequenceHas DEF Call
<1>4. made[t] + 1 \in 1..Len(The.calls[t])
  BY <1>1, <1>3
<1>5. call \in ToSet(The.calls[t])
  BY <1>2, <1>4, SequenceHas
<1>6. made' \in [Threads -> Nat]
  BY <1>1 DEF Call
<1>7. Calls(t, call)
  BY DEF Call
<1>. HIDE DEF call
<1>8. stack[t] = <<>>
  BY DEF Call
<1>. QED
  BY <1>5, <1>6, <1>7, <1>8, CallsKept

\* Another handler makes one.
LEMMA NestedCallKeeps ==
  ASSUME NEW W, Promised(W), SecretsInv(W), NEW t \in Threads, NestedCall(t)
  PROVE  SecretsInv(W)'
<1>1. made' \in [Threads -> Nat]
  BY DEF SecretsInv, NestedCall
<1>2. PICK call \in The.nested[t] : Calls(t, call)
  BY DEF NestedCall
<1>3. Last(stack[t]).undisturbed
  BY DEF NestedCall
<1>. QED
  BY <1>1, <1>2, <1>3, CallsKept

\* The event that is logged again is of the same fields.
LEMMA ForwardKeeps ==
  ASSUME NEW W, Promised(W), SecretsInv(W), NEW t \in Threads, Forward(t)
  PROVE  SecretsInv(W)'
<1>. DEFINE r == Last(stack[t])
            w == W[situation]
<1>1. /\ KeptAll(stack[t], w) /\ DOMAIN stack = Threads /\ r.object # NoObject /\ r.undisturbed
      /\ Guarded(stack[t], produced[t], w) /\ produced \in [Threads -> Nat] /\ stack[t] # <<>>
      /\ UNCHANGED <<situation, made, request, first, final, objects, produced>> /\ last' = NoLine
  BY DEF SecretsInv, Forward
<1>2. Kept(r, w)
  BY <1>1, TopIs DEF Forward, KeptAll
<1>3. PICK call \in The.forwards :
        stack' = [stack EXCEPT ![t] =
                    Append(@, [Record(call, r.msg, r.object, <<>>) EXCEPT !.undisturbed = FALSE])]
  BY DEF Forward
<1>4. Redacts(w, Heap) /\ WritesIn(w, The)
  BY PromisedHere DEF SecretsInv
<1>. HIDE DEF w
<1>11. \A i \in 1..Len(stack[t]) : Untouched(stack[t][i], w)
  BY <1>1, DisturbedGuarded
<1>12. Untouched(r, w)
  <2>1. r \in ToSet(stack[t]) /\ IsSequence(stack[t])
    BY <1>1, TopIs DEF KeptAll
  <2>. QED
    BY <1>11, <2>1, SequenceHas
<1>. HIDE DEF r
<1>. DEFINE new == [Record(call, r.msg, r.object, <<>>) EXCEPT !.undisturbed = FALSE]
            records == Append(stack[t], new)
<1>5. /\ {"call", "msg", "object", "info", "args", "level", "logger", "handler", "undisturbed"}
           \subseteq DOMAIN new
      /\ new.msg = r.msg /\ new.object = r.object /\ new.info = <<>> /\ new.undisturbed = FALSE
      /\ new.level = call.level /\ new.logger = call.logger /\ new.handler = final
  BY DEF Record
<1>6. stack' = [stack EXCEPT ![t] = records]
  BY <1>1, <1>3
<1>. HIDE DEF new
<1>7. CallerIsWritten(call, w) /\ Of(<<>>, w)
  BY <1>4, SmallOf DEF WritesIn
<1>8. Kept(new, w)
  BY <1>1, <1>2, <1>5, <1>7 DEF Kept, CallerIsWritten, Handlers, SecretsInv, Configured
<1>9. KeptAll(records, w)
  BY <1>1, <1>8, MoreKept
<1>13. Guarded(records, produced[t], w)
  <2>1. IsSequence(stack[t]) /\ Untouched(new, w) /\ ~new.undisturbed
    BY <1>1, <1>5, <1>12 DEF KeptAll, Untouched
  <2>2. /\ \A i \in 1..Len(stack[t]) : stack[t][i].object # NoObject /\ stack[t][i].undisturbed
                                         => stack[t][i].object = produced[t]
        /\ \A i, j \in 1..Len(stack[t]) :
             stack[t][i].undisturbed /\ stack[t][j].undisturbed => i = j
    BY <1>1 DEF Guarded
  <2>. QED
    BY <1>11, <2>1, <2>2, MoreGuarded
<1>14. produced' = [produced EXCEPT ![t] = produced[t]]
  BY <1>1
<1>. HIDE DEF records
<1>10. ~Shows(last'.items) /\ made' \in [Threads -> Nat] /\ objects' \in Nat
  BY <1>1, <1>4, NoLineShows DEF SecretsInv
<1>. QED
  BY <1>1, <1>6, <1>9, <1>10, <1>13, <1>14, OneKept DEF w

\* What another handler adds is a field of the set.
LEMMA TamperKeeps ==
  ASSUME NEW W, Promised(W), SecretsInv(W), NEW t \in Threads, Tamper(t)
  PROVE  SecretsInv(W)'
<1>. DEFINE r == Last(stack[t])
            n == Len(stack[t])
            w == W[situation]
<1>1. /\ KeptAll(stack[t], w) /\ DOMAIN stack = Threads /\ r.object # NoObject /\ stack[t] # <<>>
      /\ Guarded(stack[t], produced[t], w) /\ produced \in [Threads -> Nat] /\ r.undisturbed
      /\ UNCHANGED <<situation, made, request, first, final, objects, produced, last>>
  BY DEF SecretsInv, Tamper
<1>2. Kept(r, w)
  BY <1>1, TopIs DEF KeptAll
<1>3. PICK field \in The.tamper :
        stack' = [stack EXCEPT ![t][n] =
                    [r EXCEPT !.undisturbed = FALSE, !.msg.items = Put(@, field[1], field[2])]]
  BY DEF Tamper
<1>4. WritesIn(w, The)
  BY PromisedHere DEF SecretsInv
<1>. HIDE DEF r, n, w
<1>. DEFINE put == Put(r.msg.items, field[1], field[2])
            new == [r EXCEPT !.undisturbed = FALSE, !.msg.items = Put(@, field[1], field[2])]
            records == [stack[t] EXCEPT ![n] = new]
<1>5. stack' = [stack EXCEPT ![t] = records]
  BY <1>1, <1>3
<1>6. r.msg = MapOf(r.msg.items) /\ Of(r.msg.items, w) /\ <<field[1], field[2]>> \in w
  BY <1>1, <1>2, <1>4 DEF Kept, WritesIn
<1>7. Of(put, w)
  BY <1>6, PutOf
<1>8. /\ DOMAIN new = DOMAIN r /\ new.call = r.call /\ new.object = r.object /\ new.info = r.info
      /\ new.args = r.args /\ new.level = r.level /\ new.logger = r.logger
      /\ new.handler = r.handler
      /\ new.undisturbed = FALSE /\ new.msg = [r.msg EXCEPT !.items = put]
  BY <1>2 DEF Kept
<1>9. \A items, more : [MapOf(items) EXCEPT !.items = more] = MapOf(more)
                         /\ MapOf(more).items = more
  BY DEF MapOf
<1>10. new.msg = MapOf(put) /\ new.msg.items = put
  BY <1>6, <1>8, <1>9
<1>. HIDE DEF new, put
<1>11. Kept(new, w)
  BY <1>1, <1>2, <1>7, <1>8, <1>10 DEF Kept, CallerIsWritten, Handlers
<1>12. IsSequence(records) /\ ToSet(records) \subseteq ToSet(stack[t]) \cup {new}
  BY <1>1, ReplacedIs DEF KeptAll, n
<1>. HIDE DEF records
<1>13. KeptAll(records, w)
  BY <1>1, <1>11, <1>12 DEF KeptAll
<1>15. Guarded(records, produced[t], w)
  <2>. DEFINE s == stack[t]
  <2>1. /\ Len(s) \in Nat /\ DOMAIN s = 1..Len(s) /\ n = Len(s) /\ r = s[n] /\ n # 0
    BY <1>1, SequenceHas DEF KeptAll, IsSequence, n, r, Last
  <2>2. n \in 1..n
    BY <2>1
  <2>3. Len(records) = n /\ records[n] = new /\ \A i \in 1..n : i # n => records[i] = s[i]
    <3>1. records = [i \in 1..n |-> records[i]]
      BY <2>1 DEF records
    <3>2. Len(records) = n
      BY <2>1, <3>1, FunctionIsSequence
    <3>. QED
      BY <2>1, <2>2, <3>2 DEF records
  <2>4. r.object = produced[t]
    BY <1>1, <2>1, <2>2 DEF Guarded
  <2>5. \A i \in 1..n : Untouched(s[i], w)
    BY <1>1, <2>1, DisturbedGuarded DEF r
  <2>6. \A i \in 1..n : i # n => ~s[i].undisturbed
    BY <1>1, <2>1, <2>2 DEF Guarded
  <2>. QED
    BY <1>8, <2>1, <2>3, <2>4, <2>5, <2>6 DEF Guarded
<1>16. produced' = [produced EXCEPT ![t] = produced[t]]
  BY <1>1
<1>14. ~Shows(last'.items) /\ made' \in [Threads -> Nat] /\ objects' \in Nat
  BY <1>1 DEF SecretsInv
<1>. QED
  BY <1>1, <1>5, <1>13, <1>14, <1>15, <1>16, OneKept DEF w

\* The record of a line is done.
LEMMA EmittedKeeps ==
  ASSUME NEW W, SecretsInv(W), NEW t \in Threads, stack[t] # <<>>, NEW line, Emitted(t, line),
         ~Shows(line.items)
  PROVE  SecretsInv(W)'
<1>. DEFINE records == Front(stack[t])
<1>1. /\ KeptAll(stack[t], W[situation]) /\ DOMAIN stack = Threads
      /\ Guarded(stack[t], produced[t], W[situation]) /\ produced \in [Threads -> Nat]
      /\ UNCHANGED <<situation, made, request, first, final, objects, produced>>
      /\ last'.items = line.items
  BY DEF SecretsInv, Emitted
<1>2. IsSequence(records) /\ ToSet(records) \subseteq ToSet(stack[t])
  BY <1>1, TopIs DEF KeptAll
<1>3. stack' = [stack EXCEPT ![t] = records]
  BY <1>1 DEF Emitted
<1>6. Guarded(records, produced[t], W[situation])
  <2>. DEFINE s == stack[t]
  <2>1. s \in Seq(ToSet(s)) /\ Len(s) \in Nat /\ Len(s) # 0
    BY <1>1, SequenceHas DEF KeptAll, IsSequence
  <2>2. Len(records) = Len(s) - 1 /\ \A i \in 1..Len(records) : records[i] = s[i]
    BY <2>1 DEF Front
  <2>3. \A i \in 1..Len(records) : i \in 1..Len(s) /\ i # Len(s)
    BY <2>1, <2>2
  <2>. HIDE DEF records
  <2>. QED
    BY <1>1, <2>2, <2>3 DEF Guarded
<1>7. produced' = [produced EXCEPT ![t] = produced[t]]
  BY <1>1
<1>. HIDE DEF records
<1>4. KeptAll(records, W[situation])
  BY <1>1, <1>2 DEF KeptAll
<1>5. ~Shows(last'.items) /\ made' \in [Threads -> Nat] /\ objects' \in Nat
  BY <1>1 DEF SecretsInv
<1>. QED
  BY <1>1, <1>3, <1>4, <1>5, <1>6, <1>7, OneKept

\* What is written, or goes to stderr when that fails.
LEMMA WriteKeeps ==
  ASSUME NEW W, Promised(W), SecretsInv(W), NEW t \in Threads, Write(t) \/ WriteFails(t)
  PROVE  SecretsInv(W)'
<1>. DEFINE r == Last(stack[t])
            w == W[situation]
<1>1. /\ situation \in 1..Len(Situations) /\ Configured /\ ServesIds(t, w)
      /\ KeptAll(stack[t], w) /\ stack[t] # <<>> /\ Guarded(stack[t], produced[t], w)
  BY DEF SecretsInv, Write, WriteFails
<1>2. Kept(r, w)
  BY <1>1, TopIs DEF KeptAll
<1>3. Redacts(w, Heap) /\ WritesIn(w, The)
  BY <1>1, PromisedHere
<1>. HIDE DEF w
<1>6. IsProduced(r, t) \/ Untouched(r, w)
  <2>1. Len(stack[t]) \in 1..Len(stack[t]) /\ r = stack[t][Len(stack[t])]
    BY <1>1, SequenceHas DEF KeptAll, IsSequence, Last
  <2>. QED
    BY <1>1, <2>1 DEF Guarded, IsProduced, Untouched
<1>. HIDE DEF r
<1>4. \A handler \in r.handler..final : ~Shows(format(r, t, handler).items)
  BY <1>1, <1>2, <1>3, <1>6, FormatOf
<1>5. ~Shows(handleError(r).items)
  <2>1. "event" \in PipelineWords
    BY DEF PipelineWords
  <2>. QED
    BY <1>2, <1>3, <2>1, EmergencyOf DEF Kept
<1>. QED
  BY <1>1, <1>4, <1>5, EmittedKeeps DEF Write, WriteFails, r

\* The server's ids are of the set.
LEMMA ServeKeeps ==
  ASSUME NEW W, Promised(W), SecretsInv(W), NEW t \in Threads, Serve(t)
  PROVE  SecretsInv(W)'
<1>. DEFINE w == W[situation]
<1>1. /\ UNCHANGED <<situation, made, first, final, stack, objects, produced>> /\ last' = NoLine
      /\ DOMAIN request = Threads /\ \A u \in Threads : ServesIds(u, w)
  BY DEF SecretsInv, Serve
<1>2. PICK id \in The.requests[t] :
        request' = [request EXCEPT ![t] = IF @ = {} THEN {id} ELSE {}]
  BY DEF Serve
<1>3. Redacts(w, Heap) /\ WritesIn(w, The)
  BY PromisedHere DEF SecretsInv
<1>. HIDE DEF w
<1>4. <<RequestId, id>> \in w
  BY <1>3 DEF WritesIn, Threads
<1>5. DOMAIN request' = Threads /\ \A u \in Threads : ServesIds(u, w)'
  <2>1. \A u \in Threads : request'[u] \subseteq request[u] \cup {id}
    BY <1>1, <1>2
  <2>. QED
    BY <1>1, <1>2, <1>4, <2>1 DEF ServesIds, w
<1>6. ~Shows(last'.items)
  BY <1>1, <1>3, NoLineShows
<1>7. /\ Threads' = Threads /\ The' = The
      /\ \A u \in Threads : KeptAll(stack[u], w)' <=> KeptAll(stack[u], w)
  BY <1>1, KeptStays DEF w
<1>8. ~Shows(last.items)'
  BY <1>6 DEF Shows, Rendered
<1>9. \A s, event : Guarded(s, event, w)' <=> Guarded(s, event, w)
  BY <1>1 DEF w, Guarded, Untouched, Of, Hidden, Shows, Rendered
<1>. QED
  BY <1>1, <1>5, <1>7, <1>8, <1>9 DEF SecretsInv, Configured, w

\* The process is configured anew, or nothing happens.
LEMMA QuietKeeps ==
  ASSUME NEW W, Promised(W), SecretsInv(W), ConfigureStructlog \/ ConfigureHandler \/ UNCHANGED vars
  PROVE  SecretsInv(W)'
<1>. DEFINE w == W[situation]
<1>1. /\ UNCHANGED <<situation, made, request, stack, objects, produced>>
      /\ last' = NoLine \/ UNCHANGED last
  BY DEF ConfigureStructlog, ConfigureHandler, vars
<1>2. /\ Threads' = Threads /\ The' = The
      /\ \A u \in Threads : KeptAll(stack[u], w)' <=> KeptAll(stack[u], w)
      /\ \A u \in Threads : ServesIds(u, w)' <=> ServesIds(u, w)
  BY <1>1, KeptStays DEF ServesIds
<1>3. Configured'
  <2>1. Configured /\ Len(The.configs) \in Nat
    <3>1. IsSequence(The.configs)
      BY SituationsAssumption DEF The, SecretsInv
    <3>. QED
      BY <3>1, SequenceHas DEF SecretsInv
  <2>. QED
    BY <1>2, <2>1 DEF Configured, ConfigureStructlog, ConfigureHandler, vars
<1>4. ~Shows(last'.items)
  BY <1>1, PromisedHere, NoLineShows DEF SecretsInv
<1>5. ~Shows(last.items)'
  BY <1>4 DEF Shows, Rendered
<1>6. \A s, event : Guarded(s, event, w)' <=> Guarded(s, event, w)
  BY <1>1 DEF Guarded, Untouched, Of, Hidden, Shows, Rendered
<1>. QED
  BY <1>1, <1>2, <1>3, <1>5, <1>6 DEF SecretsInv

\* Nothing is in progress and nothing is written.
LEMMA InitKeeps ==
  ASSUME NEW W, Promised(W), Init
  PROVE  SecretsInv(W)
<1>1. IsSequence(The.configs) /\ The.configs # <<>> /\ situation \in 1..Len(Situations)
  BY SituationsAssumption DEF The, Init
<1>2. Len(The.configs) \in Nat /\ Len(The.configs) # 0
  BY <1>1, SequenceHas DEF IsSequence
<1>3. Configured
  BY <1>2 DEF Init, Configured
<1>4. \A t \in Threads : /\ KeptAll(stack[t], W[situation]) /\ ServesIds(t, W[situation])
                         /\ Guarded(stack[t], produced[t], W[situation])
  BY ShortIs DEF Init, KeptAll, ServesIds, Guarded
<1>5. ~Shows(last.items)
  BY <1>1, PromisedHere, NoLineShows DEF Init
<1>6. objects \in Nat /\ produced \in [Threads -> Nat]
  BY DEF Init, NoObject
<1>. QED
  BY <1>1, <1>3, <1>4, <1>5, <1>6 DEF Init, SecretsInv

\* Every step keeps it.
LEMMA StepKeeps ==
  ASSUME NEW W, Promised(W), SecretsInv(W), [Next]_vars
  PROVE  SecretsInv(W)'
<1>1. CASE \E t \in Threads : Call(t) \/ NestedCall(t) \/ Forward(t) \/ Tamper(t) \/ Write(t)
                                \/ WriteFails(t) \/ Serve(t)
  BY <1>1, CallKeeps, NestedCallKeeps, ForwardKeeps, TamperKeeps, WriteKeeps, ServeKeeps
<1>2. CASE ConfigureStructlog \/ ConfigureHandler \/ UNCHANGED vars
  BY <1>2, QuietKeeps
<1>. QED
  BY <1>1, <1>2 DEF Next

\* It is more than the property.
LEMMA KeptShowsNone ==
  ASSUME NEW W, Promised(W), SecretsInv(W)
  PROVE  NothingSecretIsWritten
<1>1. ASSUME NEW t \in Threads, NEW i \in 1..Len(stack[t]),
             stack[t][i].call.structlog, stack[t][i].undisturbed
      PROVE  ~Shows(stack[t][i].msg.items)
  <2>1. KeptAll(stack[t], W[situation])
    BY DEF SecretsInv
  <2>2. stack[t][i] \in ToSet(stack[t])
    BY <2>1, SequenceHas DEF KeptAll
  <2>3. Untouched(stack[t][i], W[situation]) /\ stack[t][i].object # NoObject
    BY <1>1, <2>1, <2>2 DEF SecretsInv, Guarded, KeptAll, Kept
  <2>. QED
    BY <2>3, PromisedHere DEF SecretsInv, Untouched, Redacts
<1>2. ~Shows(last.items)
  BY DEF SecretsInv
<1>. QED
  BY <1>1, <1>2 DEF NothingSecretIsWritten, Shows

-----------------------------------------------------------------------------
(* The theorem                                                             *)

\* If redaction finds every secret that is written in some set of fields, and what
\* a situation's callers, context, server, exceptions and other handlers write is
\* of that set, then no line and no event in progress ever shows a secret: however
\* threads interleave, handlers nest, add fields or log an event again, writes fail
\* and the process is configured anew, everything passes redaction on its way.
THEOREM NoSecretIsWritten ==
  ASSUME NEW W, Promised(W)
  PROVE  Spec => []NothingSecretIsWritten
<1>1. Init => SecretsInv(W)
  BY InitKeeps
<1>2. SecretsInv(W) /\ [Next]_vars => SecretsInv(W)'
  BY StepKeeps
<1>3. SecretsInv(W) => NothingSecretIsWritten
  BY KeptShowsNone
<1>. QED
  BY <1>1, <1>2, <1>3, PTL DEF Spec
=============================================================================
