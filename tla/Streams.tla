------------------------------ MODULE Streams ------------------------------
(***************************************************************************)
(* The body of a message: DBusOutputStream marshals arguments into a       *)
(* string of bytes, DBusMessage carries it, DBusInputStream reads it back, *)
(* and DBusTypeOutputStream makes the signatures that variants carry.      *)
(*                                                                         *)
(* The overloads of writeValue, readValue and writeType are chosen by the  *)
(* C++ type; here types are records, and Write, Read and Signature have    *)
(* one alternative per overload.  Bytes are numbers, so that the two       *)
(* streams, and a reader that knows D-Bus only, can disagree about them.   *)
(* Sender and reader may have been generated from different versions of    *)
(* an interface: what is expected need not be what was sent.               *)
(*                                                                         *)
(* Arguments are written and read one by one until one of them fails, as   *)
(* SerializableArguments of the core library does it.                      *)
(***************************************************************************)
EXTENDS Naturals, Sequences, SequencesExt

CONSTANTS
  Scenarios,   \* a sequence of [sends : Seq([type, value]), expects : Seq(type)]
  None

VARIABLES
  scenario,    \* the number of the message exchanged
  out,         \* the DBusOutputStream: payload_, positions_, errorOccurred_
  written,     \* how many arguments have been passed to it
  body,        \* the body of the DBusMessage, None before flush()
  in,          \* the DBusInputStream: current_, sizes_, positions_, exception_
  got          \* the values read so far

vars == <<scenario, out, written, body, in, got>>

Sends   == Scenarios[scenario].sends
Expects == Scenarios[scenario].expects

----------------------------------------------------------------------------
(* Types.  A character is its ASCII code.                                  *)

Integer(size, code) == [kind |-> "integer", size |-> size, code |-> code]
Boolean == [kind |-> "boolean"]
Float   == [kind |-> "float"]
Double  == [kind |-> "double"]
Text(code) == [kind |-> "string", code |-> code]
Version == [kind |-> "version"]
Buffer  == [kind |-> "buffer"]
Ranged(low, high) == [kind |-> "ranged", low |-> low, high |-> high]
Enumeration(size, code, literals) ==
  [kind |-> "enumeration", size |-> size, code |-> code, literals |-> literals]
Vector(element) == [kind |-> "vector", element |-> element]
Map(key, value) == [kind |-> "map", key |-> key, value |-> value]
Struct(fields)  == [kind |-> "struct", fields |-> fields]
Polymorphic(structs) == [kind |-> "polymorphic", structs |-> structs]
Variant(alternatives, isDBus) ==
  [kind |-> "variant", alternatives |-> alternatives, isDBus |-> isDBus]

\* A map written by hand, entry after entry, and the keys of a map read by hand.
Properties(value) == [kind |-> "properties", value |-> value]
Interfaces == [kind |-> "interfaces"]

\* valueType_ counts the alternatives from the last one, 0 is no value.
Alternative(t, index) == t.alternatives[Len(t.alternatives) + 1 - index]

----------------------------------------------------------------------------
(* DBusTypeOutputStream: the signature of the type of a value.  The value  *)
(* matters for a polymorphic struct only.                                  *)

RECURSIVE Signature(_, _)
Signatures(ts, vs) ==
  FlattenSeq([i \in DOMAIN ts |-> Signature(ts[i], IF vs = None THEN None ELSE vs[i])])
Parens(s) == <<40>> \o s \o <<41>>

BasicSignature(t) ==
  CASE t.kind \in {"integer", "string", "enumeration"} -> <<t.code>>
    [] t.kind = "boolean" -> <<98>>
    [] t.kind \in {"float", "double"} -> <<100>>
    [] t.kind = "ranged" -> <<105>>
    [] t.kind = "version" -> Parens(<<117, 117>>)
    [] t.kind = "buffer" -> <<97, 121>>

Signature(t, v) ==
  CASE t.kind = "struct" -> Parens(Signatures(t.fields, v))
    [] t.kind = "polymorphic" -> Parens(Signatures(t.structs[v.serial], v.fields))
    [] t.kind = "variant" -> IF t.isDBus THEN <<118>> ELSE Parens(<<121, 118>>)
    [] t.kind = "vector" -> <<97>> \o Signature(t.element, None)
    [] t.kind = "map" ->
         <<97, 123>> \o Signature(t.key, None) \o Signature(t.value, None) \o <<125>>
    [] t.kind = "properties" -> <<97, 123, 115>> \o Signature(t.value, None) \o <<125>>
    [] OTHER -> BasicSignature(t)

----------------------------------------------------------------------------
(* DBusOutputStream.                                                       *)

NewOutput == [payload |-> <<>>, positions |-> <<>>, error |-> FALSE]

\* mutant: each byte holds all there is above it.
NumberBytesWhole(n, size) ==
  [i \in 1 .. size |-> IF i > 3 THEN 0 ELSE n \div 256 ^ (i - 1)]

\* The bytes of a number below 2^24, the least significant one first.
NumberBytes(n, size) ==
  [i \in 1 .. size |-> IF i > 3 THEN 0 ELSE (n \div 256 ^ (i - 1)) % 256]

WriteRaw(o, bytes) == [o EXCEPT !.payload = @ \o bytes]

Align(o, boundary) ==
  LET mask == boundary - 1
  IN WriteRaw(o, [i \in 1 .. ((mask - (Len(o.payload) % boundary)) + 1) % boundary |-> 0])

WriteBasic(o, size, n) ==
  WriteRaw(IF size > 1 THEN Align(o, size) ELSE o, NumberBytes(n, size))

WriteString(o, s) == WriteRaw(WriteBasic(o, 4, Len(s)), s \o <<0>>)

WriteBuffer(o, bytes) == WriteRaw(WriteBasic(Align(o, 4), 4, Len(bytes)), bytes)

WriteSignature(o, s) == WriteRaw(WriteBasic(o, 1, Len(s)), s \o <<0>>)

\* alignVector(): the alignment of the elements of a vector.
VectorBoundary(t) ==
  CASE t.kind \in {"string", "vector", "buffer", "boolean"} -> 1
    [] t.kind = "integer" -> IF t.size > 4 THEN 8 ELSE 1
    [] t.kind = "enumeration" -> t.size
    [] t.kind = "map" -> 4
    [] OTHER -> 8

PushPosition(o) == [o EXCEPT !.positions = Append(@, Len(o.payload))]

BeginArray(o, boundary) ==
  PushPosition(Align(WriteBasic(PushPosition(Align(o, 4)), 4, 0), boundary))

WriteRawAt(o, at, bytes) ==
  [o EXCEPT !.payload = [i \in DOMAIN @ |->
     IF i \in at + 1 .. at + Len(bytes) THEN bytes[i - at] ELSE @[i]]]

\* popPosition(), twice: where the elements began and where their length belongs.
\* mutant: the padding before the first element is counted.
EndArrayPadded(o) ==
  LET n == Len(o.positions)
  IN [WriteRawAt(o, o.positions[n - 1], NumberBytes(Len(o.payload) - o.positions[n - 1] - 4, 4))
        EXCEPT !.positions = SubSeq(@, 1, n - 2)]

EndArray(o) ==
  LET n == Len(o.positions)
  IN [WriteRawAt(o, o.positions[n - 1], NumberBytes(Len(o.payload) - o.positions[n], 4))
        EXCEPT !.positions = SubSeq(@, 1, n - 2)]

RECURSIVE Write(_, _, _), WriteElements(_, _, _), WriteEntries(_, _, _)

WriteFields(o, ts, vs) ==
  FoldLeftDomain(LAMBDA s, i : Write(s, ts[i], vs[i]), o, ts)

WriteEntry(o, key, value, e) == Write(Write(Align(o, 8), key, e[1]), value, e[2])

\* Both stop after the element that fails.
WriteElements(o, t, vs) ==
  IF vs = <<>> THEN o
  ELSE LET next == Write(o, t, Head(vs))
       IN IF next.error THEN next ELSE WriteElements(next, t, Tail(vs))

WriteEntries(o, t, es) ==
  IF es = <<>> THEN o
  ELSE LET next == WriteEntry(o, t.key, t.value, Head(es))
       IN IF next.error THEN next ELSE WriteEntries(next, t, Tail(es))

WriteVariant(o, t, v) ==
  LET alternative == Alternative(t, v.index)
      start == IF t.isDBus THEN Align(o, 1) ELSE WriteBasic(Align(o, 8), 1, v.index)
  IN Write(WriteSignature(start, Signature(alternative, v.value)), alternative, v.value)

\* A struct with its serial number and the signature of its members.
WritePolymorphic(o, t, v) ==
  LET start == WriteSignature(WriteBasic(Align(o, 8), 4, v.serial), Signature(t, v))
  IN WriteFields(Align(start, 8), t.structs[v.serial], v.fields)

\* The vector's length is written whatever happens, the map's unless an entry fails.
WriteVector(o, t, vs) ==
  EndArray(WriteElements(BeginArray(o, VectorBoundary(t.element)), t.element, vs))

WriteMap(o, t, es) ==
  LET end == WriteEntries(BeginArray(o, 8), t, es)
  IN IF es # <<>> /\ end.error THEN end ELSE EndArray(end)

\* The reply to GetAll of org.freedesktop.DBus.Properties.
WriteProperties(o, t, es) ==
  EndArray(FoldLeft(LAMBDA s, e : WriteEntry(s, Text(115), t.value, e),
                    BeginArray(o, 8), es))

\* A truth value is a number of four bytes, a float is written as a double.
WriteNumber(o, t, v) ==
  CASE t.kind = "integer" -> WriteBasic(o, t.size, v)
    [] t.kind = "boolean" -> WriteBasic(o, 4, IF v THEN 1 ELSE 0)
    [] t.kind \in {"float", "double"} -> WriteBasic(o, 8, v)

Write(o, t, v) ==
  CASE t.kind = "enumeration" -> WriteBasic(o, t.size, v)
    [] t.kind = "ranged" ->
         IF v \in t.low .. t.high THEN WriteBasic(o, 4, v) ELSE [o EXCEPT !.error = TRUE]
    [] t.kind = "string" -> WriteString(o, v)
    [] t.kind = "version" -> WriteBasic(WriteBasic(Align(o, 8), 4, v[1]), 4, v[2])
    [] t.kind = "buffer" -> WriteBuffer(o, v)
    [] t.kind = "struct" -> WriteFields(Align(o, 8), t.fields, v)
    [] t.kind = "polymorphic" -> WritePolymorphic(o, t, v)
    [] t.kind = "variant" -> WriteVariant(o, t, v)
    [] t.kind = "vector" -> WriteVector(o, t, v)
    [] t.kind = "map" -> WriteMap(o, t, v)
    [] t.kind = "properties" -> WriteProperties(o, t, v)
    [] OTHER -> WriteNumber(o, t, v)

----------------------------------------------------------------------------
(* DBusInputStream.  Reading yields the stream and the value; a value that *)
(* is read in error is left as it was, which nothing looks at.             *)

NewInput == [current |-> 0, sizes |-> <<>>, positions |-> <<>>, error |-> FALSE]

Result(i, v) == [in |-> i, value |-> v]

SetError(i) == [i EXCEPT !.error = TRUE]

AlignIn(i, boundary) ==
  LET mask == boundary - 1
  IN [i EXCEPT !.current = ((@ + mask) \div boundary) * boundary]

\* The bytes between the position before and the one after; none beyond the end.
ReadRaw(i, size) ==
  IF i.current + size > Len(body)
  THEN Result(SetError(i), <<>>)
  ELSE Result([i EXCEPT !.current = @ + size],
              SubSeq(body, i.current + 1, i.current + size))

\* Stands for the numbers from 2^24 on: none is sent, but other bytes may be taken for one.
Large == 256 ^ 3

\* Zero, the initial value, unless the stream has no error.
ReadBasic(i, size) ==
  LET raw == ReadRaw(IF size > 1 THEN AlignIn(i, size) ELSE i, size)
      Digit(k) == IF k > size THEN 0 ELSE raw.value[k] * 256 ^ (k - 1)
  IN Result(raw.in, IF raw.in.error THEN 0
                    ELSE IF \E k \in 4 .. size : raw.value[k] # 0 THEN Large
                    ELSE Digit(1) + Digit(2) + Digit(3))

\* Up to the terminator; what was never a string may lack one, and is then unspecified.
ReadString(i) ==
  LET length == ReadBasic(i, 4)
      raw    == ReadRaw(length.in, length.value + 1)
  IN Result(raw.in, IF raw.in.error THEN <<>>
                    ELSE SubSeq(raw.value, 1, SelectInSeq(raw.value, LAMBDA c : c = 0) - 1))

ReadBuffer(i) ==
  LET length == ReadBasic(i, 4)
  IN ReadRaw(length.in, length.value)

SkipSignature(i) ==
  LET length == ReadBasic(i, 1)
  IN ReadRaw(length.in, length.value + 1).in

\* The reader's own copy of alignVector().
ReadBoundary(t) == VectorBoundary(t)

PushSize(i, size) == [i EXCEPT !.sizes = Append(@, size)]

BeginRead(i, boundary) ==
  LET length  == ReadBasic(i, 4)
      aligned == AlignIn(PushSize(length.in, length.value), boundary)
  IN [aligned EXCEPT !.positions = Append(@, aligned.current)]

Completed(i) == Last(i.sizes) <= i.current - Last(i.positions)

EndRead(i) == [i EXCEPT !.sizes = Front(@), !.positions = Front(@)]

\* The keys of a map whose values are maps that are skipped.
SkipMap(i) ==
  LET length == ReadBasic(i, 4)
  IN ReadRaw(AlignIn(length.in, 8), length.value).in

RECURSIVE Read(_, _), ReadFields(_, _), ReadElements(_, _, _), ReadEntries(_, _, _), ReadKeys(_, _)

ReadFields(i, ts) ==
  FoldLeftDomain(LAMBDA r, k : LET next == Read(r.in, ts[k])
                               IN Result(next.in, Append(r.value, next.value)),
                 Result(i, <<>>), ts)

ReadElements(i, t, vs) ==
  IF Completed(i) THEN Result(i, vs)
  ELSE LET next == Read(i, t)
       IN IF next.in.error THEN Result(next.in, vs)
          ELSE ReadElements(next.in, t, Append(vs, next.value))

\* insert() keeps the entry that is there.
ReadEntries(i, t, es) ==
  IF Completed(i) THEN Result(i, es)
  ELSE LET key   == Read(AlignIn(i, 8), t.key)
           value == Read(key.in, t.value)
           known == \E k \in DOMAIN es : es[k][1] = key.value
       IN IF value.in.error THEN Result(value.in, es)
          ELSE ReadEntries(value.in, t,
                           IF known THEN es ELSE Append(es, <<key.value, value.value>>))

\* The loop over a map of interfaces does not stop at an error.
ReadKeys(i, keys) ==
  IF Completed(i) THEN Result(i, keys)
  ELSE LET key == ReadString(AlignIn(i, 8))
       IN ReadKeys(SkipMap(key.in), Append(keys, key.value))

\* An index that denotes no alternative reads nothing.
ReadAlternative(i, t, index) ==
  IF index \in DOMAIN t.alternatives
  THEN LET value == Read(i, Alternative(t, index))
       IN Result(value.in, [index |-> index, value |-> value.value])
  ELSE Result(i, [index |-> index, value |-> None])

\* The first alternative of a type with the signature found, 0 if there is none.
AlternativeWith(t, s) ==
  LET n == Len(t.alternatives)
      k == SelectInSeq(t.alternatives, LAMBDA a : Signature(a, None) = s)
  IN IF k = 0 THEN 0 ELSE n + 1 - k

\* mutant: an unknown signature is taken for the first alternative.
ReadDBusVariantAny(i, t) ==
  LET length == ReadBasic(i, 1)
      raw    == ReadRaw(length.in, length.value + 1)
      index  == IF raw.in.error THEN 0 ELSE AlternativeWith(t, Front(raw.value))
  IN ReadAlternative(raw.in, t, IF index = 0 THEN Len(t.alternatives) ELSE index)

ReadDBusVariant(i, t) ==
  LET length == ReadBasic(i, 1)
      raw    == ReadRaw(length.in, length.value + 1)
      index  == IF raw.in.error THEN 0 ELSE AlternativeWith(t, Front(raw.value))
  IN IF index = 0 THEN Result(SetError(raw.in), [index |-> 0, value |-> None])
     ELSE ReadAlternative(raw.in, t, index)

ReadVariant(i, t) ==
  LET index == ReadBasic(AlignIn(i, 8), 1)
  IN ReadAlternative(SkipSignature(index.in), t, index.value)

\* The members are read only if the stream has no error.
ReadPolymorphic(i, t) ==
  LET serial == ReadBasic(AlignIn(i, 8), 4)
      start  == AlignIn(SkipSignature(serial.in), 8)
  IN IF start.error THEN Result(start, None)
     ELSE LET fields == ReadFields(start, t.structs[serial.value])
          IN Result(fields.in, [serial |-> serial.value, fields |-> fields.value])

\* mutant: the sizes and positions of a vector that ends early stay.
ReadVectorKept(i, t) ==
  LET end == ReadElements(BeginRead(i, ReadBoundary(t.element)), t.element, <<>>)
  IN IF end.in.error THEN end ELSE Result(EndRead(end.in), end.value)

ReadVector(i, t) ==
  LET end == ReadElements(BeginRead(i, ReadBoundary(t.element)), t.element, <<>>)
  IN Result(EndRead(end.in), end.value)

ReadMap(i, t) ==
  LET end == ReadEntries(BeginRead(i, 8), t, <<>>)
  IN Result(EndRead(end.in), end.value)

ReadInterfaces(i) ==
  LET end == ReadKeys(BeginRead(i, 8), <<>>)
  IN Result(EndRead(end.in), end.value)

ReadNumber(i, t) == ReadBasic(i, IF t.kind = "integer" THEN t.size ELSE 8)

\* A literal the reader does not know, or a number that is no truth value, is an error.
ReadBoolean(i) ==
  LET n == ReadBasic(i, 4)
  IN Result(IF n.value > 1 THEN SetError(n.in) ELSE n.in, n.value # 0)

ReadEnumeration(i, t) ==
  LET n == ReadBasic(i, t.size)
  IN Result(IF n.value \in t.literals THEN n.in ELSE SetError(n.in), n.value)

\* validate() is asked about the value from before, a default one, not the one read.
ReadRanged(i) == ReadBasic(i, 4)

ReadVersion(i) ==
  LET major == ReadBasic(AlignIn(i, 8), 4)
      minor == ReadBasic(major.in, 4)
  IN Result(minor.in, <<major.value, minor.value>>)

Read(i, t) ==
  CASE t.kind = "boolean" -> ReadBoolean(i)
    [] t.kind = "enumeration" -> ReadEnumeration(i, t)
    [] t.kind = "ranged" -> ReadRanged(i)
    [] t.kind = "string" -> ReadString(i)
    [] t.kind = "version" -> ReadVersion(i)
    [] t.kind = "buffer" -> ReadBuffer(i)
    [] t.kind = "struct" -> ReadFields(AlignIn(i, 8), t.fields)
    [] t.kind = "polymorphic" -> ReadPolymorphic(i, t)
    [] t.kind = "variant" -> IF t.isDBus THEN ReadDBusVariant(i, t) ELSE ReadVariant(i, t)
    [] t.kind = "vector" -> ReadVector(i, t)
    [] t.kind = "map" -> ReadMap(i, t)
    [] t.kind = "interfaces" -> ReadInterfaces(i)
    [] OTHER -> ReadNumber(i, t)

----------------------------------------------------------------------------
(* The exchange of a message.                                              *)

Init ==
  /\ scenario \in DOMAIN Scenarios
  /\ out = NewOutput
  /\ written = 0
  /\ body = None
  /\ in = NewInput
  /\ got = <<>>

\* serialize(): an argument is written while no one before has failed.
WriteArgument ==
  /\ body = None
  /\ written < Len(Sends)
  /\ ~out.error
  /\ LET a == Sends[written + 1] IN out' = Write(out, a.type, a.value)
  /\ written' = written + 1
  /\ UNCHANGED <<scenario, body, in, got>>

\* flush() copies the payload into the message, unless serialize() failed.
Flush ==
  /\ body = None
  /\ written = Len(Sends)
  /\ ~out.error
  /\ body' = out.payload
  /\ UNCHANGED <<scenario, out, written, in, got>>

\* deserialize(): an argument is read while no one before has failed.
ReadArgument ==
  /\ body # None
  /\ Len(got) < Len(Expects)
  /\ ~in.error
  /\ LET r == Read(in, Expects[Len(got) + 1])
     IN in' = r.in /\ got' = Append(got, r.value)
  /\ UNCHANGED <<scenario, out, written, body>>

Next == WriteArgument \/ Flush \/ ReadArgument

Spec == Init /\ [][Next]_vars

----------------------------------------------------------------------------
(* What a reader that knows D-Bus only makes of a body: the rules of the   *)
(* D-Bus specification, with the signature as the only description.        *)

Up(at, boundary) == ((at + boundary - 1) \div boundary) * boundary

Beyond == 100000

BoundaryOf(c) ==
  CASE c \in {121, 103, 118} -> 1
    [] c \in {110, 113} -> 2
    [] c \in {98, 105, 117, 104, 115, 111, 97} -> 4
    [] c \in {120, 116, 100, 40, 123} -> 8

NumberAt(at, size) ==
  IF size = 1 THEN body[at + 1] ELSE body[at + 1] + 256 * body[at + 2]

\* Where the complete type that begins at k ends in signature s.
RECURSIVE TypeEnd(_, _), MembersEnd(_, _)
MembersEnd(s, k) == IF s[k] \in {41, 125} THEN k ELSE MembersEnd(s, TypeEnd(s, k) + 1)
TypeEnd(s, k) ==
  CASE s[k] = 97 -> TypeEnd(s, k + 1)
    [] s[k] \in {40, 123} -> MembersEnd(s, k + 1)
    [] OTHER -> k

\* Where a value of the type at k ends, when it begins at the offset; Beyond if
\* there is no such value.
RECURSIVE ValueEnd(_, _, _), MembersFrom(_, _, _), ElementsFrom(_, _, _, _)

TextEnd(at, size) ==
  LET length == NumberAt(at, size)
      end    == at + size + length + 1
  IN IF at + size > Len(body) \/ end > Len(body) THEN Beyond
     ELSE IF body[end] = 0 /\ \A j \in at + size + 1 .. end - 1 : body[j] # 0
          THEN end ELSE Beyond

MembersFrom(at, s, k) ==
  IF at > Len(body) \/ s[k] \in {41, 125} THEN at
  ELSE MembersFrom(ValueEnd(at, s, k), s, TypeEnd(s, k) + 1)

ElementsFrom(at, s, k, end) ==
  IF at >= end THEN IF at = end THEN at ELSE Beyond
  ELSE ElementsFrom(ValueEnd(at, s, k), s, k, end)

ValueEnd(at, s, k) ==
  LET start  == Up(at, BoundaryOf(s[k]))
      padded == start <= Len(body) /\ \A j \in at + 1 .. start : body[j] = 0
      first  == Up(start + 4, BoundaryOf(s[k + 1]))
      inner  == SubSeq(body, start + 2, start + 1 + body[start + 1])
  IN CASE ~padded -> Beyond
       [] padded /\ s[k] \in {121, 110, 113, 105, 117, 104, 120, 116, 100} ->
            start + BoundaryOf(s[k])
       [] padded /\ s[k] = 98 ->
            IF start + 4 <= Len(body) /\ NumberAt(start, 4) <= 1 THEN start + 4 ELSE Beyond
       [] padded /\ s[k] \in {115, 111} ->
            IF start + 4 <= Len(body) THEN TextEnd(start, 4) ELSE Beyond
       [] padded /\ s[k] = 97 ->
            IF first <= Len(body) /\ \A j \in start + 5 .. first : body[j] = 0
            THEN ElementsFrom(first, s, k + 1, first + NumberAt(start, 4))
            ELSE Beyond
       [] padded /\ s[k] \in {40, 123} -> MembersFrom(start, s, k + 1)
       [] padded /\ s[k] = 118 ->
            IF start < Len(body) /\ TextEnd(start, 1) # Beyond /\ inner # <<>>
               /\ TypeEnd(inner, 1) = Len(inner)
            THEN ValueEnd(TextEnd(start, 1), inner, 1) ELSE Beyond

\* The signature an argument is declared with, by the generated code.
RECURSIVE Declared(_, _)
Declared(t, v) ==
  CASE t.kind = "polymorphic" -> Parens(<<117, 118>>)
    [] t.kind = "vector" -> <<97>> \o Declared(t.element, None)
    [] t.kind = "struct" ->
         Parens(FlattenSeq([i \in DOMAIN t.fields |->
                              Declared(t.fields[i], IF v = None THEN None ELSE v[i])]))
    [] OTHER -> Signature(t, v)

MessageSignature ==
  FlattenSeq([i \in 1 .. Len(Sends) |->
                Declared(Sends[i].type, Sends[i].value)])

(* What a reader is entitled to make of a value that was sent by another   *)
(* version of its interface.  Calls and signals are told apart by their    *)
(* declared signatures, hence both versions have the same one, and differ  *)
(* in what it does not show: the literals of enumerations and the          *)
(* alternatives of variants.                                               *)

\* The index of the reader's alternative under which the value of a variant is read:
\* found by the signature in a D-Bus variant, taken from the sender in an ordinary one.
TakenAs(e, t, v) ==
  IF e.isDBus THEN AlternativeWith(e, Signature(Alternative(t, v.index), v.value)) ELSE v.index

\* The values within a value, each with the types of the reader and of the sender.
Part(e, t, v) == [expected |-> e, sent |-> t, value |-> v]

Parts(e, t, v) ==
  CASE e.kind = "vector" -> [i \in DOMAIN v |-> Part(e.element, t.element, v[i])]
    [] e.kind = "struct" -> [i \in DOMAIN v |-> Part(e.fields[i], t.fields[i], v[i])]
    [] e.kind = "map" -> [i \in DOMAIN v |-> Part(e.value, t.value, v[i][2])]
    [] e.kind = "variant" ->
         IF TakenAs(e, t, v) \in DOMAIN e.alternatives
         THEN <<Part(Alternative(e, TakenAs(e, t, v)), Alternative(t, v.index), v.value)>>
         ELSE <<>>
    [] OTHER -> <<>>

RECURSIVE Seen(_, _, _), Refused(_, _, _), Mistaken(_, _, _)

Seen(e, t, v) ==
  LET parts == Parts(e, t, v)
      Inner(i) == Seen(parts[i].expected, parts[i].sent, parts[i].value)
  IN CASE e.kind = "interfaces" -> [i \in DOMAIN v |-> v[i][1]]
       [] e.kind \in {"vector", "struct"} -> [i \in DOMAIN v |-> Inner(i)]
       [] e.kind = "map" -> [i \in DOMAIN v |-> <<v[i][1], Inner(i)>>]
       [] e.kind = "variant" -> [index |-> TakenAs(e, t, v), value |-> Inner(1)]
       [] OTHER -> v

\* The reader lacks a literal, or an alternative with the signature of a D-Bus variant.
Refused(e, t, v) ==
  LET parts == Parts(e, t, v)
  IN \/ e.kind = "enumeration" /\ v \notin e.literals
     \/ e.kind = "variant" /\ e.isDBus /\ TakenAs(e, t, v) = 0
     \/ \E i \in DOMAIN parts : Refused(parts[i].expected, parts[i].sent, parts[i].value)

\* The reader has no alternative, or one of another type, under the index of an ordinary
\* variant.  It skips the signature (DBusInputStream.hpp:174-180, 230-238): with no
\* error it reads the bytes as something else, or leaves them to what is read next.
Mistaken(e, t, v) ==
  LET parts == Parts(e, t, v)
      HasType == /\ v.index \in DOMAIN e.alternatives
                 /\ Signature(Alternative(e, v.index), None)
                      = Signature(Alternative(t, v.index), v.value)
  IN \/ e.kind = "variant" /\ ~e.isDBus /\ ~HasType
     \/ \E i \in DOMAIN parts : Mistaken(parts[i].expected, parts[i].sent, parts[i].value)

----------------------------------------------------------------------------
(* Properties.                                                             *)

IsPosition(n) == n \in 0 .. Beyond

\* Type correctness of the streams; bytes fit into eight bits.
TypeOK ==
  /\ scenario \in DOMAIN Scenarios
  /\ \A i \in DOMAIN out.payload : out.payload[i] \in 0 .. 255
  /\ \A i \in DOMAIN out.positions : IsPosition(out.positions[i])
  /\ out.error \in BOOLEAN
  /\ written \in 0 .. Len(Sends)
  /\ body # None => body = out.payload
  /\ IsPosition(in.current)
  /\ \A i \in DOMAIN in.sizes : IsPosition(in.sizes[i])
  /\ \A i \in DOMAIN in.positions : IsPosition(in.positions[i])
  /\ in.error \in BOOLEAN
  /\ Len(got) <= Len(Expects)

\* alignVector() pads vectors of ranged integers and of D-Bus variants to eight
\* bytes, where D-Bus asks for four and for one.
RECURSIVE Overaligned(_)
Overaligned(t) ==
  CASE t.kind = "vector" ->
         \/ t.element.kind = "ranged"
         \/ t.element.kind = "variant" /\ t.element.isDBus
         \/ Overaligned(t.element)
    [] t.kind = "struct" -> \E i \in DOMAIN t.fields : Overaligned(t.fields[i])
    [] t.kind = "variant" -> \E i \in DOMAIN t.alternatives : Overaligned(t.alternatives[i])
    [] t.kind = "map" -> Overaligned(t.value)
    [] OTHER -> FALSE

\* A body that was written without an error is what D-Bus makes of the declared
\* signature, up to its last byte: paddings, lengths, terminators, and the signature
\* of every variant with the value behind it.
BodyWellFormed ==
  body # None /\ (\A i \in 1 .. Len(Sends) : ~Overaligned(Sends[i].type))
    => MembersFrom(0, MessageSignature \o <<41>>, 1) = Len(body)

\* Between two arguments no vector or map is open: a reader that fails within one leaves
\* no size or position behind, a writer only if a map failed, whose body is never sent.
StacksBalanced ==
  /\ in.sizes = <<>> /\ in.positions = <<>>
  /\ ~out.error => out.positions = <<>>

\* The writer and the reader keep to the format: the body is well formed, and what
\* they opened they have closed.
WellFormed == BodyWellFormed /\ StacksBalanced

\* Whether one of the first n arguments is mistaken.
MistakenUpTo(n) ==
  \E k \in 1 .. n :
    k <= Len(Sends) /\ Mistaken(Expects[k], Sends[k].type, Sends[k].value)

\* As long as no ordinary variant has been sent whose index denotes another type for the
\* reader (Mistaken: such a variant is misread, and so may be what follows): the argument
\* read last, if there is no error, is the one that was sent, as the reader's type sees it,
\* and the whole body is read with the last one; there is an error exactly if the reader
\* expects an argument that was not sent, or does not know the literal of an enumeration
\* or the signature of a D-Bus variant.  The limits of a ranged integer, which the reader
\* never applies to the number it has read, are no part of this (DBusInputStream.hpp:114).
ReadsExact ==
  /\ LET n    == Len(got)
         sent == Sends[n]
         bad  == n > Len(Sends) \/ Refused(Expects[n], sent.type, sent.value)
     IN n > 0 /\ ~MistakenUpTo(n) =>
          IF in.error THEN bad
          ELSE ~bad /\ got[n] = Seen(Expects[n], sent.type, sent.value)
  /\ ~in.error /\ body # None /\ Len(got) = Len(Sends) /\ ~MistakenUpTo(Len(Sends))
       => in.current = Len(body)
=============================================================================
