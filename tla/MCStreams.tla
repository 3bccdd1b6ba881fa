----------------------------- MODULE MCStreams -----------------------------
(* Messages for TLC: a few values of every type, behind every alignment,    *)
(* next to one another, and read by readers that expect something else.     *)
EXTENDS Streams

Byte   == Integer(1, 121)
Short  == Integer(2, 110)
Word   == Integer(4, 117)
Signed == Integer(4, 105)
Long   == Integer(8, 120)
String == Text(115)
Path   == Text(111)
Digit  == Ranged(0, 9)
Colour == Enumeration(4, 105, {0, 1})
Small  == Enumeration(1, 121, {0, 1, 2})
Half   == Enumeration(2, 113, {5})

Pair   == Struct(<<Byte, Long>>)
Nested == Struct(<<String, Vector(Short), Pair>>)
Either == Variant(<<Word, String, Pair>>, FALSE)
Native    == Variant(<<Word, String, Vector(Long)>>, TRUE)
Older  == Variant(<<Word, String>>, FALSE)
Shape  == Polymorphic(1 :> <<Byte>> @@ 2 :> <<Long, String>>)

Arg(t, v) == [type |-> t, value |-> v]
Choice(i, v) == [index |-> i, value |-> v]

hi == <<104, 105>>
a  == <<97>>

Basic ==
  << Arg(Byte, 7), Arg(Short, 300), Arg(Word, 70000), Arg(Long, 5), Arg(Boolean, TRUE),
    Arg(Boolean, FALSE), Arg(Float, 2), Arg(Double, 3), Arg(String, hi), Arg(Path, <<47>>),
    Arg(Version, <<1, 2>>), Arg(Buffer, <<>>), Arg(Buffer, <<1, 2, 3>>), Arg(Digit, 4),
    Arg(Digit, 12), Arg(Colour, 1), Arg(Small, 2), Arg(Half, 5) >>

Compound ==
  << Arg(Pair, <<1, 2>>), Arg(Nested, <<hi, <<1, 2, 3>>, <<4, 5>>>>),
    Arg(Struct(<<Digit, Byte>>), <<12, 1>>),
    Arg(Either, Choice(3, 9)), Arg(Either, Choice(2, a)), Arg(Either, Choice(1, <<1, 2>>)),
    Arg(Native, Choice(3, 9)), Arg(Native, Choice(2, hi)), Arg(Native, Choice(1, <<6>>)),
    Arg(Variant(<<Either, Native>>, TRUE), Choice(2, Choice(2, a))),
    Arg(Variant(<<Either, Native>>, FALSE), Choice(1, Choice(2, a))),
    Arg(Shape, [serial |-> 1, fields |-> <<8>>]),
    Arg(Shape, [serial |-> 2, fields |-> <<8, hi>>]) >>

Vectors ==
  << Arg(Vector(Byte), <<1, 2, 3>>), Arg(Vector(Short), <<1>>), Arg(Vector(Word), <<1, 2>>),
    Arg(Vector(Long), <<>>), Arg(Vector(Long), <<1>>), Arg(Vector(Boolean), <<TRUE>>),
    Arg(Vector(Float), <<2>>), Arg(Vector(String), <<hi, a, <<>>>>), Arg(Vector(Version), <<>>),
    Arg(Vector(Half), <<5>>), Arg(Vector(Small), <<1, 1>>), Arg(Vector(Colour), <<0, 1>>),
    Arg(Vector(Digit), <<1, 2>>), Arg(Vector(Digit), <<1, 12, 2>>),
    Arg(Vector(Pair), <<>>), Arg(Vector(Pair), <<<<1, 2>>, <<3, 4>>>>),
    Arg(Vector(Native), <<Choice(2, a), Choice(3, 1)>>),
    Arg(Vector(Either), <<Choice(2, a), Choice(3, 1)>>),
    Arg(Vector(Vector(Long)), << <<>>, <<1>> >>), Arg(Vector(Buffer), << <<1>>, <<>> >>),
    Arg(Vector(Shape), <<[serial |-> 1, fields |-> <<8>>]>>) >>

Dictionary == Map(String, Map(String, Native))
Entry(k, v) == <<k, v>>
Alive == <<Entry(hi, <<Entry(a, Choice(2, hi))>>), Entry(a, <<>>)>>

Maps ==
  << Arg(Map(Byte, Long), <<>>), Arg(Map(Byte, Long), <<Entry(1, 2), Entry(3, 4)>>),
    Arg(Map(String, Vector(Word)), <<Entry(hi, <<1>>), Entry(a, <<>>)>>),
    Arg(Vector(Map(Byte, Byte)), << <<Entry(1, 2)>>, <<>>, <<Entry(1, 2), Entry(2, 2)>> >>),
    Arg(Vector(Map(Byte, Digit)), << <<Entry(1, 2)>>, <<Entry(1, 12)>> >>),
    Arg(Dictionary, Alive),
    Arg(Properties(Native), <<Entry(hi, Choice(2, a)), Entry(a, Choice(1, <<1>>))>>) >>

Arguments == Basic \o Compound \o Vectors \o Maps

\* The type a reader of the same interface expects.
Own(x) == IF x.type.kind = "properties" THEN Map(String, x.type.value) ELSE x.type

\* Readers of another version of the interface.
Others ==
  << <<Arg(Signed, 1), Colour>>, <<Arg(Signed, 7), Colour>>, <<Arg(Byte, 3), Small>>,
    <<Arg(Vector(Signed), <<1, 7, 0>>), Vector(Colour)>>,
    <<Arg(Vector(Vector(Signed)), << <<1>>, <<7>>, <<0>> >>), Vector(Vector(Colour))>>,
    <<Arg(Struct(<<Signed, String>>), <<7, hi>>), Struct(<<Colour, String>>)>>,
    <<Arg(Native, Choice(2, hi)), Variant(<<String, Byte>>, TRUE)>>,
    <<Arg(Native, Choice(3, 9)), Variant(<<String, Byte>>, TRUE)>>,
    <<Arg(Variant(<<Signed>>, TRUE), Choice(1, 1)), Variant(<<Word, Colour, Signed>>, TRUE)>>,
    <<Arg(Variant(<<Signed>>, TRUE), Choice(1, 7)), Variant(<<Word, Colour, Signed>>, TRUE)>>,
    <<Arg(Vector(Native), <<Choice(2, a), Choice(1, <<>>)>>), Vector(Variant(<<String>>, TRUE))>>,
    <<Arg(Map(Byte, Signed), <<Entry(1, 1), Entry(2, 7)>>), Map(Byte, Colour)>>,
    <<Arg(Digit, 9), Ranged(0, 5)>>,
    <<Arg(Dictionary, Alive), Interfaces>>, <<Arg(Dictionary, <<>>), Interfaces>> >>

\* Readers of an ordinary variant, which counts its alternatives from the last: one that
\* has more in front, or whose types differ behind the same signatures, reads what was
\* sent; any other takes a number for a text, a text for a number, the bytes for less or
\* for more than there are, or does not read them.
OrdinaryReaders ==
  << <<Arg(Older, Choice(2, 2)), Variant(<<Byte, Word, String>>, FALSE)>>,
    <<Arg(Older, Choice(1, hi)), Variant(<<Byte, Word, String>>, FALSE)>>,
    <<Arg(Vector(Older), <<Choice(1, a), Choice(2, 3)>>), Vector(Variant(<<Pair, Word, String>>, FALSE))>>,
    <<Arg(Variant(<<Signed>>, FALSE), Choice(1, 1)), Variant(<<Word, Colour>>, FALSE)>>,
    <<Arg(Variant(<<Signed>>, FALSE), Choice(1, 7)), Variant(<<Word, Colour>>, FALSE)>>,
    <<Arg(Variant(<<Native>>, FALSE), Choice(1, Choice(2, hi))),
      Variant(<<Word, Variant(<<String, Byte>>, TRUE)>>, FALSE)>>,
    <<Arg(Variant(<<Older>>, FALSE), Choice(1, Choice(1, a))),
      Variant(<<Word, Variant(<<Word, Byte, String>>, FALSE)>>, FALSE)>>,
    <<Arg(Older, Choice(1, hi)), Variant(<<String, Word>>, FALSE)>>,
    <<Arg(Older, Choice(2, 3)), Variant(<<String, Word>>, FALSE)>>,
    <<Arg(Older, Choice(2, 70000)), Variant(<<String, Word>>, FALSE)>>,
    <<Arg(Older, Choice(1, hi)), Variant(<<Word, String, Byte>>, FALSE)>>,
    <<Arg(Older, Choice(2, 2)), Variant(<<Word, Vector(Long), Byte>>, FALSE)>>,
    <<Arg(Older, Choice(2, 2)), Variant(<<String>>, FALSE)>>,
    <<Arg(Map(Byte, Older), <<Entry(1, Choice(2, 2)), Entry(2, Choice(1, hi))>>),
      Map(Byte, Variant(<<String, Word>>, FALSE))>>,
    <<Arg(Variant(<<Older>>, FALSE), Choice(1, Choice(1, hi))),
      Variant(<<Variant(<<String, Word>>, FALSE)>>, FALSE)>> >>

\* 4 .. 11 bytes before the first argument.
Exchange(n, x, e, y) ==
  [sends   |-> <<Arg(Buffer, [i \in 1 .. n |-> 255]), x, y>>,
   expects |-> <<Buffer, e, Own(y), Byte>>]

Numbers == Len(Arguments)

\* Two arguments read as they were sent.
OwnReaders ==
  [k \in 1 .. 8 * Numbers * Numbers |->
     LET x == Arguments[((k \div 8) % Numbers) + 1]
         y == Arguments[(((k \div 8) \div Numbers) % Numbers) + 1]
     IN Exchange(k % 8, x, Own(x), y)]

AllOthers == Others \o OrdinaryReaders

\* One read as something else, and another.
OtherReaders ==
  [k \in 1 .. 16 * Len(AllOthers) |->
     LET o == AllOthers[((k \div 16) % Len(AllOthers)) + 1]
     IN Exchange(k % 8, o[1], o[2], IF k % 16 < 8 THEN Arg(Byte, 9) ELSE Arg(Long, 9))]

MCScenarios == OwnReaders \o OtherReaders
=============================================================================
