---------------------------- MODULE MCJsonCodec -----------------------------
(***************************************************************************)
(* Every short text of five alphabets; longer texts with targets that fit  *)
(* them or do not; values of up to three levels; and declarations of five  *)
(* struct types that embed each other.                                     *)
(***************************************************************************)
EXTENDS JsonCodec

\* Nesting and separators, numbers, the words, escapes of four digits with
\* surrogate pairs cut short by the length, and the other string contents.
MCAlphabets ==
    {[bytes |-> {"{", "}", "[", "]", ":", ",", Quote, "0", " "}, length |-> 6],
     [bytes |-> {"-", "0", "1", ".", "e", "+", " "}, length |-> 7],
     [bytes |-> {"t", "r", "u", "e", "f", "a", "l", "s", "n", "tab"}, length |-> 6],
     [bytes |-> {Quote, Backslash, "u", "d"}, length |-> 9],
     [bytes |-> {Quote, Backslash, "b", "<", "LS", " ", "tab", "ctl", "'"}, length |-> 5]}

(***************************************************************************)
(* Texts and targets.                                                      *)
(***************************************************************************)
\* Texts, from the inside out.
Key   == {<<Quote, "x", Quote>>, <<Quote, Quote>>, <<Quote, Backslash, "u", "0", "0", "1", "8", Quote>>}
Lists(S) == {<<>>} \cup S \cup {a \o <<",">> \o b : a, b \in S}
Arrays(S) == {<<"[">> \o l \o <<"]">> : l \in Lists(S)}
Objects(S) == {<<"{">> \o l \o <<"}">> : l \in Lists({k \o <<":">> \o v : k \in Key, v \in S})}
Small == {<<"0">>, <<Quote, "x", Quote>>, <<"n", "u", "l", "l">>}
Inside == {<<"1">>, <<"[", "]">>, <<"[", "0", ",", "[", "0", "]", "]">>, <<"{", "}">>,
           <<"{", Quote, "x", Quote, ":", "0", "}">>,
           <<"{", Quote, Quote, ":", "[", "]", ",", Quote, "x", Quote, ":", "0", "}">>,
           <<"{", Quote, Quote, ":", "0", ",", Quote, Quote, ":", "0", "}">>}
Spaced == {<<" ", "[", " ", "0", " ", ",", " ", "[", " ", "]", " ", "]", " ">>,
           <<"{", " ", Quote, "x", Quote, " ", ":", " ", "0", " ", "}">>,
           <<"[", "0", ".", "1", ",", "t", "r", "u", "e", "]">>,
           <<"[", "0", ",", "]">>, <<"{", "0", "}">>}
\* Surrogates in and out of pairs.
Surrogates ==
    LET U(h) == <<Backslash, "u", "d", h, "0", "0">>
    IN  {<<Quote>> \o s \o <<Quote>> :
            s \in {U("8") \o U("c"), U("A") \o U("f") \o U("d"), U("b") \o U("a") \o U("e"), U("8"),
                  U("e") \o U("8"), U("8") \o <<"x">> \o U("c"), U("8") \o <<Backslash, "n">>,
                  U("a") \o <<Backslash, "u", "0", "0", "1", "8">>}}
Texts == Surrogates \cup Small \cup Arrays(Small) \cup Objects(Small) \cup Arrays(Inside) \cup Objects(Inside) \cup Spaced

Number == [kind |-> "int"]
String == [kind |-> "string"]
Bool == [kind |-> "bool"]
Raw == [kind |-> "raw"]
Text == [kind |-> "text"]
Slice(e) == [kind |-> "slice", elem |-> e]
Array(n, e) == [kind |-> "array", len |-> n, elem |-> e]
Map(e) == [kind |-> "map", elem |-> e]
KeyX == Unquote(<<Quote, "x", Quote>>)[1]
StructX(t) == [kind |-> "struct", fields |-> [k \in {KeyX} |-> t]]
Json == [kind |-> "number"]
Ptr(t) == [kind |-> "ptr", elem |-> t]
Quoted(t) == [kind |-> "quoted", elem |-> t]
Targets == {Iface, Ptr(Raw), Ptr(Slice(Ptr(Number))), Ptr(Map(Text)), Slice(Json), Text, Slice(Bool), Map(Text), Number, Raw, Slice(Iface), Slice(Number), Slice(Raw), Slice(StructX(Number)), Array(1, Iface),
            Array(0, Number), Map(Iface), Map(Array(1, Number)), StructX(Number), StructX(Raw), StructX(Map(Number)),
            StructX(Array(1, StructX(String)))}

\* Some array of the text has an array where the target has no element left.  value
\* skips that array by feeding the scanner an empty string (json/decode.go:356) and
\* closes only objects by hand, so its bracket stays open: such texts end in errPhase
\* and are left out of the cases.
RECURSIVE SkipsArray(_, _)
SkipsArray(t, tg) ==
    LET parts == PartsOf(t)
        array == t[1] = "["
        val(k) == Trim(IF array THEN parts[k] ELSE From(parts[k], Colon(parts[k]) + 1))
        sub(k) == IF array THEN ElemTarget(tg, k - 1) ELSE MemberTarget(tg, KeyOf(parts[k]))
    IN  /\ t[1] \in {"[", "{"} /\ (IF array THEN TakesArray(tg) ELSE TakesObject(tg))
        /\ \E k \in DOMAIN parts : \/ array /\ sub(k) = NoTarget /\ val(k)[1] = "["
                                   \/ SkipsArray(val(k), sub(k))
\* Fields with the string option.
QuotedTargets == {StructX(Quoted(t)) : t \in {Number, String, Bool, Json, Ptr(Number), Ptr(String)}}
InStrings == {<<>>, <<"0">>, <<"1", "8">>, <<"-", "1">>, <<"x">>, <<"0", "x">>, <<"t", "r", "u", "e">>,
              <<"n", "u", "l", "l">>,
              <<Backslash, Quote, "x", Backslash, Quote>>, <<Backslash, Quote, "x">>}
QuotedTexts ==
    {<<"{", Quote, "x", Quote, ":">> \o v \o rest :
        v \in {<<Quote>> \o s \o <<Quote>> : s \in InStrings}
             \cup {<<"0">>, <<"t", "r", "u", "e">>, <<"n", "u", "l", "l">>, <<"[", "]">>, <<"{", "}">>},
        rest \in {<<"}">>, <<",", Quote, Quote, ":", "0", "}">>}}
MCCases == QuotedTexts \X QuotedTargets \cup
    {c \in Texts \X Targets : IsText(c[1]) => ~SkipsArray(Trim(c[1]), c[2])}

(***************************************************************************)
(* Values and their types.                                                 *)
(***************************************************************************)
Typed(v, tg) == [v |-> v, tg |-> tg]
Bytes == {"x", Quote, Backslash, "tab", "ctl", "<", "LS", "bad"}
Str(s) == Typed([kind |-> "string", s |-> s], String)
IntOf(t) == Typed([kind |-> "int", text |-> t], Number)
Num(t) == Typed([kind |-> "number", text |-> t], Json)
Boolean(b) == Typed([kind |-> "bool", v |-> b], Bool)
TextOf(s) == Typed([kind |-> "text", s |-> s], Text)
RawOf(b) == Typed([kind |-> "raw", b |-> b], Raw)
Channel == Typed([kind |-> "unsupported"], Number)

Strings2 == {Str(s) : s \in {<<>>} \cup {<<a>> : a \in Bytes} \cup {<<a, b>> : a, b \in Bytes}}
Plain == {Str(<<>>), Str(<<"<">>), IntOf(<<"0">>), IntOf(<<"-", "1">>), Boolean(FALSE), Boolean(TRUE),
          Num(<<>>), Num(<<"1", "8">>)}
Special == {TextOf(<<"LS">>), RawOf(<<<<"[", " ", Quote, "<", Quote, " ", "]">>>>), RawOf(<<<<"{", "}">>>>)}
Broken == {Num(<<"x">>), Channel, RawOf(<<>>), RawOf(<<<<"[", "0">>>>)}

Iface1(c) == Typed([kind |-> "iface", elems |-> <<c.v>>], Iface)
Ptr1(c) == Typed([kind |-> "ptr", elems |-> <<c.v>>], Ptr(c.tg))
PtrNil(c) == Typed([kind |-> "ptr", elems |-> <<>>], Ptr(c.tg))
SliceOf(cs, tg) == Typed([kind |-> "slice", nil |-> FALSE, elems |-> [i \in DOMAIN cs |-> cs[i].v]],
                       Slice(tg))
SliceNil(tg) == Typed([kind |-> "slice", nil |-> TRUE, elems |-> <<>>], Slice(tg))
Array2(c) == Typed([kind |-> "array", elems |-> <<c.v, c.v>>], Array(2, c.tg))
MapOf(cs, tg) ==
    Typed([kind |-> "map", nil |-> FALSE,
           members |-> [i \in DOMAIN cs |-> [name |-> <<<<Quote>>, <<"x">>>>[i], v |-> cs[i].v]]],
          Map(tg))
MapNil(tg) == Typed([kind |-> "map", nil |-> TRUE, members |-> <<>>], Map(tg))

Field(name, c, omitEmpty, quoted, absent) ==
    [name |-> name, v |-> c.v, omitEmpty |-> omitEmpty, quoted |-> quoted, absent |-> absent,
     tg |-> IF quoted THEN Quoted(c.tg) ELSE c.tg]
StructOf(fs) ==
    Typed([kind |-> "struct", fields |-> fs],
          [kind |-> "struct",
           fields |-> [k \in {Characters(fs[i].name) : i \in DOMAIN fs} |->
                          (fs[CHOOSE i \in DOMAIN fs : Characters(fs[i].name) = k]).tg]])
\* The types that the string option applies to, other than Number: these and pointers to them.
Quotable(c) ==
    LET kinds == {"bool", "int", "string"} IN c.v.kind \in kinds \/ (c.v.kind = "ptr" /\ c.tg.elem.kind \in kinds)
Structs(cs) ==
    {StructOf(<<Field(<<"x">>, c, o, q /\ Quotable(c), a), Field(<<"<">>, IntOf(<<"1">>), TRUE, TRUE, FALSE)>>) :
        c \in cs, o, q, a \in BOOLEAN}

Containers(cs) ==
    {Ptr1(c) : c \in cs} \cup {PtrNil(c) : c \in cs} \cup {Array2(c) : c \in cs}
    \cup {SliceOf(<<c>>, c.tg) : c \in cs} \cup {SliceOf(<<c, c>>, c.tg) : c \in cs}
    \cup {SliceOf(<<>>, c.tg) : c \in cs} \cup {SliceNil(c.tg) : c \in cs}
    \cup {MapOf(<<c>>, c.tg) : c \in cs} \cup {MapOf(<<c, c>>, c.tg) : c \in cs} \cup {MapNil(c.tg) : c \in cs}
    \cup Structs(cs)

\* What an interface gives back as it was: Unmarshal cannot know the string option.
InIface ==
    LET cs == {Str(<<"<">>), Num(<<"x">>)} IN Containers(cs) \ Structs(cs)

MCValues ==
    Strings2 \cup Plain \cup Special \cup Broken
    \cup Containers(Plain \cup Special \cup Broken) \cup Structs(Strings2)
    \cup {Iface1(c) : c \in Plain \cup Broken \cup InIface}
    \cup Containers(Containers({IntOf(<<"0">>), Channel}))
    \cup Structs({Ptr1(Str(<<"tab">>)), PtrNil(IntOf(<<"0">>))})

(***************************************************************************)
(* Struct types with up to two fields, in diamonds and cycles.  The field  *)
(* that embeds an unexported type x, no struct, is recorded like any other *)
(* (json/encode.go:1028).                                                  *)
(***************************************************************************)
FiveTypes == {"A", "B", "C", "D", "E"}
FieldX == SF("x", "", "", TRUE)
FieldY == SF("y", "x", "", TRUE)
Hidden == SF("z", "-", "", TRUE)
Private == SF("w", "", "", FALSE)
EmbedX == SF("x", "", Basic, FALSE)
Embed(t) == SF(t, "", t, TRUE)
Tagged(t) == SF(t, "x", t, TRUE)

Declarations(sfs) ==
    {<<>>} \cup {<<f>> : f \in sfs}
    \cup {s \in {<<f, g>> : f, g \in sfs} : s[1].name # s[2].name}

Mixed ==
    {[t \in FiveTypes |->
        CASE t = "A" -> a [] t = "B" -> b [] t = "C" -> c [] t = "D" -> d [] t = "E" -> <<FieldX>>] :
     a \in Declarations({FieldX, Embed("B"), Embed("C"), Tagged("C")}),
     b \in Declarations({FieldY, Private, EmbedX, Embed("A"), Embed("D")}),
     c \in Declarations({FieldX, Embed("B"), Embed("D")}),
     d \in Declarations({FieldY, Hidden, Embed("B"), Embed("E")})}
=============================================================================
