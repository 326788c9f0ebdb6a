----------------------------- MODULE JsonCodec ------------------------------
(***************************************************************************)
(* The json package from end to end.  A text comes from somebody who       *)
(* writes it byte by byte, or from a list of cases, or from Marshal: of a  *)
(* value, or of a struct whose fields typeFields has to find first.        *)
(* Unmarshal then decodes it, what Marshal wrote into a variable of the    *)
(* same type.                                                              *)
(***************************************************************************)
EXTENDS JsonDecode, JsonEncode, TypeFields

CONSTANTS
    Values,      \* the values to marshal, each with its type as a target: [v, tg]
    Alphabets    \* the alphabets of texts: [bytes, length]
ASSUME AlphabetsAssumption == \A a \in Alphabets : a.length \in Nat

VARIABLES value, alphabet
codecVars == <<vars, fieldVars, value, alphabet>>

NoValue == [kind |-> "none"]
NoAlphabet == [bytes |-> {}, length |-> 0]

Called(a) ==
    /\ data = <<>> /\ off = 1 /\ scan = Reset /\ saved = FALSE /\ frames = <<>>
    /\ at = a /\ arg = Zero /\ result = "running"

CodecInit ==
    \/ Init /\ NotCalled /\ value = NoValue /\ alphabet = NoAlphabet
    \/ Called("start") /\ target = Iface /\ NotCalled /\ value = NoValue /\ alphabet \in Alphabets
    \/ /\ \E c \in Values : value = c.v /\ target = c.tg
       /\ Called("marshal") /\ NotCalled /\ alphabet = NoAlphabet
    \/ Called("fields") /\ target = Iface /\ FieldsInit /\ value = NoValue /\ alphabet = NoAlphabet

\* A byte of the alphabet more.  A text that is in error gets no longer than the
\* longest text that shows the error.
Type(c) ==
    /\ at = "start" /\ Len(data) < alphabet.length
    /\ Len(data) < 2 \/ ~ScanAll(SubSeq(data, 1, Len(data) - 2)).err
    /\ data' = Append(data, c)
    /\ UNCHANGED <<target, off, scan, saved, frames, at, arg, result, fieldVars, value, alphabet>>

\* cachedTypeFields: a struct of that type, with a number in every field.  Types
\* with a field that Unmarshal cannot set, of an embedded unexported type that is no
\* struct, are looked at by typeFields only: reflect panics on them.
CanSet(sf) == sf.embeds = Basic => sf.exported
FieldsFound ==
    LET num == [kind |-> "int", text |-> <<"1">>]
        field(f) == [name |-> <<f.name>>, omitEmpty |-> FALSE, quoted |-> FALSE, absent |-> FALSE, v |-> num]
    IN  /\ at = "fields" /\ pc = "done"
        /\ \A t \in Types : \A i \in DOMAIN decl[t] : CanSet(decl[t][i])
        /\ value' = [kind |-> "struct", fields |-> [i \in DOMAIN fields |-> field(fields[i])]]
        /\ target' = [kind |-> "struct",
                      fields |-> [k \in {<<<<fields[i].name>>>> : i \in DOMAIN fields} |-> [kind |-> "int"]]]
        /\ at' = "marshal"
        /\ FieldsReturned
        /\ UNCHANGED <<data, off, scan, saved, frames, arg, result, alphabet>>

\* Marshal returns the text, or nil and the error.
MarshalStep ==
    LET t == Marshal(value)
    IN  /\ at = "marshal"
        /\ IF t = Fails THEN at' = "done" /\ result' = "marshal error" /\ UNCHANGED data
           ELSE at' = "start" /\ data' = t[1] /\ UNCHANGED result
        /\ UNCHANGED <<target, off, scan, saved, frames, arg, fieldVars, value, alphabet>>

CodecNext ==
    \/ \E c \in alphabet.bytes : Type(c)
    \/ FieldsNext /\ UNCHANGED <<vars, value, alphabet>>
    \/ FieldsFound
    \/ MarshalStep
    \/ Next /\ UNCHANGED <<fieldVars, value, alphabet>>
CodecSpec == CodecInit /\ [][CodecNext]_codecVars

-----------------------------------------------------------------------------
\* A character as unquote returns it.
Character(c) ==
    CASE c = "tab" -> <<Backslash, "n">>
      [] c = "ctl" -> <<"0", "0", "0", "1">>
      [] c = "<" -> <<"0", "0", "1", "c">>
      [] c = "LS" -> <<"1", "0", "1", "8">>
      [] c = "bad" -> <<"f", "f", "f", "d">>
      [] OTHER -> <<c>>
Characters(s) == [i \in DOMAIN s |-> Character(s[i])]

\* The value as the decoder stores it, by the comment on Marshal.
RECURSIVE Stored(_)
Stored(v) ==
    CASE v.kind = "bool" -> <<"bool", v.v>>
      [] v.kind = "int" -> <<"number", v.text>>
      [] v.kind = "number" -> <<"number", IF v.text = <<>> THEN <<"0">> ELSE v.text>>
      [] v.kind \in {"string", "text"} -> <<"string", Characters(v.s)>>
      [] v.kind = "raw" -> <<"raw", Compact(v.b[1], TRUE)[1]>>
      [] v.kind \in {"iface", "ptr"} -> IF v.elems = <<>> THEN Zero ELSE Stored(v.elems[1])
      [] v.kind \in {"slice", "array"} ->
            IF v.kind = "slice" /\ v.nil THEN Zero ELSE <<"array", [i \in DOMAIN v.elems |-> Stored(v.elems[i])]>>
      [] v.kind = "map" ->
            IF v.nil THEN Zero
            ELSE <<"object", {<<Characters(v.members[i].name), Stored(v.members[i].v)>> : i \in DOMAIN v.members}>>
      [] v.kind = "struct" ->
            <<"object", {<<Characters(v.fields[i].name), Stored(v.fields[i].v)>> :
                          i \in {j \in DOMAIN v.fields : Written(v.fields[j])}}>>

\* There is something in v that has no JSON form.
RECURSIVE NoForm(_)
NoForm(v) ==
    CASE v.kind = "unsupported" -> TRUE
      [] v.kind = "number" -> v.text # <<>> /\ ~IsNumber(v.text)
      [] v.kind = "raw" -> v.b = <<>> \/ ~IsText(v.b[1])
      [] v.kind \in {"iface", "ptr", "slice", "array"} -> \E i \in DOMAIN v.elems : NoForm(v.elems[i])
      [] v.kind = "map" -> \E i \in DOMAIN v.members : NoForm(v.members[i].v)
      [] v.kind = "struct" -> \E i \in DOMAIN v.fields : Written(v.fields[i]) /\ NoForm(v.fields[i].v)
      [] OTHER -> FALSE

\* What Marshal writes, Unmarshal reads back without an error: every string with
\* all its bytes, every element and member in its place, through pointers,
\* interfaces, Marshalers, embedded structs and the string option.  Marshal fails
\* exactly when a part that it would write has no JSON form, however deep; it never
\* returns the text around such a part.
RoundTrip ==
    at = "done" /\ value # NoValue =>
        IF NoForm(value) THEN result = "marshal error" ELSE result = "ok" /\ arg = Stored(value)

\* nextValue cuts the text in two without losing a byte, the first part is one
\* whole value, and it finds the value of every text that starts with an object,
\* array or string, and of every text that is a value and nothing else.
NextValueSplits ==
    LET r == NextValue(data)
    IN  at = "start" =>
        /\ r # <<>> => r[1] \o r[2] = data /\ IsText(r[1])
        /\ r = <<>> => /\ ~IsText(data)
                       /\ \A i \in DOMAIN data : data[i] \in {"}", "]", Quote} => ~IsText(To(data, i))

\* The bytes outside of strings that are not space.
RECURSIVE Ink(_, _)
Ink(t, quoted) ==
    IF t = <<>> THEN <<>>
    ELSE IF quoted /\ t[1] = Backslash THEN To(t, 2) \o Ink(From(t, 3), TRUE)
    ELSE IF t[1] = Quote THEN <<Quote>> \o Ink(Tail(t), ~quoted)
    ELSE IF ~quoted /\ t[1] \in Space THEN Ink(Tail(t), FALSE)
    ELSE <<t[1]>> \o Ink(Tail(t), quoted)

\* compact drops the space between the tokens and nothing else, it also writes a
\* valid text when it escapes, and it writes nothing for an invalid text.
CompactFaithful ==
    at = "start" =>
        /\ (Compact(data, FALSE) # <<>>) <=> IsText(data)
        /\ IsText(data) =>
            /\ (\A i \in DOMAIN data : data[i] # "LS") => Compact(data, FALSE)[1] = Ink(data, FALSE)
            /\ IsText(Compact(data, TRUE)[1])

\* Indent adds and removes space only, ends at the depth where it began, and
\* keeps the space after the value, as its comment promises.
IndentFaithful ==
    LET r == Indent(data)
        trailing(t) == From(t, Len(Trim(<<"x">> \o t)))
    IN  at = "start" =>
        /\ (r # <<>>) <=> IsText(data)
        /\ IsText(data) => /\ r[1].depth = 0 /\ ~r[1].needIndent
                           /\ Ink(r[1].dst, FALSE) = Ink(data, FALSE)
                           /\ trailing(r[1].dst) = trailing(data)

\* isValidNumber, which the encoder and the ,string option use, and the scanner
\* agree on what a number is.
NumbersAgree == at = "start" => (IsValidNumber(data) <=> IsNumber(data))
\* The functions that run the scanner over a text, or repeat a part of it, agree
\* with the grammar: nextValue, compact, Indent and isValidNumber.
FunctionsFaithful == NextValueSplits /\ CompactFaithful /\ IndentFaithful /\ NumbersAgree
=============================================================================
