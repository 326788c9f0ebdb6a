----------------------------- MODULE JsonEncode -----------------------------
(***************************************************************************)
(* Marshal of json/encode.go, as the text it writes for a value.           *)
(*                                                                         *)
(* A value is what reflection finds: [kind |-> ...] with the kinds of      *)
(* JsonDecode and what the value holds: bool (v), int and number (text),   *)
(* string and text (s, bytes), iface and ptr (elems, at most one), slice   *)
(* and map (nil, elems or members), array (elems), struct (fields), raw (a *)
(* Marshaler: what MarshalJSON returns, <<>> for an error) and unsupported *)
(* (a channel, a function, a NaN).  The bytes of a string are those of     *)
(* JsonScanner and "bad", a byte that is no UTF-8.                         *)
(*                                                                         *)
(* Encode returns the text inside a sequence of one, or <<>> for a panic   *)
(* with an error, which marshal recovers and Marshal returns.              *)
(***************************************************************************)
EXTENDS JsonFunctions

Null == <<"n", "u", "l", "l">>
Fails == <<>>

(***************************************************************************)
(* string and stringBytes.                                                 *)
(***************************************************************************)
Escaped_NoControl(c) ==
    CASE c \in {Quote, Backslash} -> <<Backslash, c>>
      [] c = "tab" -> <<Backslash, "n">>
      [] c = "<" -> Unicode(<<"0", "0", "1", "c">>)
      [] c = "LS" -> Unicode(<<"1", "0", "1", "8">>)
      [] c = "bad" -> Unicode(<<"f", "f", "f", "d">>)
      [] OTHER -> <<c>>
Escaped(c) ==
    CASE c \in {Quote, Backslash} -> <<Backslash, c>>
      [] c = "tab" -> <<Backslash, "n">>
      [] c = "ctl" -> Unicode(<<"0", "0", "0", "1">>)
      [] c = "<" -> Unicode(<<"0", "0", "1", "c">>)
      [] c = "LS" -> Unicode(<<"1", "0", "1", "8">>)
      [] c = "bad" -> Unicode(<<"f", "f", "f", "d">>)
      [] OTHER -> <<c>>

RECURSIVE Concat(_)
Concat(ts) == IF ts = <<>> THEN <<>> ELSE ts[1] \o Concat(Tail(ts))
EncodeString(s) == <<Quote>> \o Concat([i \in DOMAIN s |-> Escaped(s[i])]) \o <<Quote>>

(***************************************************************************)
(* Literals.                                                               *)
(***************************************************************************)
InQuotes(t, quoted) == IF quoted THEN <<Quote>> \o t \o <<Quote>> ELSE t
EncodeBool(b) == IF b THEN <<"t", "r", "u", "e">> ELSE <<"f", "a", "l", "s", "e">>
\* stringEncoder for a Number: the empty one is 0, and quoted is not looked at.
EncodeNumber(text) ==
    LET t == IF text = <<>> THEN <<"0">> ELSE text
    IN  IF IsValidNumber(t) THEN <<t>> ELSE Fails
\* stringEncoder: with the string option the literal is written as a string again.
EncodeStr(s, quoted) == IF quoted THEN EncodeString(EncodeString(s)) ELSE EncodeString(s)

\* marshalerEncoder: what MarshalJSON returned is checked, compacted and escaped.
EncodeRaw(b) == IF b = <<>> THEN Fails ELSE Compact(b[1], TRUE)

(***************************************************************************)
(* isEmptyValue, and the struct fields that are written.  absent is a      *)
(* field behind an embedded pointer that is nil (fieldByIndex).            *)
(***************************************************************************)
IsEmptyValue(v) ==
    CASE v.kind \in {"array", "iface", "ptr"} -> v.elems = <<>>
      [] v.kind = "slice" -> v.nil \/ v.elems = <<>>
      [] v.kind = "map" -> v.nil \/ v.members = <<>>
      [] v.kind = "string" -> v.s = <<>>
      [] v.kind = "number" -> v.text = <<>>
      [] v.kind = "bool" -> ~v.v
      [] v.kind = "int" -> v.text = <<"0">>
      [] OTHER -> FALSE
Written(f) == ~f.absent /\ ~(f.omitEmpty /\ IsEmptyValue(f.v))

(***************************************************************************)
(* The encoders of composite values.                                       *)
(***************************************************************************)
RECURSIVE CommaSeparated(_)
CommaSeparated(ts) ==
    IF Len(ts) < 2 THEN Concat(ts) ELSE ts[1] \o <<",">> \o CommaSeparated(Tail(ts))

\* A panic in one part is a panic of the whole.
Enclosed(open, parts, close) ==
    IF \E i \in DOMAIN parts : parts[i] = Fails THEN Fails
    ELSE <<open \o CommaSeparated([i \in DOMAIN parts |-> parts[i][1]]) \o close>>

Member1(name, part) == IF part = Fails THEN Fails ELSE <<EncodeString(name) \o <<":">> \o part[1]>>

RECURSIVE Encode(_, _)
\* arrayEncoder, mapEncoder (members in the order of their keys) and structEncoder
EncodeElems(es) == Enclosed(<<"[">>, [i \in DOMAIN es |-> Encode(es[i], FALSE)], <<"]">>)
EncodeMembers(ms) == Enclosed(<<"{">>, [i \in DOMAIN ms |-> Member1(ms[i].name, Encode(ms[i].v, FALSE))], <<"}">>)
EncodeFields(fs) ==
    LET written == SelectSeq(fs, Written)
    IN  Enclosed(<<"{">>, [i \in DOMAIN written |-> Member1(written[i].name, Encode(written[i].v, written[i].quoted))],
                 <<"}">>)

Encode(v, quoted) ==
    CASE v.kind = "bool" -> <<InQuotes(EncodeBool(v.v), quoted)>>
      [] v.kind = "int" -> <<InQuotes(v.text, quoted)>>
      [] v.kind = "number" -> EncodeNumber(v.text)
      [] v.kind = "string" -> <<EncodeStr(v.s, quoted)>>
      [] v.kind = "text" -> <<EncodeString(v.s)>>
      [] v.kind = "raw" -> EncodeRaw(v.b)
      [] v.kind = "iface" -> IF v.elems = <<>> THEN <<Null>> ELSE Encode(v.elems[1], FALSE)
      [] v.kind = "ptr" -> IF v.elems = <<>> THEN <<Null>> ELSE Encode(v.elems[1], quoted)
      [] v.kind = "slice" -> IF v.nil THEN <<Null>> ELSE EncodeElems(v.elems)
      [] v.kind = "array" -> EncodeElems(v.elems)
      [] v.kind = "map" -> IF v.nil THEN <<Null>> ELSE EncodeMembers(v.members)
      [] v.kind = "struct" -> EncodeFields(v.fields)
      [] v.kind = "unsupported" -> Fails

Marshal(v) == Encode(v, FALSE)
=============================================================================
