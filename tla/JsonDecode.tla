----------------------------- MODULE JsonDecode -----------------------------
(***************************************************************************)
(* decodeState of json/decode.go: unmarshal of a text that checkValid has  *)
(* accepted.  The scanner runs a second time, in step with the recursive   *)
(* functions value, array and object, which are the frames here.  Three    *)
(* things move the two apart and have to put them together again: undo,    *)
(* which gives back the byte that an array element starts with; next,      *)
(* which hands a whole object or array to an Unmarshaler; and the skipping *)
(* of a value that has no place in the target.                             *)
(*                                                                         *)
(* A target is what reflection finds: [kind |-> ...] with the kinds iface, *)
(* bool, int, string, number (a Number), raw (an Unmarshaler), text (a     *)
(* TextUnmarshaler), slice (elem), array (len, elem), map (elem), struct   *)
(* (fields, from key to target) and ptr (elem).  The target of a field     *)
(* with the string option is quoted (elem).  int stands for the kinds of   *)
(* numbers.                                                                *)
(***************************************************************************)
EXTENDS JsonFunctions

CONSTANT Cases   \* the pairs <<text, target>> to decode

VARIABLES data, target,
          off,      \* the index of the next byte: d.off + 1
          scan,     \* d.scan
          saved,    \* d.savedError # nil
          frames,   \* the calls of array and object that are running
          at,       \* where the innermost call is
          arg,      \* the target of a call of value, or what it stored
          result    \* of unmarshal
vars == <<data, target, off, scan, saved, frames, at, arg, result>>

Iface == [kind |-> "iface"]
NoTarget == [kind |-> "skip"]   \* reflect.Value{}
Zero == <<"zero">>

\* A running call of array or object, or of arrayInterface or objectInterface
\* (target Iface): the elements or members so far, and the key being read.
Frame(kind, tg) == [kind |-> kind, target |-> tg, items |-> <<>>, keys |-> {}, members |-> {}, key |-> <<>>]
Frame1 == frames[Len(frames)]
Outer  == SubSeq(frames, 1, Len(frames) - 1)

Init ==
    /\ \E c \in Cases : data = c[1] /\ target = c[2]
    /\ off = 1 /\ scan = Reset /\ saved = FALSE /\ frames = <<>>
    /\ at = "start" /\ arg = Zero /\ result = "running"

(***************************************************************************)
(* Where the parts of a value go.                                          *)
(***************************************************************************)
\* indirect: pointers are followed; null stops at the last one, to clear it.
RECURSIVE Indirect(_)
Indirect(tg) == IF tg.kind = "ptr" THEN Indirect(tg.elem) ELSE tg
TakesArray(tg)  == tg.kind \in {"iface", "slice", "array"}
TakesObject(tg) == tg.kind \in {"iface", "map", "struct"}
\* The target of element i, counted from 0.
ElemTarget(tg, i) ==
    CASE tg.kind = "iface" -> Iface
      [] tg.kind = "slice" -> tg.elem
      [] tg.kind = "array" -> IF i < tg.len THEN tg.elem ELSE NoTarget
MemberTarget(tg, key) ==
    CASE tg.kind = "iface" -> Iface
      [] tg.kind = "map" -> tg.elem
      [] tg.kind = "struct" -> IF key \in DOMAIN tg.fields THEN tg.fields[key] ELSE NoTarget

\* literalStore and literalInterface: the value, and "ok", "saved" when saveError
\* notes a mismatch, or the error that aborts.  null leaves what it cannot clear.
\* bad is the error for an item that is no literal: errPhase, or the one for a
\* misuse of the string option (fromQuoted), which unwraps any string.
StoreLiteral(item, ptr, bad) ==
    LET Store(v) == [val |-> v, end |-> "ok"]
        Saved    == [val |-> Zero, end |-> "saved"]
        Abort(e) == [val |-> Zero, end |-> e]
        c == item[1]
        s == Unquote(item)
        tg == Indirect(ptr)
        other == tg.kind \notin {"raw", "text"}
        digits == IF c = "-" THEN Tail(item) ELSE item
    IN  CASE item = <<>> -> Saved
          [] item # <<>> /\ ptr.kind = "ptr" /\ c = "n" -> Store(Zero)
          [] item # <<>> /\ ~(ptr.kind = "ptr" /\ c = "n") ->
            CASE tg.kind = "raw" -> Store(<<"raw", item>>)
              [] tg.kind = "text" /\ c # Quote -> Saved
              [] other /\ c = "n" -> Store(Zero)
              [] other /\ c \in {"t", "f"} ->
                    IF tg.kind \in {"iface", "bool"} THEN Store(<<"bool", c = "t">>) ELSE Saved
              [] tg.kind # "raw" /\ c = Quote ->
                    IF s = <<>> THEN Abort(bad)
                    ELSE IF tg.kind \in {"iface", "string", "number", "text"} THEN Store(<<"string", s[1]>>)
                    ELSE Saved
              [] other /\ c \in Digit \cup {"-"} ->
                    CASE tg.kind = "iface" -> Store(<<"number", item>>)
                      [] tg.kind = "int" -> IF IsDigits(digits) THEN Store(<<"number", item>>) ELSE Saved
                      [] tg.kind = "number" -> IF IsValidNumber(item) THEN Store(<<"number", item>>) ELSE Abort("type")
                      [] OTHER -> Abort("type")
              [] OTHER -> Abort(bad)
LiteralStore(item, tg) == StoreLiteral(item, tg, "errPhase")

\* The string option: what is in the string is stored as a literal.  A character
\* is one byte again, the ones below 0x20 are "tab" or "ctl".
ByteOf(rune) ==
    CASE Len(rune) = 1 -> rune[1]
      [] Len(rune) = 2 -> IF rune[2] \in {"n", "r", "t"} THEN "tab" ELSE "ctl"
      [] OTHER -> "x"
Unwrapped(item) == LET s == Unquote(item)[1] IN [i \in DOMAIN s |-> ByteOf(s[i])]
StoreQuoted(item, tg) ==
    LET s == Unquote(item)
    IN  CASE item[1] = "n" -> LiteralStore(item, tg)
          [] item[1] = Quote /\ s # <<>> -> StoreLiteral(Unwrapped(item), tg, "misuse")
          [] item[1] = Quote /\ s = <<>> -> [val |-> Zero, end |-> "errPhase"]
          [] OTHER -> [val |-> Zero, end |-> "saved"]

(***************************************************************************)
(* Running the scanner.                                                    *)
(***************************************************************************)
RECURSIVE ScanWhile(_, _, _)
ScanWhile(s, o, op) ==
    LET eof == o > Len(data)
        r == IF eof THEN Eof(s) ELSE Step(s, data[o])
        n == IF eof THEN Len(data) + 2 ELSE o + 1
    IN  IF r.code = op THEN ScanWhile(r.s, n, op) ELSE [s |-> r.s, off |-> n, code |-> r.code]
SkipSpace == ScanWhile(scan, off, "scanSkipSpace")

RECURSIVE Feed(_, _)
Feed(s, bytes) == IF bytes = <<>> THEN s ELSE Feed(Step(s, bytes[1]).s, Tail(bytes))

(***************************************************************************)
(* The ways a call ends.                                                   *)
(***************************************************************************)
\* d.error: panic, recovered by unmarshal.
Abort(e) == result' = e /\ at' = "done" /\ UNCHANGED <<off, scan, saved, frames, arg>>
Call(tg) == at' = "value" /\ arg' = tg
Return(v) == at' = "return" /\ arg' = v

(***************************************************************************)
(* Unmarshal: checkValid first, then value for the whole target.           *)
(***************************************************************************)
Unmarshal ==
    /\ at = "start"
    /\ UNCHANGED <<data, target>>
    /\ IF CheckValid(data) THEN Call(target) /\ UNCHANGED <<off, scan, saved, frames, result>>
       ELSE Abort("syntax")

(***************************************************************************)
(* value.                                                                  *)
(***************************************************************************)
\* Mutant: an object that undo had given back is not closed.
RestOfObject_None(s) == <<>>
\* The rest of an object if undo had given back the byte that opened it.
RestOfObject(s) ==
    IF s.parseState # <<>> /\ Top(s) = "parseObjectKey" THEN <<":", Quote, Quote, "}">> ELSE <<>>

\* The scanner gets an empty string in place of the value.
SkipValue ==
    /\ at = "value" /\ arg.kind = "skip"
    /\ UNCHANGED <<data, target>>
    /\ \E v \in {NextValue(From(data, off))},
          s \in {IF scan.redo THEN [scan EXCEPT !.redo = FALSE, !.step = "stateBeginValue"] ELSE scan} :
          IF v = <<>> THEN Abort("syntax")
          ELSE /\ off' = Len(data) - Len(v[2]) + 1
               /\ \E t \in {Feed(s, <<Quote, Quote>>)} : scan' = Feed(t, RestOfObject(t))
               /\ Return(Zero)
               /\ UNCHANGED <<saved, frames, result>>

Close(s, c) == Step(s, c).s

\* next: the whole value goes to an Unmarshaler, or nowhere if the type does not
\* fit; the scanner gets the closing byte.
TakeWhole(w, close) ==
    \E v \in {NextValue(From(data, w.off - 1))} :
        IF v = <<>> THEN Abort("syntax")
        ELSE /\ off' = Len(data) - Len(v[2]) + 1
             /\ scan' = Close(w.s, close)
             /\ saved' = (saved \/ Indirect(arg).kind # "raw")
             /\ Return(IF Indirect(arg).kind = "raw" THEN <<"raw", v[1]>> ELSE Zero)
             /\ UNCHANGED <<frames, result>>

Enter(w, kind) ==
    /\ off' = w.off /\ scan' = w.s
    /\ frames' = Append(frames, Frame(kind, Indirect(arg)))
    /\ at' = kind
    /\ UNCHANGED <<saved, arg, result>>

\* literal: the byte after it is given back.
Literal(w) ==
    \E e \in {ScanWhile(w.s, w.off, "scanContinue")} : \E item \in {SubSeq(data, w.off - 1, e.off - 2)} :
    \E r \in {IF arg.kind = "quoted" THEN StoreQuoted(item, arg.elem) ELSE LiteralStore(item, arg)} :
        IF r.end \notin {"ok", "saved"} THEN Abort(r.end)
        ELSE /\ off' = e.off - 1
             /\ scan' = Undo(e.s, e.code)
             /\ saved' = (saved \/ r.end = "saved")
             /\ Return(r.val)
             /\ UNCHANGED <<frames, result>>

Value ==
    /\ at = "value" /\ arg.kind \notin {"skip", "quoted"}
    /\ UNCHANGED <<data, target>>
    /\ \E w \in {SkipSpace}, tg \in {Indirect(arg)} :
          CASE w.code = "scanBeginArray" ->
                  IF TakesArray(tg) THEN Enter(w, "array") ELSE TakeWhole(w, "]")
            [] w.code = "scanBeginObject" ->
                  IF TakesObject(tg) THEN Enter(w, "object") ELSE TakeWhole(w, "}")
            [] w.code = "scanBeginLiteral" -> Literal(w)
            [] OTHER -> Abort("errPhase")

\* valueQuoted, and what object does with it.  array and object are called with
\* the zero reflect.Value, whose Type panics with a reflect.ValueError.
ValueQuoted ==
    /\ at = "value" /\ arg.kind = "quoted"
    /\ UNCHANGED <<data, target>>
    /\ \E w \in {SkipSpace} :
          CASE w.code \in {"scanBeginArray", "scanBeginObject"} -> Abort("reflect")
            [] w.code = "scanBeginLiteral" -> Literal(w)
            [] OTHER -> Abort("errPhase")

(***************************************************************************)
(* array and arrayInterface.                                               *)
(***************************************************************************)
Collected == IF Frame1.kind = "array" THEN <<"array", Frame1.items>> ELSE <<"object", Frame1.members>>
Leave(v) == frames' = Outer /\ Return(v)

\* An element or the end; the byte of the element is given back.
Element ==
    /\ at = "array"
    /\ UNCHANGED <<data, target>>
    /\ \E w \in {SkipSpace} :
          IF w.code = "scanEndArray"
          THEN off' = w.off /\ scan' = w.s /\ Leave(Collected) /\ UNCHANGED <<saved, result>>
          ELSE IF w.s.redo THEN Abort("invalid use of scanner")
          ELSE /\ off' = w.off - 1 /\ scan' = Undo(w.s, w.code)
               /\ Call(ElemTarget(Frame1.target, Len(Frame1.items)))
               /\ UNCHANGED <<saved, frames, result>>

AfterElement ==
    LET items == Append(Frame1.items, arg)
        limit == IF Frame1.target.kind = "array" /\ Frame1.target.len < Len(items)
                 THEN Frame1.target.len ELSE Len(items)
    IN  /\ at = "return" /\ frames # <<>> /\ Frame1.kind = "array"
        /\ UNCHANGED <<data, target>>
        /\ \E w \in {SkipSpace} :
              CASE w.code = "scanEndArray" ->
                      /\ off' = w.off /\ scan' = w.s
                      /\ Leave(<<"array", To(items, limit)>>) /\ UNCHANGED <<saved, result>>
                [] w.code = "scanArrayValue" ->
                      /\ off' = w.off /\ scan' = w.s /\ at' = "array"
                      /\ frames' = [frames EXCEPT ![Len(frames)].items = items]
                      /\ UNCHANGED <<saved, arg, result>>
                [] OTHER -> Abort("errPhase")

(***************************************************************************)
(* object and objectInterface.                                             *)
(***************************************************************************)
Repeated(key) == key \in Frame1.keys

\* The key that begins at w, and its colon.
KeyAndColon(w) ==
    \E e \in {ScanWhile(w.s, w.off, "scanContinue")} :
    \E c \in {IF e.code = "scanSkipSpace" THEN ScanWhile(e.s, e.off, "scanSkipSpace") ELSE e},
       key \in {Unquote(SubSeq(data, w.off - 1, e.off - 2))} :
        IF key = <<>> THEN Abort("errPhase")
        ELSE IF Repeated(key[1]) THEN Abort("duplicate key")
        ELSE IF c.code # "scanObjectKey" THEN Abort("errPhase")
        ELSE /\ off' = c.off /\ scan' = c.s
             /\ frames' = [frames EXCEPT ![Len(frames)].keys = @ \cup {key[1]}, ![Len(frames)].key = key[1]]
             /\ Call(MemberTarget(Frame1.target, key[1]))
             /\ UNCHANGED <<saved, result>>

\* A key and its colon, or the end.
Member ==
    /\ at = "object"
    /\ UNCHANGED <<data, target>>
    /\ \E w \in {SkipSpace} :
          CASE w.code = "scanEndObject" ->
                  off' = w.off /\ scan' = w.s /\ Leave(Collected) /\ UNCHANGED <<saved, result>>
            [] w.code = "scanBeginLiteral" -> KeyAndColon(w)
            [] OTHER -> Abort("errPhase")

AfterMember ==
    LET stored == MemberTarget(Frame1.target, Frame1.key) # NoTarget
        members == Frame1.members \cup IF stored THEN {<<Frame1.key, arg>>} ELSE {}
    IN  /\ at = "return" /\ frames # <<>> /\ Frame1.kind = "object"
        /\ UNCHANGED <<data, target>>
        /\ \E w \in {SkipSpace} :
              CASE w.code = "scanEndObject" ->
                      /\ off' = w.off /\ scan' = w.s
                      /\ Leave(<<"object", members>>) /\ UNCHANGED <<saved, result>>
                [] w.code = "scanObjectValue" ->
                      /\ off' = w.off /\ scan' = w.s /\ at' = "object"
                      /\ frames' = [frames EXCEPT ![Len(frames)].members = members]
                      /\ UNCHANGED <<saved, arg, result>>
                [] OTHER -> Abort("errPhase")

\* The call of value by unmarshal returns.
Finish ==
    /\ at = "return" /\ frames = <<>>
    /\ at' = "done" /\ result' = IF saved THEN "saved" ELSE "ok"
    /\ UNCHANGED <<data, target, off, scan, saved, frames, arg>>

Next == Unmarshal \/ SkipValue \/ Value \/ ValueQuoted \/ Element \/ AfterElement \/ Member \/ AfterMember \/ Finish
Spec == Init /\ [][Next]_vars

-----------------------------------------------------------------------------
(***************************************************************************)
(* What a text means for a target: by the grammar and by the comment on    *)
(* Unmarshal, not by the functions above.  A meaning is a value and the    *)
(* set of all that is wrong on the way.                                    *)
(***************************************************************************)
Means(v) == [val |-> v, wrong |-> {}]
Wrong(what) == [val |-> Zero, wrong |-> {what}]

\* The characters of a string: its units, of which a high and a low surrogate in a
\* row are one character, and a surrogate by itself is replaced.
RECURSIVE Units(_)
Units(s) ==
    LET n == IF s[1] # Backslash THEN 1 ELSE IF s[2] = "u" THEN 6 ELSE 2
    IN  IF s = <<>> THEN <<>> ELSE <<To(s, n)>> \o Units(From(s, n + 1))
Chars(t) ==
    LET us == Units(SubSeq(t, 2, Len(t) - 1))
        Code(i) == IF i \in DOMAIN us /\ Len(us[i]) = 6 THEN From(us[i], 3) ELSE <<"none", "none">>
        High(i) == Code(i)[1] = "d" /\ Code(i)[2] \in {"8", "a", "b", "A"}
        Low(i)  == Code(i)[1] = "d" /\ Code(i)[2] \in {"c", "d", "e", "f"}
        Pair(i) == High(i) /\ Low(i + 1)
        Char(i) == CASE Pair(i) -> Code(i) \o Code(i + 1)
                     [] ~Pair(i) /\ (High(i) \/ Low(i)) -> Replacement
                     [] ~High(i) /\ ~Low(i) /\ Len(us[i]) = 6 -> Rune(Code(i))
                     [] Len(us[i]) = 2 -> IF us[i][2] \in {Quote, Backslash, "/"} THEN <<us[i][2]>> ELSE us[i]
                     [] Len(us[i]) = 1 -> us[i]
        kept == SelectSeq([i \in DOMAIN us |-> i], LAMBDA i : ~Pair(i - 1))
    IN  [k \in DOMAIN kept |-> Char(kept[k])]

NullWord == <<"n", "u", "l", "l">>
IsLiteral(t) == IsWord(t) \/ IsNumber(t) \/ IsString(t)
IsInteger(t) == \A i \in DOMAIN t : t[i] \notin {".", "e", "E"}
\* A literal other than null, for a target that is no pointer.
LiteralMeans(t, kind) ==
    CASE IsString(t) ->
            IF kind \in {"iface", "string", "number", "text"} THEN Means(<<"string", Chars(t)>>) ELSE Wrong("mismatch")
      [] IsWord(t) ->
            IF kind \in {"iface", "bool"} THEN Means(<<"bool", t[1] = "t">>) ELSE Wrong("mismatch")
      [] IsNumber(t) ->
            CASE kind \in {"iface", "number"} -> Means(<<"number", t>>)
              [] kind = "int" -> IF IsInteger(t) THEN Means(<<"number", t>>) ELSE Wrong("mismatch")
              [] kind = "text" -> Wrong("mismatch")
              [] OTHER -> Wrong("no number")
\* null clears a pointer and has no effect otherwise, but an Unmarshaler gets it.
NullMeans(ptr) ==
    CASE ptr.kind = "raw" -> Means(<<"raw", NullWord>>)
      [] ptr.kind = "text" -> Wrong("null for text")
      [] OTHER -> Means(Zero)
ScalarMeans(t, ptr) ==
    IF t = NullWord THEN NullMeans(ptr)
    ELSE IF Indirect(ptr).kind = "raw" THEN Means(<<"raw", t>>)
    ELSE LiteralMeans(t, Indirect(ptr).kind)

\* The string option: the string holds a literal.
Content(t) == [i \in DOMAIN Chars(t) |-> ByteOf(Chars(t)[i])]
QuotedMeans(t, ptr) ==
    CASE t[1] \in {"[", "{"} -> Wrong("string option")
      [] t = NullWord -> NullMeans(ptr)
      [] IsString(t) ->
            IF Content(t) = <<>> THEN Wrong("mismatch")
            ELSE IF IsLiteral(Content(t)) THEN ScalarMeans(Content(t), ptr)
            ELSE Wrong("no literal")
      [] OTHER -> Wrong("mismatch")

IsPart(t, object) == IF object THEN IsMember(t) ELSE IsValue(Trim(t))
RECURSIVE Parts(_, _)
Parts(t, object) ==
    LET i == CHOOSE i \in DOMAIN t : t[i] = "," /\ IsPart(To(t, i - 1), object)
    IN  CASE IsSpaces(t) -> <<>>
          [] ~IsSpaces(t) /\ IsPart(t, object) -> <<t>>
          [] OTHER -> <<To(t, i - 1)>> \o Parts(From(t, i + 1), object)
PartsOf(t) == Parts(SubSeq(t, 2, Len(t) - 1), t[1] = "{")
Colon(m) == CHOOSE i \in DOMAIN m : m[i] = ":" /\ IsString(Trim(To(m, i - 1)))
KeyOf(m) == Chars(Trim(To(m, Colon(m) - 1)))

\* Part k of an array or object: its key, its target and its text.
PartOf(p, k, tg, array) ==
    IF array THEN [key |-> k, tg |-> ElemTarget(tg, k - 1), text |-> Trim(p)]
    ELSE [key |-> KeyOf(p), tg |-> MemberTarget(tg, KeyOf(p)), text |-> Trim(From(p, Colon(p) + 1))]

\* An array or object whose parts have these meanings.
Composed(array, parts, means) ==
    LET kept  == {k \in DOMAIN parts : parts[k].tg # NoTarget}
        again == \E j, k \in DOMAIN parts : j # k /\ parts[j].key = parts[k].key
    IN  [val |-> IF array THEN <<"array", [k \in kept |-> means[k].val]>>
                 ELSE <<"object", {<<parts[k].key, means[k].val>> : k \in kept}>>,
         wrong |-> UNION {means[k].wrong : k \in DOMAIN parts} \cup (IF again THEN {"duplicate key"} ELSE {})]

RECURSIVE Meaning(_, _)
PartsMean(array, parts) == Composed(array, parts, [k \in DOMAIN parts |-> Meaning(parts[k].text, parts[k].tg)])
Split(parts, tg, array) == [k \in DOMAIN parts |-> PartOf(parts[k], k, tg, array)]
Meaning(t, ptr) ==
    LET tg    == Indirect(ptr)
        array == t[1] = "["
        whole == t[1] \in {"[", "{"}
        fits  == IF array THEN TakesArray(tg) ELSE TakesObject(tg)
    IN  CASE tg = NoTarget -> Means(Zero)
          [] tg.kind = "quoted" -> QuotedMeans(t, tg.elem)
          [] tg.kind \notin {"skip", "quoted"} /\ ~whole -> ScalarMeans(t, ptr)
          [] whole /\ tg.kind = "raw" -> Means(<<"raw", t>>)
          [] whole /\ tg.kind \notin {"skip", "quoted", "raw"} ->
                IF fits THEN PartsMean(array, Split(PartsOf(t), tg, array)) ELSE Wrong("mismatch")

\* What Unmarshal lives with: it goes on and returns the error in the end.  For null
\* the comment on Unmarshal says that there is no error (json/decode.go:76).
Noted == {"mismatch", "null for text"}
\* The errors that end the decoding.  A string option whose string holds no literal
\* has any of three, by what its first byte looks like.
EndsIn(what) ==
    CASE what = "duplicate key" -> {"duplicate key"}
      [] what = "no number" -> {"type"}
      [] what = "string option" -> {"reflect"}
      [] what = "no literal" -> {"misuse", "type", "saved"}

\* unmarshal has ended as the meaning of the text demands.
StoresMeaning(m) ==
    IF m.wrong \subseteq Noted THEN result = (IF m.wrong = {} THEN "ok" ELSE "saved") /\ arg = m.val
    ELSE \E what \in m.wrong \ Noted : result \in EndsIn(what)

\* Unmarshal stores what the text means: every value in the element, member or
\* Unmarshaler it belongs to, wherever other values are skipped or given back to
\* the scanner on the way, and strings with all their characters.  A mismatch, and
\* null for a TextUnmarshaler, does not stop it and is returned in the end.  It aborts
\* only for a duplicate key, for a number where the target holds none, and where the
\* string option finds an array, an object or a string without a literal in it; the
\* scanner and the recursion never get out of step (errPhase).
DecodesMeaning ==
    at = "done" /\ result # "marshal error" =>
        IF IsText(data) THEN StoresMeaning(Meaning(Trim(data), target)) ELSE result = "syntax"
=============================================================================
