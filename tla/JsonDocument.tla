---------------------------- MODULE JsonDocument ----------------------------
(***************************************************************************)
(* What a json.Decoder promises: the answers of Decode, Token and More as  *)
(* functions of the text that is still to come, all of it at hand, and of  *)
(* the place in the document.  A value is found by the grammar, not by the *)
(* scanner.  JsonStream is shown to implement this.                        *)
(***************************************************************************)
EXTENDS JsonGrammar

VARIABLES rest, state, stack, err, out
vars == <<rest, state, stack, err, out>>

RECURSIVE LTrim(_)
LTrim(t) == IF t # <<>> /\ t[1] \in Space THEN LTrim(Tail(t)) ELSE t

\* The end of the value that r begins with, 0 if it does not begin with one.  A
\* number goes on as long as its bytes can be the beginning of a number.
Viable(t) == IsNumber(t) \/ IsNumber(Append(t, "0"))
ValueEnd(r) ==
    LET longest == CHOOSE i \in 1..Len(r) : /\ Viable(To(r, i))
                                            /\ i < Len(r) => ~Viable(To(r, i + 1))
        ends == {i \in DOMAIN r : IsValue(To(r, i))}
    IN  IF r[1] \in Digit \cup {"-"} THEN IF IsNumber(To(r, longest)) THEN longest ELSE 0
        ELSE IF ends = {} THEN 0 ELSE CHOOSE i \in ends : TRUE

\* A place in the document: what is left, where in which value, and dec.err.
Place(r, st, sk, e) == [rest |-> r, state |-> st, stack |-> sk, err |-> e]
Answer(place, o) == [place |-> place, out |-> o]
Err(what) == <<"error", what>>

ValueStates == {"tokenTopValue", "tokenArrayStart", "tokenArrayValue", "tokenObjectValue"}
AfterValue(st) ==
    CASE st \in {"tokenArrayStart", "tokenArrayValue"} -> "tokenArrayComma"
      [] st = "tokenObjectValue" -> "tokenObjectComma"
      [] OTHER -> st
\* The separator a state waits for, and the state after it.
Separator(st) == CASE st \in {"tokenArrayComma", "tokenObjectComma"} -> ","
                   [] st = "tokenObjectColon" -> ":" [] OTHER -> ""
AfterSeparator(st) == CASE st = "tokenArrayComma" -> "tokenArrayValue"
                        [] st = "tokenObjectComma" -> "tokenObjectKey"
                        [] OTHER -> "tokenObjectValue"
Eat(p) == [p EXCEPT !.rest = Tail(LTrim(p.rest)), !.state = AfterSeparator(p.state)]

\* Read one value and go to state next.
ReadValue(p, next, fits) ==
    LET r == LTrim(p.rest)
        end == ValueEnd(r)
        fail(e) == Answer([p EXCEPT !.err = e], Err(e))
    IN  IF p.err # "none" THEN Answer(p, Err(p.err))
        ELSE IF r = <<>> THEN fail("eof")
        ELSE IF end = 0 THEN fail("bad")
        ELSE Answer([p EXCEPT !.rest = From(r, end + 1), !.state = next],
                    IF fits THEN <<"value", To(r, end)>> ELSE Err("type"))

\* Decode may start at a comma in an array and at a colon.
DecodeAt(p, fits) ==
    LET r == LTrim(p.rest)
        waits == p.state \in {"tokenArrayComma", "tokenObjectColon"}
        q == IF waits THEN Eat(p) ELSE p
    IN  IF p.err # "none" THEN Answer(p, Err(p.err))
        ELSE IF waits /\ r = <<>> THEN Answer(p, Err("eof"))
        ELSE IF (waits /\ r[1] # Separator(p.state)) \/ q.state \notin ValueStates
             THEN Answer(p, Err("place"))
        ELSE ReadValue(q, AfterValue(q.state), fits)

\* The token that begins at c, a byte other than a separator.
TokenAt(p) ==
    LET r == LTrim(p.rest)
        c == r[1]
        open(st) == IF p.state \in ValueStates
                    THEN Answer(Place(Tail(r), st, Append(p.stack, p.state), p.err), <<"delim", c>>)
                    ELSE Answer(p, Err("place"))
        close(states) ==
            IF p.state \in states
            THEN Answer(Place(Tail(r), AfterValue(p.stack[Len(p.stack)]), To(p.stack, Len(p.stack) - 1),
                              p.err), <<"delim", c>>)
            ELSE Answer(p, Err("place"))
    IN  IF r = <<>> THEN Answer(p, Err("eof"))
        ELSE CASE c = "[" -> open("tokenArrayStart")
               [] c = "{" -> open("tokenObjectStart")
               [] c = "]" -> close({"tokenArrayStart", "tokenArrayComma"})
               [] c = "}" -> close({"tokenObjectStart", "tokenObjectComma"})
               [] c = Quote /\ p.state \in {"tokenObjectStart", "tokenObjectKey"} ->
                    ReadValue(p, "tokenObjectColon", TRUE)
               [] c \notin {"[", "{", "]", "}", ",", ":"} /\ p.state \in ValueStates ->
                    ReadValue(p, AfterValue(p.state), TRUE)
               [] OTHER -> Answer(p, Err("place"))

AtSeparator(p) ==
    LET r == LTrim(p.rest) IN r # <<>> /\ r[1] = Separator(p.state)
\* Separators are passed over.
TokenOf(p) == TokenAt(IF AtSeparator(p) THEN Eat(p) ELSE p)

MoreOf(p) ==
    LET r == LTrim(p.rest)
    IN  Answer(p, <<"more", r # <<>> /\ r[1] \notin {"]", "}"}>>)

-----------------------------------------------------------------------------
Here == Place(rest, state, stack, err)
\* Spaces in front of what is left do not count.
Become(a) ==
    /\ out' = a.out /\ state' = a.place.state /\ stack' = a.place.stack /\ err' = a.place.err
    /\ LTrim(rest') = LTrim(a.place.rest)

Decode == \E p \in {Here} : \E a \in {DecodeAt(p, fits) : fits \in BOOLEAN} : Become(a)
Token  == \E p \in {Here} : \E a \in {TokenOf(p)} : Become(a)
More   == \E a \in {MoreOf(Here)} : Become(a)

\* A failing Reader ends a call at any point where it needs more bytes: before or
\* after a separator, and with the error kept if a value was being read.
ReaderFails ==
    \/ \E p \in {Here} \cup (IF AtSeparator(Here) THEN {Eat(Here)} ELSE {}) :
            \E e \in {err, "io"} : Become(Answer([p EXCEPT !.err = e], Err("io")))
    \/ Become(Answer(Here, <<"more", FALSE>>))

Init == state = "tokenTopValue" /\ stack = <<>> /\ err = "none" /\ out = <<"none">>
Next == Decode \/ Token \/ More \/ ReaderFails
Spec == Init /\ [][Next]_vars
=============================================================================
