---------------------------- MODULE JsonScanner -----------------------------
(***************************************************************************)
(* The scanner of json/scanner.go.  A byte is the string of its character; *)
(* some stand for the bytes the code treats like them: "1" for 1 to 7, "8" *)
(* for 8 and 9, "tab" for the space characters below 0x20, "ctl" for the   *)
(* other bytes below 0x20, "x" for bytes no rule names, "<" for the three  *)
(* bytes that HTML escaping replaces, "LS" for the three bytes of U+2028.  *)
(***************************************************************************)
EXTENDS Sequences, Integers

Quote     == "\""
Backslash == "\\"
\* isSpace
Space     == {" ", "tab"}
BelowSpace == {"tab", "ctl"}
Digit     == {"0", "1", "8"}
Hex       == Digit \cup {"a", "b", "c", "d", "e", "f", "A"}
Escape    == {"b", "f", "n", "r", "t", Backslash, "/", Quote}

(***************************************************************************)
(* The states that return scanContinue: state -> byte -> next state.       *)
(***************************************************************************)
On(bytes, next) == [c \in bytes |-> next]

Strings ==
    [stateInStringEsc    |-> [c \in Escape \cup {"u"} |->
                                 IF c = "u" THEN "stateInStringEscU" ELSE "stateInString"],
     stateInStringEscU    |-> On(Hex, "stateInStringEscU1"),
     stateInStringEscU1   |-> On(Hex, "stateInStringEscU12"),
     stateInStringEscU12  |-> On(Hex, "stateInStringEscU123"),
     stateInStringEscU123 |-> On(Hex, "stateInString")]

Numbers ==
    [stateNeg   |-> [c \in Digit |-> IF c = "0" THEN "state0" ELSE "state1"],
     state0     |-> [c \in {".", "e", "E"} |-> IF c = "." THEN "stateDot" ELSE "stateE"],
     state1     |-> [c \in Digit \cup {".", "e", "E"} |->
                        CASE c \in Digit -> "state1" [] c = "." -> "stateDot" [] OTHER -> "stateE"],
     stateDot   |-> On(Digit, "stateDot0"),
     stateDot0  |-> [c \in Digit \cup {"e", "E"} |->
                        IF c \in Digit THEN "stateDot0" ELSE "stateE"],
     stateE     |-> [c \in Digit \cup {"+", "-"} |->
                        IF c \in Digit THEN "stateE0" ELSE "stateESign"],
     stateESign |-> On(Digit, "stateE0"),
     stateE0    |-> On(Digit, "stateE0")]
\* The states of a number that may end here.
Complete == {"state0", "state1", "stateDot0", "stateE0"}

Words ==
    [stateT    |-> On({"r"}, "stateTr"),   stateTr  |-> On({"u"}, "stateTru"),
     stateTru  |-> On({"e"}, "stateEndValue"),
     stateF    |-> On({"a"}, "stateFa"),   stateFa  |-> On({"l"}, "stateFal"),
     stateFal  |-> On({"s"}, "stateFals"), stateFals |-> On({"e"}, "stateEndValue"),
     stateN    |-> On({"u"}, "stateNu"),   stateNu  |-> On({"l"}, "stateNul"),
     stateNul  |-> On({"l"}, "stateEndValue")]

Moves == [st \in DOMAIN Strings \cup DOMAIN Numbers \cup DOMAIN Words |->
            CASE st \in DOMAIN Strings -> Strings[st]
              [] st \in DOMAIN Numbers -> Numbers[st]
              [] OTHER -> Words[st]]

(***************************************************************************)
(* The scanner, and what a step returns: the scanner and the scan code.    *)
(***************************************************************************)
\* scanner.reset
Reset == [step |-> "stateBeginValue", parseState |-> <<>>, err |-> FALSE, endTop |-> FALSE,
          redo |-> FALSE, redoCode |-> "", redoState |-> ""]

Ret(s, code) == [s |-> s, code |-> code]
Error(s) == Ret([s EXCEPT !.step = "stateError", !.err = TRUE], "scanError")
Goto(s, step, code) == Ret([s EXCEPT !.step = step], code)

Top(s) == s.parseState[Len(s.parseState)]
Replace(s, p) == [s EXCEPT !.parseState[Len(s.parseState)] = p]
\* pushParseState and popParseState
Push(s, p) == [s EXCEPT !.parseState = Append(@, p)]
Pop(s) ==
    LET rest == SubSeq(s.parseState, 1, Len(s.parseState) - 1)
    IN  [s EXCEPT !.parseState = rest, !.redo = FALSE, !.endTop = @ \/ rest = <<>>,
                  !.step = IF rest = <<>> THEN "stateEndTop" ELSE "stateEndValue"]

\* A byte other than space after the value is an error, but only the next
\* call reports it.
EndTop(s, c) == Ret(IF c \in Space THEN s ELSE Error(s).s, "scanEnd")

EndValue(s, c) ==
    IF s.parseState = <<>>
    THEN EndTop([s EXCEPT !.step = "stateEndTop", !.endTop = TRUE], c)
    ELSE CASE c \in Space -> Goto(s, "stateEndValue", "scanSkipSpace")
           [] Top(s) = "parseObjectKey" /\ c = ":" ->
                Goto(Replace(s, "parseObjectValue"), "stateBeginValue", "scanObjectKey")
           [] Top(s) = "parseObjectValue" /\ c = "," ->
                Goto(Replace(s, "parseObjectKey"), "stateBeginString", "scanObjectValue")
           [] Top(s) = "parseObjectValue" /\ c = "}" -> Ret(Pop(s), "scanEndObject")
           [] Top(s) = "parseArrayValue" /\ c = "," ->
                Goto(s, "stateBeginValue", "scanArrayValue")
           [] Top(s) = "parseArrayValue" /\ c = "]" -> Ret(Pop(s), "scanEndArray")
           [] OTHER -> Error(s)

Literals == [c \in {Quote, "-", "0", "1", "8", "t", "f", "n"} |->
    CASE c = Quote -> "stateInString" [] c = "-" -> "stateNeg" [] c = "0" -> "state0"
      [] c \in {"1", "8"} -> "state1" [] c = "t" -> "stateT" [] c = "f" -> "stateF" [] OTHER -> "stateN"]

BeginValue(s, c) ==
    CASE c \in Space -> Ret(s, "scanSkipSpace")
      [] c = "{" -> Goto(Push(s, "parseObjectKey"), "stateBeginStringOrEmpty", "scanBeginObject")
      [] c = "[" -> Goto(Push(s, "parseArrayValue"), "stateBeginValueOrEmpty", "scanBeginArray")
      [] c \in DOMAIN Literals -> Goto(s, Literals[c], "scanBeginLiteral")
      [] OTHER -> Error(s)
BeginValueOrEmpty(s, c) == IF c = "]" THEN EndValue(s, c) ELSE BeginValue(s, c)

BeginString(s, c) ==
    CASE c \in Space -> Ret(s, "scanSkipSpace")
      [] c = Quote -> Goto(s, "stateInString", "scanBeginLiteral")
      [] OTHER -> Error(s)
BeginStringOrEmpty(s, c) ==
    IF c = "}" THEN EndValue(Replace(s, "parseObjectValue"), c) ELSE BeginString(s, c)

InString(s, c) ==
    CASE c = Quote -> Goto(s, "stateEndValue", "scanContinue")
      [] c = Backslash -> Goto(s, "stateInStringEsc", "scanContinue")
      [] c \in BelowSpace -> Error(s)
      [] OTHER -> Ret(s, "scanContinue")

\* scan.step(scan, c)
Step(s, c) ==
    CASE s.step = "stateBeginValue" -> BeginValue(s, c)
      [] s.step = "stateBeginValueOrEmpty" -> BeginValueOrEmpty(s, c)
      [] s.step = "stateBeginString" -> BeginString(s, c)
      [] s.step = "stateBeginStringOrEmpty" -> BeginStringOrEmpty(s, c)
      [] s.step = "stateEndValue" -> EndValue(s, c)
      [] s.step = "stateEndTop" -> EndTop(s, c)
      [] s.step = "stateInString" -> InString(s, c)
      [] s.step = "stateError" -> Ret(s, "scanError")
      [] s.step = "stateRedo" -> Ret([s EXCEPT !.redo = FALSE, !.step = s.redoState], s.redoCode)
      [] OTHER -> IF c \in DOMAIN Moves[s.step] THEN Goto(s, Moves[s.step][c], "scanContinue")
                  ELSE IF s.step \in Complete THEN EndValue(s, c) ELSE Error(s)

\* scanner.eof: a space ends a number at the top.
Eof(s) ==
    LET t == Step(s, " ").s
    IN  IF s.err THEN Ret(s, "scanError")
        ELSE IF s.endTop THEN Ret(s, "scanEnd")
        ELSE IF t.endTop THEN Ret(t, "scanEnd")
        ELSE Ret([t EXCEPT !.err = TRUE], "scanError")

\* scanner.undo; the caller makes sure that nothing is undone twice.
Undo(s, code) ==
    [s EXCEPT !.redoCode = code, !.redoState = s.step, !.step = "stateRedo", !.redo = TRUE]

\* After the end of an object or array a space is fed in, which tells a value
\* at the top from a nested one without the byte that follows.
Probe(r) ==
    LET p == Step(r.s, " ")
    IN  CASE r.code \notin {"scanEndObject", "scanEndArray"} -> r
          [] p.code = "scanEnd" -> Ret(p.s, "closed")
          [] OTHER -> Ret(p.s, r.code)
=============================================================================
