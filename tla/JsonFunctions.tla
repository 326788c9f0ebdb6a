--------------------------- MODULE JsonFunctions ----------------------------
(***************************************************************************)
(* The functions of the json package that run the scanner over a whole     *)
(* text (checkValid, nextValue, compact, Indent), and the two that read a  *)
(* literal again by themselves (isValidNumber, unquoteBytes).              *)
(***************************************************************************)
EXTENDS JsonGrammar

(***************************************************************************)
(* checkValid and nextValue.                                               *)
(***************************************************************************)
\* What every step over t returns, from the scanner s on; the text is halved so
\* that the recursion stays shallow.
RECURSIVE Scans(_, _)
Scans(s, t) ==
    LET half == Len(t) \div 2
        a == Scans(s, To(t, half))
    IN  IF Len(t) < 2 THEN [i \in DOMAIN t |-> Step(s, t[i])]
        ELSE a \o Scans(a[half].s, From(t, half + 1))
RECURSIVE Probes(_, _)
Probes(s, t) ==
    LET half == Len(t) \div 2
        a == Probes(s, To(t, half))
    IN  IF Len(t) < 2 THEN [i \in DOMAIN t |-> Probe(Step(s, t[i]))]
        ELSE a \o Probes(a[half].s, From(t, half + 1))
ScannerAfter(rets) == IF rets = <<>> THEN Reset ELSE rets[Len(rets)].s

ScanAll(t) == ScannerAfter(Scans(Reset, t))
CheckValid(t) == Eof(ScanAll(t)).code # "scanError"

\* nextValue: <<value, rest>>, or <<>> for an error; rets is what the steps returned.
CutAt(t, rets, i) ==
    CASE rets[i].code = "closed"  -> <<To(t, i), From(t, i + 1)>>
      [] rets[i].code = "scanEnd" -> <<To(t, i - 1), From(t, i)>>
      [] OTHER -> <<>>
CutFirst(t, rets, stops) ==
    IF stops # {} THEN CutAt(t, rets, CHOOSE i \in stops : \A k \in stops : i <= k)
    ELSE IF Eof(ScannerAfter(rets)).code = "scanError" THEN <<>> ELSE <<t, <<>>>>
Cut(t, rets) == CutFirst(t, rets, {i \in DOMAIN t : rets[i].code \in {"closed", "scanEnd", "scanError"}})
NextValue(t) == Cut(t, Probes(Reset, t))

(***************************************************************************)
(* compact and Indent: what they append to dst, inside a sequence of one,  *)
(* or <<>> when they truncate dst and return an error.                     *)
(***************************************************************************)
Unicode(hex) == <<Backslash, "u">> \o hex

Elided_NotAtEnd(code) == code = "scanSkipSpace"
\* v >= scanSkipSpace, other than scanError
Elided(code) == code \in {"scanSkipSpace", "scanEnd"}

\* Byte i, with the state g before it and r from the scanner.
Compacted(g, r, t, i, escape) ==
    LET out == CASE escape /\ t[i] = "<" -> Unicode(<<"0", "0", "1", "c">>)
                 [] t[i] = "LS" -> Unicode(<<"1", "0", "1", "8">>)
                 [] OTHER -> <<>>
    IN  IF g.s.err THEN g
        ELSE IF out # <<>> \/ Elided(r.code)
        THEN [s |-> r.s, dst |-> g.dst \o SubSeq(t, g.start, i - 1) \o out, start |-> i + 1]
        ELSE [g EXCEPT !.s = r.s]
Flushed(end, t) ==
    IF Eof(end.s).code = "scanError" THEN <<>> ELSE <<end.dst \o From(t, end.start)>>
Compact(t, escape) ==
    LET f[i \in 0..Len(t)] ==
            IF i = 0 THEN [s |-> Reset, dst |-> <<>>, start |-> 1]
            ELSE LET g == f[i - 1] IN Compacted(g, Step(g.s, t[i]), t, i, escape)
    IN  Flushed(f[Len(t)], t)

\* newline, with an empty prefix and an indent of one space
NewLine(depth) == <<"tab">> \o [i \in 1..depth |-> " "]

\* Space before and between tokens; the space after the value is scanEnd.
Skipped(code) == code \in {"scanSkipSpace", "scanError"}

Indented(g, r, c) ==
    LET open  == g.needIndent /\ r.code \notin {"scanEndObject", "scanEndArray"}
        depth == IF open THEN g.depth + 1 ELSE g.depth
        dst   == IF open THEN g.dst \o NewLine(depth) ELSE g.dst
        need  == g.needIndent /\ ~open
        token == ~Skipped(r.code) /\ r.code # "scanContinue"
        Out(d, n, k) == [s |-> r.s, dst |-> d, needIndent |-> n, depth |-> k]
    IN  CASE Skipped(r.code) -> [g EXCEPT !.s = r.s]
          [] r.code = "scanContinue" -> Out(Append(dst, c), need, depth)
          [] token /\ c \in {"{", "["} -> Out(Append(dst, c), TRUE, depth)
          [] token /\ c = "," -> Out(Append(dst, c) \o NewLine(depth), need, depth)
          [] token /\ c = ":" -> Out(dst \o <<c, " ">>, need, depth)
          [] token /\ c \in {"}", "]"} ->
                IF need THEN Out(Append(dst, c), FALSE, depth)
                ELSE Out(Append(dst \o NewLine(depth - 1), c), FALSE, depth - 1)
          [] OTHER -> Out(Append(dst, c), need, depth)

Finished(end) == IF Eof(end.s).code = "scanError" THEN <<>> ELSE <<end>>
Indent(t) ==
    LET f[i \in 0..Len(t)] ==
            IF i = 0 THEN [s |-> Reset, dst |-> <<>>, needIndent |-> FALSE, depth |-> 0]
            ELSE LET g == f[i - 1] IN Indented(g, Step(g.s, t[i]), t[i])
    IN  Finished(f[Len(t)])

(***************************************************************************)
(* isValidNumber and unquoteBytes.                                         *)
(***************************************************************************)
DropDigits(t) ==
    From(t, CHOOSE i \in 1..Len(t) + 1 : /\ i <= Len(t) => t[i] \notin Digit
                                         /\ \A j \in 1..i - 1 : t[j] \in Digit)
DropInt(t)  == IF t[1] = "0" THEN Tail(t) ELSE DropDigits(t)
DropFrac(t) == IF Len(t) >= 2 /\ t[1] = "." /\ t[2] \in Digit THEN DropDigits(From(t, 3)) ELSE t
\* A sign with nothing behind it is no exponent.
DropExp(t) ==
    IF Len(t) >= 2 /\ t[1] \in {"e", "E"} /\ ~(Len(t) = 2 /\ t[2] \in {"+", "-"})
    THEN DropDigits(From(t, IF t[2] \in {"+", "-"} THEN 3 ELSE 2)) ELSE t
IsValidNumber(t) ==
    LET u == IF t # <<>> /\ t[1] = "-" THEN Tail(t) ELSE t
    IN  u # <<>> /\ u[1] \in Digit /\ DropExp(DropFrac(DropInt(u))) = <<>>

\* A decoded character is a tuple: of a byte, or of the digits of its \u escape.
\* The escape with the digits of "x" is the same character as the byte.
Replacement == <<"U+FFFD">>
Rune(hex) == IF hex = <<"0", "0", "1", "8">> THEN <<"x">> ELSE hex

\* getu4: the four digits, or <<>> for -1.
GetU4(t) ==
    IF Len(t) >= 6 /\ t[1] = Backslash /\ t[2] = "u" /\ \A i \in 3..6 : t[i] \in Hex
    THEN SubSeq(t, 3, 6) ELSE <<>>
HighSurrogate(hex) == hex # <<>> /\ hex[1] = "d" /\ hex[2] \in {"8", "a", "b", "A"}
LowSurrogate(hex)  == hex # <<>> /\ hex[1] = "d" /\ hex[2] \in {"c", "d", "e", "f"}

\* The first character of t: the bytes it takes (0 for an error) and its rune.
Unescape(t) ==
    LET hex  == GetU4(t)
        low  == GetU4(From(t, 7))
        Unit(n, rune) == [n |-> n, rune |-> rune]
    IN  CASE t[1] # Backslash -> Unit(IF t[1] \in BelowSpace \cup {Quote} THEN 0 ELSE 1, <<t[1]>>)
          [] t[1] = Backslash /\ Len(t) > 1 /\ t[2] \in {Quote, Backslash, "/", "'"} -> Unit(2, <<t[2]>>)
          [] t[1] = Backslash /\ Len(t) > 1 /\ t[2] \in {"b", "f", "n", "r", "t"} ->
                Unit(2, <<Backslash, t[2]>>)
          [] HighSurrogate(hex) /\ LowSurrogate(low) -> Unit(12, hex \o low)
          [] HighSurrogate(hex) /\ ~LowSurrogate(low) -> Unit(6, Replacement)
          [] LowSurrogate(hex) -> Unit(6, Replacement)
          [] hex # <<>> /\ ~HighSurrogate(hex) /\ ~LowSurrogate(hex) -> Unit(6, Rune(hex))
          [] OTHER -> Unit(0, Replacement)

RECURSIVE UnquoteFrom(_)
UnquoteFrom(t) ==
    IF t = <<>> THEN <<<<>>>>
    ELSE LET u == Unescape(t)
             rest == UnquoteFrom(From(t, u.n + 1))
         IN  IF u.n = 0 THEN <<>> ELSE IF rest = <<>> THEN <<>> ELSE <<<<u.rune>> \o rest[1]>>
\* unquote: the characters inside a sequence of one, or <<>> for an error.
Unquote(t) ==
    IF Len(t) < 2 \/ t[1] # Quote \/ t[Len(t)] # Quote THEN <<>>
    ELSE UnquoteFrom(SubSeq(t, 2, Len(t) - 1))
=============================================================================
