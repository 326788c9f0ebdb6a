---------------------------- MODULE JsonGrammar -----------------------------
(***************************************************************************)
(* What a JSON text is, by the grammar of RFC 8259 and not by the code:    *)
(* the reference for JsonCodec and JsonStream.  A text is a sequence of    *)
(* the bytes of JsonScanner.                                               *)
(***************************************************************************)
EXTENDS JsonScanner

From(t, i) == SubSeq(t, i, Len(t))
To(t, i)   == SubSeq(t, 1, i)

IsSpaces(t) == \A i \in DOMAIN t : t[i] \in Space
RECURSIVE Trim(_)
Trim(t) ==
    IF t = <<>> THEN t
    ELSE IF t[1] \in Space THEN Trim(Tail(t))
    ELSE IF t[Len(t)] \in Space THEN Trim(To(t, Len(t) - 1))
    ELSE t

\* number = [ minus ] int [ frac ] [ exp ]
IsDigits(t) == t # <<>> /\ \A i \in DOMAIN t : t[i] \in Digit
IsInt(t)    == IsDigits(t) /\ (t[1] = "0" => Len(t) = 1)
IsFrac(t)   == t = <<>> \/ (t[1] = "." /\ IsDigits(Tail(t)))
IsExp(t)    == \/ t = <<>>
               \/ t[1] \in {"e", "E"} /\ IsDigits(Tail(t))
               \/ Len(t) > 2 /\ t[1] \in {"e", "E"} /\ t[2] \in {"+", "-"} /\ IsDigits(From(t, 3))
IsNumber(t) ==
    LET u == IF t # <<>> /\ t[1] = "-" THEN Tail(t) ELSE t
    IN  \E i \in 1..Len(u) : IsInt(To(u, i)) /\
            \E j \in i..Len(u) : IsFrac(SubSeq(u, i + 1, j)) /\ IsExp(From(u, j + 1))

\* string = quotation-mark *char quotation-mark
RECURSIVE IsChars(_)
IsChars(t) ==
    \/ t = <<>>
    \/ t # <<>> /\ t[1] \notin BelowSpace \cup {Quote, Backslash} /\ IsChars(Tail(t))
    \/ Len(t) > 1 /\ t[1] = Backslash /\ t[2] \in Escape /\ IsChars(From(t, 3))
    \/ Len(t) > 5 /\ t[1] = Backslash /\ t[2] = "u"
                  /\ (\A i \in 3..6 : t[i] \in Hex) /\ IsChars(From(t, 7))
IsString(t) ==
    Len(t) > 1 /\ t[1] = Quote /\ t[Len(t)] = Quote /\ IsChars(SubSeq(t, 2, Len(t) - 1))

IsWord(t) == t \in {<<"t", "r", "u", "e">>, <<"f", "a", "l", "s", "e">>, <<"n", "u", "l", "l">>}

\* array = [ value *( , value ) ], object = { member *( , member ) }
RECURSIVE IsValue(_), IsElements(_), IsMembers(_)
IsMember(t) ==
    \E i \in DOMAIN t : /\ t[i] = ":"
                        /\ IsString(Trim(To(t, i - 1)))
                        /\ IsValue(Trim(From(t, i + 1)))
IsElements(t) ==
    \/ IsValue(Trim(t))
    \/ \E i \in DOMAIN t : t[i] = "," /\ IsValue(Trim(To(t, i - 1))) /\ IsElements(From(t, i + 1))
IsMembers(t) ==
    \/ IsMember(t)
    \/ \E i \in DOMAIN t : t[i] = "," /\ IsMember(To(t, i - 1)) /\ IsMembers(From(t, i + 1))
IsComposite(t) ==
    LET inner == SubSeq(t, 2, Len(t) - 1)
    IN  /\ Len(t) > 1
        /\ \/ t[1] = "[" /\ t[Len(t)] = "]" /\ (IsSpaces(inner) \/ IsElements(inner))
           \/ t[1] = "{" /\ t[Len(t)] = "}" /\ (IsSpaces(inner) \/ IsMembers(inner))
IsValue(t) == IsWord(t) \/ IsNumber(t) \/ IsString(t) \/ IsComposite(t)

IsText(t) == IsValue(Trim(t))
=============================================================================
