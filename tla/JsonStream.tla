----------------------------- MODULE JsonStream -----------------------------
(***************************************************************************)
(* json.Decoder over an io.Reader that hands out its bytes in pieces of    *)
(* any size.  A call of Decode, Token or More works on the bytes in buf    *)
(* until it needs more, and goes on where it stopped when a Read returns.  *)
(***************************************************************************)
EXTENDS JsonGrammar

CONSTANTS
    Inputs,     \* the streams to read
    MaxRead,    \* the most bytes one Read returns
    MaxFail     \* how many Reads fail
ASSUME BoundsAssumption == MaxRead \in Nat \ {0} /\ MaxFail \in Nat

VARIABLES
    input,      \* the stream
    read,       \* how many bytes of it the Reader has returned
    fails,      \* how many Reads have failed
    buf, scanp, scan, err, tokenState, tokenStack,   \* the Decoder
    call        \* the call in progress: [op, at, fresh, readErr, pos, old, fits, from, out]
dec  == <<buf, scanp, scan, err, tokenState, tokenStack>>
vars == <<input, read, fails, dec, call>>

\* op is the call, at the loop it is in ("peek" or "value", "start" before any);
\* fresh says that buf has bytes not looked at since the last Read; readErr is
\* the local err, pos the local scanp - dec.scanp of readValue, old the saved
\* tokenState of a key, fits that the value can be stored in the caller's
\* variable, from what the caller saw of the Decoder when it called.
Idle(out, seen) == [op |-> "none", at |-> "start", fresh |-> TRUE, readErr |-> "none", pos |-> 0,
                    old |-> "", fits |-> TRUE, from |-> seen, out |-> out]

Init ==
    /\ input \in Inputs
    /\ read = 0 /\ fails = 0
    /\ buf = <<>> /\ scanp = 0 /\ scan = Reset /\ err = "none"
    /\ tokenState = "tokenTopValue" /\ tokenStack = <<>>
    /\ call = Idle(<<"none">>, [offset |-> 0, state |-> "tokenTopValue", stack |-> <<>>, err |-> "none"])

(***************************************************************************)
(* Returning.  Err("bad") stands for both SyntaxErrors of the scanner and  *)
(* io.ErrUnexpectedEOF, Err("place") for the ones of the token states.     *)
(***************************************************************************)
Err(what) == <<"error", what>>
Return(out) ==
    call' = Idle(out, [offset |-> read' - Len(buf') + scanp', state |-> tokenState',
                       stack |-> tokenStack', err |-> err'])
\* Decode for a key runs as if at the top and puts tokenState back.
Restored == IF call.old = "" THEN tokenState ELSE call.old
Reader == <<input, read, fails>>

TokenValueAllowed(st) ==
    st \in {"tokenTopValue", "tokenArrayStart", "tokenArrayValue", "tokenObjectValue"}
TokenValueEnd(st) ==
    CASE st \in {"tokenArrayStart", "tokenArrayValue"} -> "tokenArrayComma"
      [] st = "tokenObjectValue" -> "tokenObjectComma"
      [] OTHER -> st

(***************************************************************************)
(* The Decoder waits for the Reader when it has looked at all of buf.      *)
(* refill: the bytes already consumed slide out, and the Reader returns n  *)
(* bytes and an error.  The end of the stream may come with its last bytes *)
(* or by itself, and a failing Read may come with bytes.                   *)
(***************************************************************************)
Waiting == call.op # "none" /\ call.at # "start" /\ ~call.fresh /\ call.readErr = "none"

Refill(n, e) ==
    /\ Waiting
    /\ read + n <= Len(input)
    /\ e = "eof" => read + n = Len(input)
    /\ e = "none" => n > 0
    /\ e = "io" => fails < MaxFail
    /\ read' = read + n
    /\ fails' = IF e = "io" THEN fails + 1 ELSE fails
    /\ buf' = SubSeq(buf, scanp + 1, Len(buf)) \o SubSeq(input, read + 1, read + n)
    /\ scanp' = 0
    /\ call' = [call EXCEPT !.fresh = TRUE, !.readErr = e]
    /\ UNCHANGED <<input, scan, err, tokenState, tokenStack>>

(***************************************************************************)
(* Decode: dec.err, then tokenPrepareForDecode, which peeks after a value  *)
(* and after a key, then readValue.                                        *)
(***************************************************************************)
Fresh(c, op, at) == [c EXCEPT !.op = op, !.at = at, !.fresh = TRUE, !.readErr = "none", !.pos = 0]

StartValue(c, op, st) ==
    IF TokenValueAllowed(st) THEN call' = Fresh(c, op, "value") /\ scan' = Reset
    ELSE Return(Err("place")) /\ UNCHANGED scan

Decode(fits) ==
    /\ call.op = "none"
    /\ UNCHANGED <<Reader, buf, scanp, err, tokenState, tokenStack>>
    /\ LET c == [call EXCEPT !.fits = fits]
       IN  IF err # "none" THEN Return(Err(err)) /\ UNCHANGED scan
           ELSE IF tokenState \in {"tokenArrayComma", "tokenObjectColon"}
                THEN call' = Fresh(c, "Decode", "peek") /\ UNCHANGED scan
           ELSE StartValue(c, "Decode", tokenState)
Token == call.op = "none" /\ call' = Fresh(call, "Token", "peek") /\ UNCHANGED <<Reader, dec>>
More  == call.op = "none" /\ call' = Fresh(call, "More", "peek") /\ UNCHANGED <<Reader, dec>>

(***************************************************************************)
(* peek: the next byte other than space, at index PeekAt of buf.           *)
(***************************************************************************)
Ink == {i \in scanp + 1..Len(buf) : buf[i] \notin Space}
PeekAt == CHOOSE i \in Ink : \A j \in Ink : i <= j
Peeked(op) == call.op = op /\ call.at = "peek" /\ call.fresh /\ Ink # {}

\* Mutant: refill's error is dropped.
PeekStarves_IgnoreErr ==
    /\ call.at = "peek" /\ call.fresh /\ Ink = {}
    /\ UNCHANGED <<Reader, dec>>
    /\ call' = [call EXCEPT !.fresh = FALSE, !.readErr = "none"]
PeekStarves ==
    /\ call.at = "peek" /\ call.fresh /\ Ink = {}
    /\ UNCHANGED <<Reader, dec>>
    /\ CASE call.readErr = "none" -> call' = [call EXCEPT !.fresh = FALSE]
         [] call.readErr # "none" /\ call.op = "More" -> Return(<<"more", FALSE>>)
         [] OTHER -> Return(Err(call.readErr))

MoreAnswers ==
    /\ Peeked("More")
    /\ scanp' = PeekAt - 1
    /\ UNCHANGED <<Reader, buf, scan, err, tokenState, tokenStack>>
    /\ Return(<<"more", buf[PeekAt] \notin {"]", "}"}>>)

\* The end of tokenPrepareForDecode.
Prepare ==
    LET comma == tokenState = "tokenArrayComma"
        found == buf[PeekAt] = IF comma THEN "," ELSE ":"
        st    == IF comma THEN "tokenArrayValue" ELSE "tokenObjectValue"
    IN  /\ Peeked("Decode")
        /\ UNCHANGED <<Reader, buf, err, tokenStack>>
        /\ scanp' = IF found THEN PeekAt ELSE PeekAt - 1
        /\ tokenState' = IF found THEN st ELSE tokenState
        /\ IF found THEN StartValue(call, "Decode", st) ELSE Return(Err("place")) /\ UNCHANGED scan

(***************************************************************************)
(* Token, by the byte that peek returns.                                   *)
(***************************************************************************)
At(bytes) == Peeked("Token") /\ buf[PeekAt] \in bytes
Delim == <<"delim", buf[PeekAt]>>

TokenOpens ==
    /\ At({"[", "{"}) /\ TokenValueAllowed(tokenState)
    /\ scanp' = PeekAt
    /\ tokenStack' = Append(tokenStack, tokenState)
    /\ tokenState' = IF buf[PeekAt] = "[" THEN "tokenArrayStart" ELSE "tokenObjectStart"
    /\ UNCHANGED <<Reader, buf, scan, err>>
    /\ Return(Delim)

Closable(st) ==
    IF buf[PeekAt] = "]" THEN st \in {"tokenArrayStart", "tokenArrayComma"}
    ELSE st \in {"tokenObjectStart", "tokenObjectComma"}
TokenCloses ==
    /\ At({"]", "}"}) /\ Closable(tokenState)
    /\ scanp' = PeekAt
    /\ tokenState' = TokenValueEnd(tokenStack[Len(tokenStack)])
    /\ tokenStack' = SubSeq(tokenStack, 1, Len(tokenStack) - 1)
    /\ UNCHANGED <<Reader, buf, scan, err>>
    /\ Return(Delim)

Separators == {<<":", "tokenObjectColon", "tokenObjectValue">>,
               <<",", "tokenArrayComma", "tokenArrayValue">>,
               <<",", "tokenObjectComma", "tokenObjectKey">>}
AtSeparator == \E s \in Separators : At({s[1]}) /\ tokenState = s[2]
\* A separator in its place: the loop peeks again.
TokenSeparates ==
    /\ \E s \in Separators : At({s[1]}) /\ tokenState = s[2] /\ tokenState' = s[3]
    /\ scanp' = PeekAt
    /\ call' = Fresh(call, "Token", "peek")
    /\ UNCHANGED <<Reader, buf, scan, err, tokenStack>>

\* The Decode that Token calls for a key or a value.
TokenDecodes ==
    LET key == buf[PeekAt] = Quote /\ tokenState \in {"tokenObjectStart", "tokenObjectKey"}
    IN  /\ Peeked("Token") /\ ~At({"[", "]", "{", "}", ":", ","})
        /\ key \/ TokenValueAllowed(tokenState)
        /\ scanp' = PeekAt - 1
        /\ UNCHANGED <<Reader, buf, err, tokenStack>>
        /\ IF err # "none" THEN UNCHANGED <<tokenState, scan>> /\ Return(Err(err))
           ELSE /\ tokenState' = IF key THEN "tokenTopValue" ELSE tokenState
                /\ StartValue([call EXCEPT !.old = IF key THEN tokenState ELSE "", !.fits = TRUE],
                              "Token", tokenState')

TokenError ==
    /\ \/ At({"[", "{"}) /\ ~TokenValueAllowed(tokenState)
       \/ At({"]", "}"}) /\ ~Closable(tokenState)
       \/ At({":", ","}) /\ ~AtSeparator
       \/ /\ Peeked("Token") /\ ~At({"[", "]", "{", "}", ":", ","}) /\ ~TokenValueAllowed(tokenState)
          /\ ~(buf[PeekAt] = Quote /\ tokenState \in {"tokenObjectStart", "tokenObjectKey"})
    /\ scanp' = PeekAt - 1
    /\ UNCHANGED <<Reader, buf, scan, err, tokenState, tokenStack>>
    /\ Return(Err("place"))

(***************************************************************************)
(* readValue and what Decode and Token do with the value.                  *)
(***************************************************************************)
\* The bytes that were not scanned yet, up to the one that ends the value.
Scanned ==
    LET p == scanp + call.pos
        f[i \in p..Len(buf)] == IF i = p THEN Ret(scan, "") ELSE Probe(Step(f[i - 1].s, buf[i]))
        stops == {i \in p + 1..Len(buf) : f[i].code \in {"closed", "scanEnd", "scanError"}}
    IN  IF stops = {} THEN [r |-> f[Len(buf)], at |-> Len(buf)]
        ELSE LET i == CHOOSE j \in stops : \A k \in stops : j <= k IN [r |-> f[i], at |-> i]

Finish(n) ==
    /\ scanp' = n
    /\ tokenState' = IF call.old # "" THEN "tokenObjectColon" ELSE TokenValueEnd(tokenState)
    /\ UNCHANGED <<Reader, buf, err, tokenStack>>
    /\ Return(IF call.fits THEN <<"value", Trim(SubSeq(buf, scanp + 1, n))>> ELSE Err("type"))

\* dec.err = err; return err.
Abort(e) ==
    /\ err' = e
    /\ tokenState' = Restored
    /\ UNCHANGED <<Reader, buf, scanp, tokenStack>>
    /\ Return(Err(e))

\* Mutant: the bytes that were scanned are scanned again after a Read.
ScanBuffer_Rescan ==
    LET s == Scanned
    IN  /\ call.at = "value" /\ call.fresh
        /\ scan' = s.r.s
        /\ CASE s.r.code = "closed"    -> Finish(s.at)
             [] s.r.code = "scanEnd"   -> Finish(s.at - 1)
             [] s.r.code = "scanError" -> Abort("bad")
             [] OTHER -> /\ call' = [call EXCEPT !.fresh = FALSE]
                         /\ UNCHANGED <<Reader, buf, scanp, err, tokenState, tokenStack>>
ScanBuffer ==
    LET s == Scanned
    IN  /\ call.at = "value" /\ call.fresh
        /\ scan' = s.r.s
        /\ CASE s.r.code = "closed"    -> Finish(s.at)
             [] s.r.code = "scanEnd"   -> Finish(s.at - 1)
             [] s.r.code = "scanError" -> Abort("bad")
             [] OTHER -> /\ call' = [call EXCEPT !.fresh = FALSE, !.pos = Len(buf) - scanp]
                         /\ UNCHANGED <<Reader, buf, scanp, err, tokenState, tokenStack>>

\* The Read before this scan returned an error.
InputEnds ==
    LET r == Step(scan, " ")
        nonSpace == \E i \in DOMAIN buf : buf[i] \notin Space
    IN  /\ call.at = "value" /\ ~call.fresh /\ call.readErr # "none"
        /\ scan' = r.s
        /\ CASE call.readErr = "io" -> Abort("io")
             [] call.readErr = "eof" /\ r.code = "scanEnd" -> Finish(Len(buf))
             [] OTHER -> Abort(IF nonSpace THEN "bad" ELSE "eof")

Read == \E n \in 0..MaxRead : \E e \in {"none", "eof", "io"} : Refill(n, e)
Work == \/ PeekStarves \/ MoreAnswers \/ Prepare \/ TokenOpens \/ TokenCloses \/ TokenSeparates
        \/ TokenDecodes \/ TokenError \/ ScanBuffer \/ InputEnds
Call == (\E fits \in BOOLEAN : Decode(fits)) \/ Token \/ More
Next == Call \/ Read \/ Work

\* The caller's goroutine runs on, and a Read returns sooner or later.
Spec == Init /\ [][Next]_vars /\ WF_vars(Work) /\ WF_vars(Read)

-----------------------------------------------------------------------------

Document == INSTANCE JsonDocument WITH
    rest <- From(input, call.from.offset + 1), state <- call.from.state,
    stack <- call.from.stack, err <- call.from.err, out <- call.out

\* However the Reader cuts the stream, every call answers as if the whole stream
\* had been at hand: the value a call returns, its error, what is left of the
\* stream and the place in the document do not depend on the pieces.
AnswersAsDocument == Document!Spec

\* Every call returns once the Reader has delivered or failed.
CallReturns == call.op # "none" ~> call.op = "none"
=============================================================================
