--------------------------- MODULE JwtValidation ----------------------------
(***************************************************************************)
(* NumericDate (jwt/claims.go) and ValidateWithLeeway (jwt/validation.go): *)
(* an issuer puts dates into a token, this library's or another one that   *)
(* writes fractions of a second; a client that asks itself whether the     *)
(* server will accept the token and the server validate it, each with a    *)
(* clock and a leeway of its own, while time goes on.                      *)
(*                                                                         *)
(* A time is a number of ticks since the epoch, Second of them to the      *)
(* second.  A date that may be missing (a nil *NumericDate) is a set with  *)
(* at most one element.                                                    *)
(***************************************************************************)
EXTENDS Integers

CONSTANTS Second,     \* ticks to the second
          Tokens,     \* what issuers want to say: [iss, sub, jti, aud, exp, nbf, iat]
          Expectations,  \* [iss, sub, jti, aud]; "" and {} for a zero field
          Leeways,    \* the leeways that callers pass, in ticks
          Skews,      \* how much the server's clock is ahead of the client's
          MaxTime     \* bound on the time of the run
ASSUME SecondAssumption == Second \in Nat \ {0}
ASSUME TimesAssumption ==
    /\ Leeways \subseteq Int /\ Skews \subseteq Int /\ MaxTime \in Nat
    /\ \A t \in Tokens : t.exp \subseteq Int /\ t.nbf \subseteq Int /\ t.iat \subseteq Int

VARIABLES now,       \* the client's clock
          skew,      \* the server's clock is now + skew
          token,     \* what the issuer wants to say
          parsed,    \* the token has been parsed
          claims,    \* the Claims that client and server get
          expected,
          client,    \* the client's validation at this instant: [at, leeway, res]
          server     \* the server's last validation
checkVars == <<now, skew, token, parsed, claims, expected, client, server>>

(***************************************************************************)
(* Dates.                                                                  *)
(***************************************************************************)
\* NewNumericDate: t.Unix(), the second that t is in.
NewNumericDate(t) == t \div Second
\* UnmarshalJSON: the conversion of a float64 to an integer drops the fraction.
UnmarshalDate(t) == IF t >= 0 THEN t \div Second ELSE -((-t) \div Second)
\* Time
Time(n) == n * Second

(***************************************************************************)
(* ValidateWithLeeway, in the order of its checks.                         *)
(***************************************************************************)
Mismatch(want, have) == want # "" /\ want # have
NoAudience(e, c) == e.aud # {} /\ e.aud \cap c.aud = {}
NotValidYet(c, t, leeway) == \E n \in c.nbf : t + leeway < Time(n)
\* Mutant: the sign of the leeway.
Expired_Swapped(c, t, leeway) == \E n \in c.exp : t + leeway > Time(n)
Expired(c, t, leeway) == \E n \in c.exp : t - leeway > Time(n)
IssuedInTheFuture(c, t, leeway) == \E n \in c.iat : t + leeway < Time(n)

ValidateWithLeeway(c, e, t, leeway) ==
    IF Mismatch(e.iss, c.iss) THEN "ErrInvalidIssuer"
    ELSE IF Mismatch(e.sub, c.sub) THEN "ErrInvalidSubject"
    ELSE IF Mismatch(e.jti, c.jti) THEN "ErrInvalidID"
    ELSE IF NoAudience(e, c) THEN "ErrInvalidAudience"
    ELSE IF NotValidYet(c, t, leeway) THEN "ErrNotValidYet"
    ELSE IF Expired(c, t, leeway) THEN "ErrExpired"
    ELSE IF IssuedInTheFuture(c, t, leeway) THEN "ErrIssuedInTheFuture"
    ELSE "ok"

(***************************************************************************)
(* The token on its way, and the two who validate it.                      *)
(***************************************************************************)
Dated(t, exp, nbf, iat) ==
    [iss |-> t.iss, sub |-> t.sub, jti |-> t.jti, aud |-> t.aud, exp |-> exp, nbf |-> nbf, iat |-> iat]
\* Issued with this library, whose integers are parsed exactly, or by another
\* producer that keeps the fraction of a second.
Parsed(t) ==
    {Dated(t, {NewNumericDate(d) : d \in t.exp}, {NewNumericDate(d) : d \in t.nbf},
              {NewNumericDate(d) : d \in t.iat}),
     Dated(t, {UnmarshalDate(d) : d \in t.exp}, {UnmarshalDate(d) : d \in t.nbf},
              {UnmarshalDate(d) : d \in t.iat})}

NoClaims == [iss |-> "", sub |-> "", jti |-> "", aud |-> {}, exp |-> {}, nbf |-> {}, iat |-> {}]
None == [at |-> 0, leeway |-> 0, res |-> "none"]
CheckInit ==
    /\ now = 0 /\ skew = 0
    /\ token = NoClaims /\ parsed = FALSE /\ claims = NoClaims
    /\ expected = NoClaims
    /\ client = None /\ server = None

Receive ==
    /\ ~parsed /\ parsed' = TRUE
    /\ token' \in Tokens /\ claims' \in Parsed(token')
    /\ skew' \in Skews /\ expected' \in Expectations
    /\ UNCHANGED <<now, client, server>>

Tick ==
    /\ parsed /\ now < MaxTime
    /\ now' = now + 1
    /\ client' = None
    /\ UNCHANGED <<skew, token, parsed, claims, expected, server>>

Check(t, leeway) == [at |-> t, leeway |-> leeway, res |-> ValidateWithLeeway(claims, expected, t, leeway)]
ClientValidates(leeway) ==
    /\ parsed
    /\ client' = Check(now, leeway)
    /\ UNCHANGED <<now, skew, token, parsed, claims, expected, server>>
ServerValidates(leeway) ==
    /\ parsed
    /\ server' = Check(now + skew, leeway)
    /\ UNCHANGED <<now, skew, token, parsed, claims, expected, client>>

CheckNext == Receive \/ Tick \/ \E l \in Leeways : ClientValidates(l) \/ ServerValidates(l)

-----------------------------------------------------------------------------
\* The advice on ValidateWithLeeway: a client whose leeway is smaller than the
\* server's by at least the difference of their clocks is not told that a token is
\* valid which the server refuses at that instant.
ServerAcceptsWhatClientAccepts ==
    /\ client.res = "ok" /\ server.res # "none" /\ server.at = now + skew
    /\ skew <= server.leeway - client.leeway /\ -skew <= server.leeway - client.leeway
    => server.res = "ok"

\* The dates as the issuer meant them, from the epoch on and fractions included: without leeway no token is
\* accepted after it has expired, and none a full second before it is valid or issued.
AcceptedInTime ==
    client.res = "ok" /\ client.leeway <= 0 =>
        /\ \A d \in token.exp : d >= 0 => now <= d
        /\ \A d \in token.nbf \cup token.iat : now + Second > d

\* A server that has seen the token expired does not accept it later with the same
\* leeway or a smaller one.
ExpiredForGood ==
    [][server.res = "ErrExpired" /\ server'.leeway <= server.leeway => server'.res # "ok"]_checkVars
=============================================================================
