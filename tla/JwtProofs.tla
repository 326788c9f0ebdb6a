----------------------------- MODULE JwtProofs ------------------------------
(***************************************************************************)
(* The properties of JwtValidation, of Jwt, of OpaqueSigning and of Jwk:   *)
(* tokens, the signers that sign them, and JSON Web Keys.                  *)
(*                                                                         *)
(* Validation, for every tick rate, every set of tokens, expectations,     *)
(* leeways and skews, and without a bound that matters: the inductive      *)
(* invariant says that the two results are still those of the claims at    *)
(* the time they were recorded for, and that the claims are the dates of   *)
(* the token with the fractions cut.                                       *)
(*                                                                         *)
(* Builders, for every set of names, values and structs and any number of  *)
(* builders: the inductive invariant says of each builder where its claims *)
(* are, and that a builder without a map was told nothing yet.             *)
(* Tokens, on top of that: a message keeps what its builder was told until *)
(* it is damaged, and a token that was verified came from a whole message. *)
(*                                                                         *)
(* Signers: a nonce the source gave out is held by one call at most, or is *)
(* in one signature of one returned object.                                *)
(***************************************************************************)
EXTENDS JwtLife, OpaqueSigning, Jwk, WellFoundedInduction, TLAPS

(***************************************************************************)
(* Facts about sequences.                                                  *)
(***************************************************************************)
\* Only the empty sequence has no element.
LEMMA EmptySeq ==
    ASSUME NEW S
    PROVE  /\ <<>> \in Seq(S) /\ Len(<<>>) = 0
           /\ \A s \in Seq(S) : s # <<>> => Len(s) \in Nat \ {0}
OBVIOUS

\* A sequence is a function on its indices.
LEMMA LenProperties ==
    ASSUME NEW S, NEW s \in Seq(S)
    PROVE  Len(s) \in Nat /\ s \in [1 .. Len(s) -> S] /\ DOMAIN s = 1 .. Len(s)
OBVIOUS

\* Sequences are equal when their elements are.
LEMMA SeqEqual ==
    ASSUME NEW S, NEW s \in Seq(S), NEW t \in Seq(S), Len(s) = Len(t),
           \A i \in 1 .. Len(s) : s[i] = t[i]
    PROVE  s = t
OBVIOUS

\* The elements of a subsequence.
LEMMA SubSeqProperties ==
    ASSUME NEW S, NEW s, NEW m \in Int, NEW n \in Int, \A i \in m .. n : s[i] \in S
    PROVE  LET t == SubSeq(s, m, n)
           IN  /\ t \in Seq(S) /\ Len(t) = IF m <= n THEN n - m + 1 ELSE 0
               /\ \A i \in 1 .. n - m + 1 : t[i] = s[m + i - 1]
OBVIOUS

\* All of a sequence.
LEMMA SubSeqFull ==
    ASSUME NEW S, NEW s \in Seq(S)
    PROVE  SubSeq(s, 1, Len(s)) = s
OBVIOUS

\* One more element at the end.
LEMMA AppendProperties ==
    ASSUME NEW S, NEW s \in Seq(S), NEW x \in S
    PROVE  LET t == Append(s, x)
           IN  /\ t \in Seq(S) /\ t # <<>> /\ Len(t) = Len(s) + 1 /\ t[Len(s) + 1] = x
               /\ \A i \in 1 .. Len(s) : t[i] = s[i]
OBVIOUS

\* The sequence t is s, of elements of S, and x after it.
GrownBy(t, s, x, S) ==
    /\ t \in Seq(S) /\ DOMAIN t = DOMAIN s \cup {Len(s) + 1}
    /\ t[Len(s) + 1] = x
    /\ \A i \in DOMAIN s : t[i] = s[i]

\* Append adds one element.
LEMMA Appended ==
    ASSUME NEW S, NEW s \in Seq(S), NEW x \in S
    PROVE  GrownBy(Append(s, x), s, x, S)
  BY DEF GrownBy

\* The elements of a sequence.
LEMMA ElementOfSeq ==
    ASSUME NEW S, NEW s \in Seq(S), NEW i \in DOMAIN s
    PROVE  s[i] \in S
OBVIOUS

\* The numbers up to the length of a sequence are its indices, but for 0.
LEMMA IndexOfSeq ==
    ASSUME NEW S, NEW s \in Seq(S), NEW n \in Nat, n <= Len(s), n # 0
    PROVE  n \in DOMAIN s
OBVIOUS

\* A number up to the length of a sequence is up to that of a longer one.
LEMMA LeqThrough ==
    ASSUME NEW S, NEW s \in Seq(S), NEW t \in Seq(S), NEW n \in Nat, n <= Len(s), Len(s) <= Len(t)
    PROVE  n <= Len(t)
OBVIOUS

\* The number after the one before.
LEMMA NextBack ==
    ASSUME NEW n \in Nat, NEW i \in Nat, n = i - 1
    PROVE  n + 1 = i
OBVIOUS

\* A number is not above itself or the next.
LEMMA NotAbove ==
    ASSUME NEW n \in Nat
    PROVE  n <= n /\ n + 1 \in Nat /\ n <= n + 1
OBVIOUS

(***************************************************************************)
(* Tokens: validation.                                                     *)
(***************************************************************************)
\* A result is that of ValidateWithLeeway at the recorded time and leeway.
Recorded(v) ==
    /\ v.at \in Int /\ v.leeway \in Int
    /\ v.res # "none" => v.res = ValidateWithLeeway(claims, expected, v.at, v.leeway)

\* n is the date d with its fraction cut.
Cut(d, n) ==
    /\ n \in Int
    /\ d >= 0 => Time(n) <= d
    /\ d < Time(n) + Second

Inv ==
    /\ now \in Int /\ skew \in Int
    /\ token.exp \subseteq Int /\ token.nbf \subseteq Int /\ token.iat \subseteq Int
    /\ ~parsed => client.res = "none" /\ server.res = "none"
    /\ parsed =>
        /\ claims.exp \subseteq Int /\ claims.nbf \subseteq Int /\ claims.iat \subseteq Int
        /\ \A d \in token.exp : \E n \in claims.exp : Cut(d, n)
        /\ \A d \in token.nbf : \E n \in claims.nbf : Cut(d, n)
        /\ \A d \in token.iat : \E n \in claims.iat : Cut(d, n)
    /\ Recorded(client) /\ (client.res # "none" => client.at = now)
    /\ Recorded(server) /\ (server.res # "none" => server.at <= now + skew)

-----------------------------------------------------------------------------
\* What "ok" and the three errors about time say (ValidateWithLeeway).
LEMMA Verdicts ==
    ASSUME NEW c, NEW e, NEW t, NEW l
    PROVE  /\ ValidateWithLeeway(c, e, t, l) = "ok" =>
                /\ ~NotValidYet(c, t, l) /\ ~Expired(c, t, l) /\ ~IssuedInTheFuture(c, t, l)
                /\ ~Mismatch(e.iss, c.iss) /\ ~Mismatch(e.sub, c.sub) /\ ~Mismatch(e.jti, c.jti)
                /\ ~NoAudience(e, c)
           /\ ValidateWithLeeway(c, e, t, l) = "ErrExpired" => Expired(c, t, l)
           /\ ValidateWithLeeway(c, e, t, l) # "none"
  BY ZenonT(30) DEF ValidateWithLeeway

\* The converse for "ok".
LEMMA AllChecksPass ==
    ASSUME NEW c, NEW e, NEW t, NEW l,
           ~NotValidYet(c, t, l), ~Expired(c, t, l), ~IssuedInTheFuture(c, t, l),
           ~Mismatch(e.iss, c.iss), ~Mismatch(e.sub, c.sub), ~Mismatch(e.jti, c.jti), ~NoAudience(e, c)
    PROVE  ValidateWithLeeway(c, e, t, l) = "ok"
  BY DEF ValidateWithLeeway

\* Both ways to get a date cut its fraction (NewNumericDate, UnmarshalJSON).
LEMMA DatesAreCut ==
    ASSUME NEW d \in Int
    PROVE  Cut(d, NewNumericDate(d)) /\ Cut(d, UnmarshalDate(d))
  <1> DEFINE q(x) == x \div Second
  <1>1. \A x \in Int : q(x) \in Int /\ x = q(x) * Second + (x % Second) /\ x % Second \in 0..Second - 1
    BY SecondAssumption
  <1>2. Cut(d, NewNumericDate(d))
    BY <1>1, SecondAssumption DEF Cut, NewNumericDate, Time
  <1>3. CASE d >= 0
    BY <1>2, <1>3 DEF UnmarshalDate, NewNumericDate
  <1>4. CASE d < 0
    <2>1. UnmarshalDate(d) = -q(-d) /\ UnmarshalDate(d) \in Int
      BY <1>1, <1>4 DEF UnmarshalDate
    <2>2. -d = q(-d) * Second + ((-d) % Second) /\ q(-d) \in Int /\ (-d) % Second \in 0..Second - 1
      BY <1>1
    <2>3. Time(UnmarshalDate(d)) = -(q(-d) * Second)
      BY <2>1, <2>2, SecondAssumption DEF Time
    <2>4. d < Time(UnmarshalDate(d)) + Second
      BY SMTT(20), <2>2, <2>3, SecondAssumption
    <2> QED BY <1>2, <1>4, <2>1, <2>4 DEF Cut
  <1> QED BY <1>3, <1>4

\* The claims of a parsed token are its dates, cut.
LEMMA ParsedCut ==
    ASSUME NEW t \in Tokens, NEW c \in Parsed(t)
    PROVE  /\ c.exp \subseteq Int /\ c.nbf \subseteq Int /\ c.iat \subseteq Int
           /\ \A d \in t.exp : \E n \in c.exp : Cut(d, n)
           /\ \A d \in t.nbf : \E n \in c.nbf : Cut(d, n)
           /\ \A d \in t.iat : \E n \in c.iat : Cut(d, n)
  <1>1. t.exp \subseteq Int /\ t.nbf \subseteq Int /\ t.iat \subseteq Int
    BY TimesAssumption
  <1>2. \A d \in Int : /\ NewNumericDate(d) \in Int /\ UnmarshalDate(d) \in Int
                       /\ Cut(d, NewNumericDate(d)) /\ Cut(d, UnmarshalDate(d))
    BY Zenon, DatesAreCut DEF Cut
  <1>3. \/ /\ c.exp = {NewNumericDate(d) : d \in t.exp} /\ c.nbf = {NewNumericDate(d) : d \in t.nbf}
           /\ c.iat = {NewNumericDate(d) : d \in t.iat}
        \/ /\ c.exp = {UnmarshalDate(d) : d \in t.exp} /\ c.nbf = {UnmarshalDate(d) : d \in t.nbf}
           /\ c.iat = {UnmarshalDate(d) : d \in t.iat}
    BY SMTT(20) DEF Parsed, Dated
  <1> QED BY <1>1, <1>2, <1>3

\* The invariant holds before a token is received.
LEMMA InvInit == CheckInit => Inv
  <1> SUFFICES ASSUME CheckInit PROVE Inv
    OBVIOUS
  <1>1. NoClaims.exp = {} /\ NoClaims.nbf = {} /\ NoClaims.iat = {}
    BY Zenon DEF NoClaims
  <1>2. None.at \in Int /\ None.leeway \in Int /\ None.res = "none"
    BY DEF None
  <1> QED BY <1>1, <1>2 DEF CheckInit, Inv, Recorded

\* Receiving the claims, the clock and both validations keep the invariant.
LEMMA InvNext == Inv /\ [CheckNext]_checkVars => Inv'
  <1> SUFFICES ASSUME Inv, [CheckNext]_checkVars PROVE Inv'
    OBVIOUS
  <1>1. CASE Receive
    <2>1. /\ claims'.exp \subseteq Int /\ claims'.nbf \subseteq Int /\ claims'.iat \subseteq Int
          /\ \A d \in token'.exp : \E n \in claims'.exp : Cut(d, n)
          /\ \A d \in token'.nbf : \E n \in claims'.nbf : Cut(d, n)
          /\ \A d \in token'.iat : \E n \in claims'.iat : Cut(d, n)
      BY Zenon, <1>1, ParsedCut DEF Receive
    <2>3. /\ token'.exp \subseteq Int /\ token'.nbf \subseteq Int /\ token'.iat \subseteq Int
          /\ skew' \in Int /\ now' \in Int /\ parsed'
      BY Zenon, <1>1, TimesAssumption DEF Receive, Inv
    <2>2. Recorded(client)' /\ Recorded(server)' /\ client'.res = "none" /\ server'.res = "none"
      BY ZenonT(30), <1>1 DEF Receive, Inv, Recorded
    <2> QED BY Zenon, <2>1, <2>2, <2>3 DEF Inv, Cut, Time
  <1>2. CASE Tick
    <2>1. Recorded(client)' /\ client'.res = "none"
      BY SMTT(20), <1>2 DEF Tick, None, Recorded
    <2>2. Recorded(server)' /\ server' = server /\ now' = now + 1
      BY ZenonT(30), <1>2 DEF Tick, Inv, Recorded
    <2> QED BY <1>2, <2>1, <2>2 DEF Tick, Inv, Cut, Time, Recorded
  <1>3. ASSUME NEW l \in Leeways, ClientValidates(l) PROVE Inv'
    <2>1. l \in Int
      BY ZenonT(30), TimesAssumption
    <2>2. Recorded(client)' /\ client'.at = now'
      BY SMTT(20), <1>3, <2>1 DEF ClientValidates, Check, Recorded, Inv
    <2>3. Recorded(server)'
      BY Zenon, <1>3 DEF ClientValidates, Recorded, Inv
    <2> QED BY <1>3, <2>2, <2>3 DEF ClientValidates, Inv, Cut, Time
  <1>4. ASSUME NEW l \in Leeways, ServerValidates(l) PROVE Inv'
    <2>1. l \in Int
      BY TimesAssumption
    <2>2. Recorded(server)' /\ server'.at = now' + skew'
      BY SMTT(20), <1>4, <2>1 DEF ServerValidates, Check, Recorded, Inv
    <2>3. Recorded(client)'
      BY Zenon, <1>4 DEF ServerValidates, Recorded, Inv
    <2> QED BY SMTT(20), <1>4, <2>2, <2>3 DEF ServerValidates, Inv, Cut, Time
  <1>5. CASE UNCHANGED checkVars
    BY <1>5 DEF checkVars, Inv, Recorded, Cut, Time
  <1> QED BY Zenon, <1>1, <1>2, <1>3, <1>4, <1>5 DEF CheckNext

\* Building and reading a token leave the validation alone.
LEMMA CheckSteps == [Next]_vars => [CheckNext]_checkVars
  BY DEF Next, BuildStep, HandOver, ReadStep, ClaimsRead, CheckStep, CheckNext, vars

\* Nothing has been validated at first.
LEMMA CheckStarts == Init => CheckInit
  BY DEF Init

\* The inductive invariant.
THEOREM Invariance == Spec => []Inv
  BY InvInit, InvNext, CheckSteps, CheckStarts, PTL DEF Spec

\* With the clocks t and u and the leeways l and k far enough apart, who accepts at t
\* with l accepts at u with k (the comparisons of ValidateWithLeeway).
LEMMA MoreLeeway ==
    ASSUME NEW c, NEW e, c.exp \subseteq Int, c.nbf \subseteq Int, c.iat \subseteq Int,
           NEW t \in Int, NEW l \in Int, NEW u \in Int, NEW k \in Int,
           u - k <= t - l, t + l <= u + k,
           ValidateWithLeeway(c, e, t, l) = "ok"
    PROVE  ValidateWithLeeway(c, e, u, k) = "ok"
  <1>0. \A n \in Int : Time(n) \in Int
    BY SMTT(20), SecondAssumption DEF Time
  <1>1. /\ ~NotValidYet(c, t, l) /\ ~Expired(c, t, l) /\ ~IssuedInTheFuture(c, t, l)
        /\ ~Mismatch(e.iss, c.iss) /\ ~Mismatch(e.sub, c.sub) /\ ~Mismatch(e.jti, c.jti)
        /\ ~NoAudience(e, c)
    BY Zenon, Verdicts
  <1>2. ~NotValidYet(c, u, k)
    BY SMTT(20), <1>0, <1>1 DEF NotValidYet
  <1>3. ~Expired(c, u, k)
    BY SMTT(20), <1>0, <1>1 DEF Expired
  <1>4. ~IssuedInTheFuture(c, u, k)
    BY <1>0, <1>1 DEF IssuedInTheFuture
  <1> QED BY Zenon, <1>1, <1>2, <1>3, <1>4, AllChecksPass

\* What a client accepts the server accepts at that instant, if the leeways differ
\* by at least the difference of the clocks (ValidateWithLeeway).
THEOREM ClientAndServer == Spec => []ServerAcceptsWhatClientAccepts
  <1>1. Inv => ServerAcceptsWhatClientAccepts
    <2> SUFFICES ASSUME Inv, client.res = "ok", server.res # "none", server.at = now + skew,
                        skew <= server.leeway - client.leeway, -skew <= server.leeway - client.leeway
                 PROVE  server.res = "ok"
      BY Zenon DEF ServerAcceptsWhatClientAccepts
    <2>1. parsed /\ now \in Int /\ skew \in Int /\ client.leeway \in Int /\ server.leeway \in Int
      BY Zenon DEF Inv, Recorded
    <2>2. claims.exp \subseteq Int /\ claims.nbf \subseteq Int /\ claims.iat \subseteq Int
      BY Zenon, <2>1 DEF Inv
    <2>3. ValidateWithLeeway(claims, expected, now, client.leeway) = "ok"
      BY DEF Inv, Recorded
    <2>4. /\ (now + skew) - server.leeway <= now - client.leeway
          /\ now + client.leeway <= (now + skew) + server.leeway
      BY SMTT(20), <2>1
    <2>5. ValidateWithLeeway(claims, expected, now + skew, server.leeway) = "ok"
      BY SMTT(20), <2>1, <2>2, <2>3, <2>4, MoreLeeway
    <2> QED BY <2>5 DEF Inv, Recorded
  <1> QED BY <1>1, Invariance, PTL

\* Without leeway nothing is accepted late, or a second early, measured by the dates
\* before their fractions were cut (NumericDate, ValidateWithLeeway).
THEOREM InTime == Spec => []AcceptedInTime
  <1>1. Inv => AcceptedInTime
    <2> SUFFICES ASSUME Inv, client.res = "ok", client.leeway <= 0
                 PROVE  /\ \A d \in token.exp : d >= 0 => now <= d
                        /\ \A d \in token.nbf \cup token.iat : now + Second > d
      BY Zenon DEF AcceptedInTime
    <2>1. /\ parsed /\ now \in Int /\ client.leeway \in Int
          /\ token.exp \subseteq Int /\ token.nbf \subseteq Int /\ token.iat \subseteq Int
      BY Zenon DEF Inv, Recorded
    <2>2. ValidateWithLeeway(claims, expected, now, client.leeway) = "ok"
      BY SMTT(20) DEF Inv, Recorded
    <2>3. /\ ~NotValidYet(claims, now, client.leeway) /\ ~Expired(claims, now, client.leeway)
          /\ ~IssuedInTheFuture(claims, now, client.leeway)
      BY Zenon, <2>2, Verdicts
    <2>4. \A n \in Int : Time(n) \in Int
      BY SMTT(20), SecondAssumption DEF Time
    <2>5. ASSUME NEW d \in token.exp, d >= 0 PROVE now <= d
      <3>1. PICK n \in claims.exp : Cut(d, n)
        BY Zenon, <2>1 DEF Inv
      <3>2. now - client.leeway <= Time(n)
        BY SMTT(20), <2>1, <2>3, <2>4, <3>1 DEF Expired, Cut
      <3> QED BY SMTT(20), <2>1, <2>4, <2>5, <3>1, <3>2 DEF Cut
    <2>6. ASSUME NEW d \in token.nbf PROVE now + Second > d
      <3>1. PICK n \in claims.nbf : Cut(d, n)
        BY Zenon, <2>1 DEF Inv
      <3>2. now + client.leeway >= Time(n)
        BY SMTT(20), <2>1, <2>3, <2>4, <3>1 DEF NotValidYet, Cut
      <3> QED BY SMTT(20), <2>1, <2>4, <3>1, <3>2, SecondAssumption DEF Cut
    <2>7. ASSUME NEW d \in token.iat PROVE now + Second > d
      <3>1. PICK n \in claims.iat : Cut(d, n)
        BY Zenon, <2>1 DEF Inv
      <3>2. now + client.leeway >= Time(n)
        BY <2>1, <2>3, <2>4, <3>1 DEF IssuedInTheFuture, Cut
      <3> QED BY SMTT(20), <2>1, <2>4, <3>1, <3>2, SecondAssumption DEF Cut
    <2> QED BY <2>5, <2>6, <2>7
  <1> QED BY <1>1, Invariance, PTL

\* An expired token is not accepted later with no more leeway (the comparison with
\* Expiry in ValidateWithLeeway).
THEOREM StaysExpired == Spec => ExpiredForGood
  <1>1. Inv /\ [CheckNext]_checkVars =>
          [server.res = "ErrExpired" /\ server'.leeway <= server.leeway => server'.res # "ok"]_checkVars
    <2> SUFFICES ASSUME Inv, [CheckNext]_checkVars, server.res = "ErrExpired", server'.leeway <= server.leeway
                 PROVE  server'.res # "ok"
      OBVIOUS
    <2>1. CASE server' = server
      BY Zenon, <2>1
    <2>2. ASSUME NEW l \in Leeways, ServerValidates(l) PROVE server'.res # "ok"
      <3>1. /\ l \in Int /\ now \in Int /\ skew \in Int /\ server.at \in Int /\ server.leeway \in Int
            /\ server.at <= now + skew /\ parsed
        BY SMTT(20), TimesAssumption DEF Inv, Recorded
      <3>2. server'.leeway = l /\ server'.res = ValidateWithLeeway(claims, expected, now + skew, l)
        BY SMTT(20), <2>2 DEF ServerValidates, Check
      <3>3. Expired(claims, server.at, server.leeway)
        BY Zenon, Verdicts DEF Inv, Recorded
      <3>4. PICK n \in claims.exp : server.at - server.leeway > Time(n)
        BY Zenon, <3>3 DEF Expired
      <3>5. n \in Int /\ Time(n) \in Int
        BY SMTT(20), <3>1, SecondAssumption DEF Inv, Time
      <3>6. (now + skew) - l > Time(n)
        BY <3>1, <3>2, <3>4, <3>5
      <3>7. Expired(claims, now + skew, l)
        BY <3>6 DEF Expired
      <3> QED BY ZenonT(30), <3>2, <3>7, Verdicts
    <2> QED BY <2>1, <2>2 DEF CheckNext, checkVars, Receive, Tick, ClientValidates
  <1> QED BY <1>1, Invariance, CheckSteps, PTL DEF Spec, ExpiredForGood

(***************************************************************************)
(* OpaqueSigners: concurrent calls of Sign, for any number of goroutines,  *)
(* signers, recipients, calls and rotations.                               *)
(***************************************************************************)

\* What a recipient is made of.
LEMMA RecipientsFacts ==
    /\ Len(Recipients) \in Nat
    /\ DOMAIN Recipients = 1..Len(Recipients)
    /\ \A i \in DOMAIN Recipients :
          Recipients[i].signer \in Signer /\ Recipients[i].wrapped \in BOOLEAN
<1>1. /\ Len(Recipients) \in Nat
      /\ Recipients \in [1..Len(Recipients) -> [signer : Signer, wrapped : BOOLEAN]]
  BY Zenon, RecipientsAssumption, LenProperties
<1> QED
  BY <1>1

\* What Sign appends: a signature of the current key, after the ones it has.
LEMMA SignedFacts ==
    ASSUME TypeOK, NEW c \in Caller, call[c].pc = "sign"
    PROVE  LET l == call[c]
               s == Recipients[l.i].signer
               new == [recipient |-> l.i, named |-> l.named, nonce |-> l.nonce,
                       key |-> current[s], began |-> l.began[s]]
           IN  /\ s \in Signer
               /\ new \in Sig
               /\ SigsWith(c) = Append(l.sigs, new)
               /\ SigsWith(c) \in Seq(Sig)
               /\ Len(SigsWith(c)) = Len(l.sigs) + 1
               /\ DOMAIN SigsWith(c) = 1..(Len(l.sigs) + 1)
               /\ \A j \in DOMAIN l.sigs : j # Len(l.sigs) + 1 /\ SigsWith(c)[j] = l.sigs[j]
               /\ SigsWith(c)[Len(l.sigs) + 1] = new
               /\ DOMAIN l.sigs = 1..Len(l.sigs) /\ Len(l.sigs) \in Nat
<1> DEFINE l == call[c]
           s == Recipients[l.i].signer
           new == [recipient |-> l.i, named |-> l.named, nonce |-> l.nonce,
                   key |-> current[s], began |-> l.began[s]]
<1>1. l \in Local /\ l.i \in DOMAIN Recipients /\ l.began \in [Signer -> Nat]
  BY DEF TypeOK
<1>2. s \in Signer
  BY <1>1, RecipientsFacts
<1>3. l.named \in Nat /\ l.nonce \in Nat /\ l.sigs \in Seq(Sig)
  BY Zenon, <1>1 DEF Local
<1>4. new \in Sig
  BY <1>1, <1>2, <1>3 DEF Sig, TypeOK
<1>5. SigsWith(c) = Append(l.sigs, new)
  BY DEF SigsWith
<1>6. DOMAIN l.sigs = 1..Len(l.sigs) /\ Len(l.sigs) \in Nat
  BY Zenon, <1>3, LenProperties
<1> HIDE DEF new, s
<1>7. /\ Append(l.sigs, new) \in Seq(Sig)
      /\ Len(Append(l.sigs, new)) = Len(l.sigs) + 1
      /\ \A j \in 1..Len(l.sigs) : Append(l.sigs, new)[j] = l.sigs[j]
      /\ Append(l.sigs, new)[Len(l.sigs) + 1] = new
  BY <1>3, <1>4, AppendProperties
<1>8. DOMAIN Append(l.sigs, new) = 1..(Len(l.sigs) + 1)
  BY <1>7, LenProperties
<1>9. \A j \in DOMAIN l.sigs : j # Len(l.sigs) + 1
  BY <1>6
<1> QED
  BY Zenon, <1>2, <1>4, <1>5, <1>6, <1>7, <1>8, <1>9 DEF new, s

\* The state between two calls is a local state.
LEMMA IdleLocal == Idle \in Local
BY Zenon, EmptySeq DEF Idle, Local

\* A step that replaces the local state of one goroutine.
LEMMA LocalStep ==
    ASSUME TypeOK, NEW c \in Caller, NEW l \in Local,
           l.pc # "idle" => l.i \in DOMAIN Recipients /\ l.began \in [Signer -> Nat] /\ frozen # <<>>,
           call' = [call EXCEPT ![c] = l], UNCHANGED <<current, frozen>>,
           issued' \in Nat, calls' \in [Caller -> Nat], returned' \subseteq Seq(Sig)
    PROVE  TypeOK'
<1>1. call' \in [Caller -> Local]
  BY DEF TypeOK
<1>2. \A d \in Caller : call'[d].pc # "idle" => /\ call'[d].i \in DOMAIN Recipients
                                               /\ call'[d].began \in [Signer -> Nat]
                                               /\ frozen' # <<>>
  BY DEF TypeOK
<1> QED
  BY <1>1, <1>2 DEF TypeOK

\* Every step keeps the types.
LEMMA TypeOKStep == TypeOK /\ [SigningNext]_signingVars => TypeOK'
<1> SUFFICES ASSUME TypeOK, [SigningNext]_signingVars PROVE TypeOK'
  OBVIOUS
<1>t. issued \in Nat /\ calls \in [Caller -> Nat] /\ returned \subseteq Seq(Sig)
  BY DEF TypeOK
<1>1. ASSUME NEW s \in Signer, Rotate(s) PROVE TypeOK'
  BY <1>1 DEF Rotate, TypeOK
<1>2. CASE NewMultiSigner
  BY <1>2, RecipientsFacts DEF NewMultiSigner, TypeOK
<1>3. ASSUME NEW c \in Caller, Begin(c) PROVE TypeOK'
  <2> DEFINE l == [Idle EXCEPT !.pc = "public", !.i = 1, !.began = current]
  <2>1. 1 \in DOMAIN Recipients
    BY <1>3, RecipientsFacts, RecipientsAssumption, EmptySeq DEF Begin
  <2>2. l \in Local /\ l.i = 1 /\ l.began \in [Signer -> Nat]
    BY Zenon, EmptySeq DEF Idle, Local, TypeOK
  <2>3. /\ call' = [call EXCEPT ![c] = l] /\ UNCHANGED <<current, frozen, issued, returned>>
        /\ frozen # <<>> /\ calls' \in [Caller -> Nat]
    BY <1>3, <1>t DEF Begin
  <2> HIDE DEF l
  <2> QED
    BY Zenon, <1>t, <2>1, <2>2, <2>3, LocalStep
<1>4. ASSUME NEW c \in Caller, GetPublicKey(c) PROVE TypeOK'
  <2> DEFINE n == IF Recipients[call[c].i].wrapped THEN frozen[1][call[c].i]
                  ELSE current[Recipients[call[c].i].signer]
             l == [call[c] EXCEPT !.pc = "nonce", !.named = n]
  <2>1. call[c] \in Local /\ n \in Nat
    BY <1>4, RecipientsFacts DEF GetPublicKey, TypeOK
  <2>2. /\ call' = [call EXCEPT ![c] = l]
        /\ UNCHANGED <<current, frozen, issued, calls, returned>>
    BY Zenon, <1>4 DEF GetPublicKey, TypeOK
  <2> HIDE DEF n
  <2>3. l \in Local /\ l.i = call[c].i /\ l.began = call[c].began
    BY Zenon, <2>1 DEF Local
  <2>4. l.i \in DOMAIN Recipients /\ l.began \in [Signer -> Nat] /\ frozen # <<>>
    BY <1>4, <2>3 DEF GetPublicKey, TypeOK
  <2> HIDE DEF l
  <2> QED
    BY Zenon, <1>t, <2>2, <2>3, <2>4, LocalStep
<1>5. ASSUME NEW c \in Caller, call' = [call EXCEPT ![c] = Idle], UNCHANGED <<current, issued, frozen, calls>>,
             returned' \subseteq Seq(Sig)
      PROVE TypeOK'
  <2>1. Idle.pc = "idle"
    BY DEF Idle
  <2> QED
    BY Zenon, <1>t, <1>5, <2>1, IdleLocal, LocalStep
<1>6. ASSUME NEW c \in Caller, Nonce(c) PROVE TypeOK'
  <2>1. CASE Fail(c)
    BY Zenon, <1>t, <1>5, <2>1 DEF Fail
  <2>2. CASE ~Fail(c)
    <3> DEFINE n == issued + 1
               l == [call[c] EXCEPT !.pc = "sign", !.nonce = n]
    <3>1. /\ call' = [call EXCEPT ![c] = l] /\ issued' = n
          /\ UNCHANGED <<current, frozen, calls, returned>>
      BY Zenon, <1>6, <2>2 DEF Nonce, TypeOK
    <3>2. call[c] \in Local /\ n \in Nat
      BY DEF TypeOK
    <3> HIDE DEF n
    <3>3. l \in Local /\ l.i = call[c].i /\ l.began = call[c].began
      BY Zenon, <3>2 DEF Local
    <3>4. l.i \in DOMAIN Recipients /\ l.began \in [Signer -> Nat] /\ frozen # <<>>
      BY <1>6, <3>3 DEF Nonce, TypeOK
    <3> HIDE DEF l
    <3> QED
      BY Zenon, <1>t, <3>1, <3>2, <3>3, <3>4, LocalStep
  <2> QED
    BY <2>1, <2>2
<1>7. ASSUME NEW c \in Caller, SignPayload(c) PROVE TypeOK'
  <2>1. /\ call[c].pc = "sign" /\ call[c] \in Local /\ call[c].i \in DOMAIN Recipients
        /\ call[c].began \in [Signer -> Nat] /\ frozen # <<>>
    BY <1>7 DEF SignPayload, TypeOK
  <2>2. SigsWith(c) \in Seq(Sig)
    BY Zenon, <2>1, SignedFacts
  <2>3. CASE Fail(c)
    BY Zenon, <1>t, <1>5, <2>3 DEF Fail
  <2>4. CASE ~Fail(c) /\ call[c].i = Len(Recipients)
    BY <1>t, <1>5, <1>7, <2>2, <2>4 DEF SignPayload
  <2>5. CASE ~Fail(c) /\ call[c].i # Len(Recipients)
    <3> DEFINE j == call[c].i + 1
               l == [call[c] EXCEPT !.pc = "public", !.i = j, !.sigs = SigsWith(c)]
    <3>1. call' = [call EXCEPT ![c] = l] /\ UNCHANGED <<current, issued, frozen, calls, returned>>
      BY Zenon, <1>7, <2>5 DEF SignPayload, TypeOK
    <3>2. j \in DOMAIN Recipients /\ j \in Nat
      BY <2>1, <2>5, RecipientsFacts
    <3> HIDE DEF j
    <3>3. l \in Local /\ l.i = j /\ l.began = call[c].began
      BY Zenon, <2>1, <2>2, <3>2 DEF Local
    <3> HIDE DEF l
    <3> QED
      BY Zenon, <1>t, <2>1, <3>1, <3>2, <3>3, LocalStep
  <2> QED
    BY <2>3, <2>4, <2>5
<1>8. CASE UNCHANGED signingVars
  BY <1>8 DEF signingVars, TypeOK
<1> QED
  BY <1>1, <1>2, <1>3, <1>4, <1>6, <1>7, <1>8 DEF SigningNext, Sign
(***************************************************************************)
(* Which keys a call names and uses.                                       *)
(***************************************************************************)
SigOK(sig, j) ==
    /\ sig.recipient = j
    /\ ~Recipients[j].wrapped => sig.began <= sig.named /\ sig.named <= sig.key

\* The local state l of a call, when the current keys are cur.
CallOK(l, cur) ==
    l.pc # "idle" =>
        /\ Len(l.sigs) = l.i - 1
        /\ \A j \in DOMAIN l.sigs : SigOK(l.sigs[j], j)
        /\ \A s \in Signer : l.began[s] <= cur[s]
        /\ l.pc # "public" /\ ~Recipients[l.i].wrapped =>
               LET s == Recipients[l.i].signer IN l.began[s] <= l.named /\ l.named <= cur[s]

ObjectOK(o) == DOMAIN o = DOMAIN Recipients /\ \A i \in DOMAIN o : SigOK(o[i], i)

KeyInv ==
    /\ TypeOK
    /\ \A c \in Caller : CallOK(call[c], current)
    /\ \A o \in returned : ObjectOK(o)

\* A goroutine's step that leaves the current keys alone.
LEMMA CallStep ==
    ASSUME KeyInv, TypeOK', NEW c \in Caller, NEW l, CallOK(l, current),
           call' = [call EXCEPT ![c] = l], UNCHANGED current,
           \A o \in returned' : o \in returned \/ ObjectOK(o)
    PROVE  KeyInv'
<1>1. \A d \in Caller : CallOK(call'[d], current')
  BY DEF KeyInv, TypeOK
<1> QED
  BY <1>1 DEF KeyInv

\* The signature that SignPayload appends is in order, as are the others.
LEMMA SignedOK ==
    ASSUME KeyInv, NEW c \in Caller, call[c].pc = "sign"
    PROVE  Len(SigsWith(c)) = call[c].i /\ \A j \in DOMAIN SigsWith(c) : SigOK(SigsWith(c)[j], j)
<1> DEFINE l == call[c]
           n == Len(l.sigs)
           s == Recipients[l.i].signer
<1>1. TypeOK /\ CallOK(l, current)
  BY Zenon DEF KeyInv
<1>2. l.i \in Nat /\ n \in Nat /\ n = l.i - 1
  BY Zenon, <1>1, SignedFacts DEF CallOK, TypeOK, Local
<1>n. n + 1 = l.i
  BY Zenon, <1>2, NextBack
<1>3. \A j \in DOMAIN l.sigs : SigOK(l.sigs[j], j)
  BY Zenon, <1>1 DEF CallOK
<1>4. ~Recipients[l.i].wrapped => l.began[s] <= l.named /\ l.named <= current[s]
  BY Zenon, <1>1 DEF CallOK
<1>5. SigOK(SigsWith(c)[l.i], l.i)
  <2> DEFINE x == [recipient |-> l.i, named |-> l.named, nonce |-> l.nonce,
                   key |-> current[s], began |-> l.began[s]]
  <2>1. SigsWith(c)[n + 1] = x
    BY Zenon, <1>1, SignedFacts
  <2>2. SigOK(x, l.i)
    BY Zenon, <1>4 DEF SigOK
  <2> HIDE DEF x
  <2> QED
    BY Zenon, <1>n, <2>1, <2>2
<1>d. Len(SigsWith(c)) = n + 1 /\ DOMAIN SigsWith(c) = 1..(n + 1) /\ DOMAIN l.sigs = 1..n
  BY Zenon, <1>1, SignedFacts
<1>e. Len(SigsWith(c)) = l.i
  BY Zenon, <1>n, <1>d
<1>6. ASSUME NEW j \in DOMAIN SigsWith(c) PROVE SigOK(SigsWith(c)[j], j)
  <2>1. CASE j = l.i
    BY <1>5, <2>1
  <2>2. CASE j # l.i
    <3>1. j \in DOMAIN l.sigs
      BY <1>2, <1>d, <2>2
    <3> QED
      BY Zenon, <1>1, <1>3, <3>1, SignedFacts
  <2> QED
    BY <2>1, <2>2
<1> QED
  BY <1>e, <1>6

\* Every step of a call, and every rotation, keeps the order of the keys.
LEMMA KeyInvStep == KeyInv /\ [SigningNext]_signingVars => KeyInv'
<1> SUFFICES ASSUME KeyInv, [SigningNext]_signingVars PROVE KeyInv'
  OBVIOUS
<1>t. TypeOK /\ TypeOK'
  BY Zenon, TypeOKStep DEF KeyInv
<1>i. CallOK(Idle, current)
  BY DEF CallOK, Idle
<1>1. ASSUME NEW s \in Signer, Rotate(s) PROVE KeyInv'
  <2>1. \A r \in Signer : current[r] \in Nat /\ current[r] <= current'[r] /\ current'[r] \in Nat
    BY Zenon, <1>1, <1>t, NotAbove DEF Rotate, TypeOK
  <2>2. ASSUME NEW c \in Caller PROVE CallOK(call[c], current')
    <3> DEFINE l == call[c]
    <3>1. CallOK(l, current) /\ l \in Local
      BY Zenon, <1>t DEF KeyInv, TypeOK
    <3>2. SUFFICES ASSUME l.pc # "idle" PROVE CallOK(l, current')
      BY SMTT(20) DEF CallOK
    <3>3. l.began \in [Signer -> Nat] /\ l.i \in DOMAIN Recipients /\ l.named \in Nat
      BY Zenon, <1>t, <3>1, <3>2 DEF TypeOK, Local
    <3>4. \A r \in Signer : l.began[r] <= current'[r]
      BY <2>1, <3>1, <3>2, <3>3 DEF CallOK
    <3>5. Recipients[l.i].signer \in Signer
      BY <3>3, RecipientsFacts
    <3> QED
      BY <2>1, <3>1, <3>2, <3>3, <3>4, <3>5 DEF CallOK
  <2> QED
    BY Zenon, <1>1, <1>t, <2>2 DEF Rotate, KeyInv
<1>2. CASE NewMultiSigner
  BY <1>2, <1>t DEF NewMultiSigner, KeyInv
<1>3. ASSUME NEW c \in Caller, Begin(c) PROVE KeyInv'
  <2> DEFINE l == [Idle EXCEPT !.pc = "public", !.i = 1, !.began = current]
  <2>1. l.pc = "public" /\ l.i = 1 /\ l.began = current /\ l.sigs = <<>>
    BY DEF Idle
  <2>2. \A s \in Signer : current[s] <= current[s]
    BY <1>t DEF TypeOK
  <2>3. DOMAIN <<>> = {} /\ Len(<<>>) = 0
    OBVIOUS
  <2>4. CallOK(l, current)
    BY <2>1, <2>2, <2>3 DEF CallOK
  <2>5. call' = [call EXCEPT ![c] = l] /\ UNCHANGED <<current, returned>>
    BY <1>3 DEF Begin
  <2> HIDE DEF l
  <2> QED
    BY Zenon, <1>t, <2>4, <2>5, CallStep
<1>4. ASSUME NEW c \in Caller, GetPublicKey(c) PROVE KeyInv'
  <2> DEFINE r == Recipients[call[c].i]
             n == IF r.wrapped THEN frozen[1][call[c].i] ELSE current[r.signer]
             l == [call[c] EXCEPT !.pc = "nonce", !.named = n]
  <2>1. call' = [call EXCEPT ![c] = l] /\ UNCHANGED <<current, returned>>
    BY Zenon, <1>4, <1>t DEF GetPublicKey, TypeOK
  <2>2. /\ l.pc = "nonce" /\ l.i = call[c].i /\ l.began = call[c].began
        /\ l.sigs = call[c].sigs /\ l.named = n
    BY <1>t DEF TypeOK, Local
  <2>3. CallOK(call[c], current) /\ call[c].pc = "public" /\ r.signer \in Signer
    BY <1>4, RecipientsFacts DEF KeyInv, GetPublicKey, TypeOK
  <2>4. current[r.signer] \in Nat
    BY Zenon, <1>t, <2>3 DEF TypeOK
  <2>5. CallOK(l, current)
    BY <2>2, <2>3, <2>4 DEF CallOK
  <2> HIDE DEF l
  <2> QED
    BY Zenon, <1>t, <2>1, <2>5, CallStep
<1>5. ASSUME NEW c \in Caller, Fail(c) PROVE KeyInv'
  BY Zenon, <1>5, <1>t, <1>i, CallStep DEF Fail
<1>6. ASSUME NEW c \in Caller, Nonce(c) PROVE KeyInv'
  <2>1. CASE ~Fail(c)
    <3> DEFINE l == [call[c] EXCEPT !.pc = "sign", !.nonce = issued + 1]
    <3>1. call' = [call EXCEPT ![c] = l] /\ UNCHANGED <<current, returned>>
      BY Zenon, <1>6, <1>t, <2>1 DEF Nonce, TypeOK
    <3>2. /\ l.pc = "sign" /\ l.i = call[c].i /\ l.began = call[c].began
          /\ l.sigs = call[c].sigs /\ l.named = call[c].named
      BY <1>t DEF TypeOK, Local
    <3>3. CallOK(call[c], current) /\ call[c].pc = "nonce"
      BY Zenon, <1>6 DEF KeyInv, Nonce
    <3>4. CallOK(l, current)
      BY <3>2, <3>3 DEF CallOK
    <3> HIDE DEF l
    <3> QED
      BY Zenon, <1>t, <3>1, <3>4, CallStep
  <2> QED
    BY <1>5, <2>1
<1>7. ASSUME NEW c \in Caller, SignPayload(c) PROVE KeyInv'
  <2>1. /\ Len(SigsWith(c)) = call[c].i /\ \A j \in DOMAIN SigsWith(c) : SigOK(SigsWith(c)[j], j)
        /\ CallOK(call[c], current) /\ call[c].pc = "sign"
    BY <1>7, SignedOK DEF SignPayload, KeyInv
  <2>2. CASE ~Fail(c) /\ call[c].i = Len(Recipients)
    <3>1. DOMAIN SigsWith(c) = DOMAIN Recipients
      BY ZenonT(30), <1>t, <2>1, <2>2, SignedFacts, LenProperties, RecipientsFacts
    <3>2. ObjectOK(SigsWith(c))
      BY <2>1, <3>1 DEF ObjectOK
    <3> QED
      BY Zenon, <1>7, <1>t, <1>i, <2>2, <3>2, CallStep DEF SignPayload
  <2>3. CASE ~Fail(c) /\ call[c].i # Len(Recipients)
    <3> DEFINE l == [call[c] EXCEPT !.pc = "public", !.i = @ + 1, !.sigs = SigsWith(c)]
    <3>1. call' = [call EXCEPT ![c] = l] /\ UNCHANGED <<current, returned>>
      BY Zenon, <1>7, <1>t, <2>3 DEF SignPayload, TypeOK
    <3>2. /\ l.pc = "public" /\ l.i = call[c].i + 1 /\ l.began = call[c].began
          /\ l.sigs = SigsWith(c) /\ call[c].i \in Nat
      BY <1>t DEF TypeOK, Local
    <3>3. CallOK(l, current)
      BY <2>1, <3>2 DEF CallOK
    <3> HIDE DEF l
    <3> QED
      BY Zenon, <1>t, <3>1, <3>3, CallStep
  <2> QED
    BY <1>5, <2>2, <2>3
<1>8. CASE UNCHANGED signingVars
  BY Zenon, <1>8, <1>t DEF signingVars, KeyInv
<1> QED
  BY <1>1, <1>2, <1>3, <1>4, <1>6, <1>7, <1>8 DEF SigningNext, Sign

\* Before the first step nothing has been signed.
LEMMA KeyInvInit == SigningInit => KeyInv
<1> SUFFICES ASSUME SigningInit PROVE KeyInv
  OBVIOUS
<1>1. TypeOK
  BY IdleLocal DEF SigningInit, TypeOK, Idle
<1>2. \A c \in Caller : call[c] = Idle
  BY Zenon DEF SigningInit
<1> QED
  BY <1>1, <1>2 DEF SigningInit, KeyInv, CallOK, Idle

\* Sign is all or nothing, for any interleaving of calls, failures and rotations.
THEOREM AllOrNothingAlways == SigningSpec => []AllOrNothing
<1>1. KeyInv => AllOrNothing
  BY Zenon DEF KeyInv, AllOrNothing, ObjectOK, SigOK
<1> QED
  BY <1>1, KeyInvInit, KeyInvStep, PTL DEF SigningSpec

\* The key that an unwrapped OpaqueSigner signs with is the key its header names
\* or one it rotated to during the call.
THEOREM NamedThenSignedAlways == SigningSpec => []NamedThenSigned
<1>1. KeyInv => NamedThenSigned
  BY DEF KeyInv, NamedThenSigned, ObjectOK, SigOK
<1> QED
  BY <1>1, KeyInvInit, KeyInvStep, PTL DEF SigningSpec

(***************************************************************************)
(* Nonces.  A call holds the nonces of its signatures so far and the one   *)
(* that it was given for the next; what two calls hold, and what is in the *)
(* returned objects, is disjoint.                                          *)
(***************************************************************************)
Nonces(sigs) == {sigs[i].nonce : i \in DOMAIN sigs}
Held(l) == Nonces(l.sigs) \cup IF l.pc = "sign" THEN {l.nonce} ELSE {}
Distinct(sigs) == \A i, j \in DOMAIN sigs : sigs[i].nonce = sigs[j].nonce => i = j
HoldsOK(l) == Distinct(l.sigs) /\ (l.pc = "sign" => l.nonce \notin Nonces(l.sigs))

NonceInv ==
    /\ TypeOK
    /\ \A c \in Caller : HoldsOK(call[c]) /\ Held(call[c]) \subseteq 1..issued
    /\ \A c, d \in Caller : c # d => Held(call[c]) \cap Held(call[d]) = {}
    /\ \A o \in returned : Distinct(o) /\ Nonces(o) \subseteq 1..issued
    /\ \A o \in returned, c \in Caller : Nonces(o) \cap Held(call[c]) = {}
    /\ \A o, p \in returned : o # p => Nonces(o) \cap Nonces(p) = {}

\* A goroutine's step that returns no object: what it holds it held before, or it is new.
LEMMA HoldStep ==
    ASSUME NonceInv, TypeOK', NEW c \in Caller, NEW l, HoldsOK(l),
           call' = [call EXCEPT ![c] = l], UNCHANGED returned,
           NEW fresh, 1..issued \subseteq 1..issued', fresh \subseteq 1..issued', fresh \cap 1..issued = {},
           Held(l) \subseteq Held(call[c]) \cup fresh
    PROVE  NonceInv'
<1>1. /\ call'[c] = l /\ \A d \in Caller : d # c => call'[d] = call[d]
      /\ \A d \in Caller : HoldsOK(call'[d])
  BY Zenon DEF NonceInv, TypeOK
<1>2. \A d \in Caller : Held(call[d]) \subseteq 1..issued
  BY Zenon DEF NonceInv
<1>3. \A d \in Caller : Held(call'[d]) \subseteq 1..issued'
  BY Zenon, <1>1, <1>2
<1>4. ASSUME NEW d \in Caller, d # c PROVE Held(l) \cap Held(call[d]) = {}
  <2>1. Held(call[c]) \cap Held(call[d]) = {} /\ fresh \cap Held(call[d]) = {}
    BY Zenon, <1>2, <1>4 DEF NonceInv
  <2> QED
    BY Zenon, <2>1
<1>5. \A d, e \in Caller : d # e => Held(call'[d]) \cap Held(call'[e]) = {}
  <2> SUFFICES ASSUME NEW d \in Caller, NEW e \in Caller, d # e PROVE Held(call'[d]) \cap Held(call'[e]) = {}
    BY Zenon
  <2>1. CASE d = c
    BY Zenon, <1>1, <1>4, <2>1
  <2>2. CASE e = c
    BY Zenon, <1>1, <1>4, <2>2
  <2>3. CASE d # c /\ e # c
    BY Zenon, <1>1, <2>3 DEF NonceInv
  <2> QED
    BY Zenon, <2>1, <2>2, <2>3
<1>6. ASSUME NEW o \in returned
      PROVE  Nonces(o) \subseteq 1..issued' /\ \A d \in Caller : Nonces(o) \cap Held(call'[d]) = {}
  <2>1. Nonces(o) \subseteq 1..issued /\ \A d \in Caller : Nonces(o) \cap Held(call[d]) = {}
    BY Zenon DEF NonceInv
  <2>2. Nonces(o) \cap Held(l) = {}
    BY Zenon, <2>1
  <2> QED
    BY Zenon, <1>1, <2>1, <2>2
<1> QED
  BY Zenon, <1>1, <1>3, <1>5, <1>6 DEF NonceInv

\* Nothing is held between two calls.
LEMMA IdleHolds == HoldsOK(Idle) /\ Held(Idle) = {}
<1>1. Idle.pc = "idle" /\ Idle.sigs = <<>> /\ DOMAIN <<>> = {}
  BY DEF Idle
<1> QED
  BY Zenon, <1>1 DEF HoldsOK, Held, Nonces, Distinct

\* A local state with the signatures of another holds as much, while it has no nonce.
LEMMA SameHolds ==
    ASSUME NEW k, NEW l, l.sigs = k.sigs, HoldsOK(k), l.pc # "sign"
    PROVE  HoldsOK(l) /\ Held(l) \subseteq Held(k)
  BY Zenon DEF HoldsOK, Held

\* The signatures with the one that SignPayload appends hold what the call held.
LEMMA SignedHolds ==
    ASSUME NonceInv, NEW c \in Caller, call[c].pc = "sign"
    PROVE  Distinct(SigsWith(c)) /\ Nonces(SigsWith(c)) = Held(call[c])
<1> DEFINE l == call[c]
           n == Len(l.sigs)
           t == SigsWith(c)
<1>1. TypeOK /\ HoldsOK(l)
  BY Zenon DEF NonceInv
<1>2. /\ DOMAIN t = 1..(n + 1) /\ DOMAIN l.sigs = 1..n /\ n \in Nat
      /\ \A j \in DOMAIN l.sigs : j # n + 1 /\ t[j] = l.sigs[j]
  BY Zenon, <1>1, SignedFacts
<1>3. t[n + 1].nonce = l.nonce
  <2> DEFINE s == Recipients[l.i].signer
             x == [recipient |-> l.i, named |-> l.named, nonce |-> l.nonce,
                   key |-> current[s], began |-> l.began[s]]
  <2>1. t[n + 1] = x
    BY Zenon, <1>1, SignedFacts
  <2>2. x.nonce = l.nonce
    BY Zenon
  <2> HIDE DEF x, t
  <2> QED
    BY Zenon, <2>1, <2>2
<1>4. DOMAIN t = DOMAIN l.sigs \cup {n + 1}
  BY <1>2
<1> HIDE DEF t, n
<1>5. \A j \in DOMAIN l.sigs : t[j].nonce = l.sigs[j].nonce /\ j # n + 1
  BY Zenon, <1>2
<1>6. Nonces(t) = Held(l)
  BY ZenonT(30), <1>3, <1>4, <1>5 DEF Nonces, Held
<1>7. Distinct(t)
  <2>1. \A j \in DOMAIN l.sigs : t[j].nonce # l.nonce
    BY Zenon, <1>1, <1>5 DEF HoldsOK, Nonces
  <2>2. \A i, j \in DOMAIN l.sigs : t[i].nonce = t[j].nonce => i = j
    BY Zenon, <1>1, <1>5 DEF HoldsOK, Distinct
  <2> QED
    BY Zenon, <1>3, <1>4, <2>1, <2>2 DEF Distinct
<1> QED
  BY Zenon, <1>6, <1>7 DEF t

\* Every step keeps nonces apart.
LEMMA NonceInvStep == NonceInv /\ [SigningNext]_signingVars => NonceInv'
<1> SUFFICES ASSUME NonceInv, [SigningNext]_signingVars PROVE NonceInv'
  OBVIOUS
<1>t. TypeOK /\ TypeOK' /\ issued \in Nat
  BY Zenon, TypeOKStep DEF NonceInv, TypeOK
<1>h. ASSUME NEW c \in Caller, NEW l, HoldsOK(l), call' = [call EXCEPT ![c] = l],
             UNCHANGED <<issued, returned>>, Held(l) \subseteq Held(call[c])
      PROVE  NonceInv'
  <2>1. 1..issued \subseteq 1..issued' /\ {} \subseteq 1..issued' /\ {} \cap 1..issued = {}
    BY Zenon, <1>h
  <2>2. Held(l) \subseteq Held(call[c]) \cup {}
    BY Zenon, <1>h
  <2> QED
    BY Zenon, <1>h, <1>t, <2>1, <2>2, HoldStep
<1>1. ASSUME NEW s \in Signer, Rotate(s) PROVE NonceInv'
  BY Zenon, <1>1, <1>t DEF Rotate, NonceInv
<1>2. CASE NewMultiSigner
  BY Zenon, <1>2, <1>t DEF NewMultiSigner, NonceInv
<1>3. ASSUME NEW c \in Caller, Begin(c) PROVE NonceInv'
  <2> DEFINE l == [Idle EXCEPT !.pc = "public", !.i = 1, !.began = current]
  <2>1. l.pc # "sign" /\ l.sigs = Idle.sigs
    BY DEF Idle
  <2>2. call' = [call EXCEPT ![c] = l] /\ UNCHANGED <<issued, returned>>
    BY Zenon, <1>3 DEF Begin
  <2> HIDE DEF l
  <2>3. HoldsOK(l) /\ Held(l) = {}
    BY Zenon, <2>1, SameHolds, IdleHolds
  <2> QED
    BY Zenon, <1>h, <2>2, <2>3
<1>4. ASSUME NEW c \in Caller, GetPublicKey(c) PROVE NonceInv'
  <2> DEFINE r == Recipients[call[c].i]
             n == IF r.wrapped THEN frozen[1][call[c].i] ELSE current[r.signer]
             l == [call[c] EXCEPT !.pc = "nonce", !.named = n]
  <2>1. call' = [call EXCEPT ![c] = l] /\ UNCHANGED <<issued, returned>>
    BY Zenon, <1>4, <1>t DEF GetPublicKey, TypeOK
  <2>2. l.pc # "sign" /\ l.sigs = call[c].sigs
    BY <1>t DEF TypeOK, Local
  <2>3. HoldsOK(call[c])
    BY Zenon DEF NonceInv
  <2> HIDE DEF l
  <2>4. HoldsOK(l) /\ Held(l) \subseteq Held(call[c])
    BY Zenon, <2>2, <2>3, SameHolds
  <2> QED
    BY Zenon, <1>h, <2>1, <2>4
<1>5. ASSUME NEW c \in Caller, Fail(c) PROVE NonceInv'
  <2>1. call' = [call EXCEPT ![c] = Idle] /\ UNCHANGED <<issued, returned>>
    BY Zenon, <1>5 DEF Fail
  <2> QED
    BY Zenon, <1>h, <2>1, IdleHolds
<1>6. ASSUME NEW c \in Caller, Nonce(c), ~Fail(c) PROVE NonceInv'
  <2> DEFINE n == issued + 1
             l == [call[c] EXCEPT !.pc = "sign", !.nonce = n]
  <2>1. call' = [call EXCEPT ![c] = l] /\ issued' = n /\ UNCHANGED returned
    BY Zenon, <1>6, <1>t DEF Nonce, TypeOK
  <2>2. 1..issued \subseteq 1..n /\ {n} \subseteq 1..n /\ {n} \cap 1..issued = {}
    BY <1>t
  <2> HIDE DEF n
  <2>3. l.pc = "sign" /\ l.nonce = n /\ l.sigs = call[c].sigs
    BY <1>t DEF TypeOK, Local
  <2> HIDE DEF l
  <2>4. HoldsOK(call[c]) /\ Held(call[c]) \subseteq 1..issued
    BY Zenon DEF NonceInv
  <2>5. Held(l) \subseteq Held(call[c]) \cup {n}
    BY Zenon, <2>3 DEF Held
  <2>6. HoldsOK(l)
    BY Zenon, <2>2, <2>3, <2>4 DEF HoldsOK, Held
  <2> QED
    BY Zenon, <1>t, <2>1, <2>2, <2>5, <2>6, HoldStep
<1>7. ASSUME NEW c \in Caller, SignPayload(c), ~Fail(c) PROVE NonceInv'
  <2>1. call[c].pc = "sign" /\ UNCHANGED issued
    BY Zenon, <1>7 DEF SignPayload
  <2>2. Distinct(SigsWith(c)) /\ Nonces(SigsWith(c)) = Held(call[c])
    BY Zenon, <2>1, SignedHolds
  <2>3. CASE call[c].i # Len(Recipients)
    <3> DEFINE l == [call[c] EXCEPT !.pc = "public", !.i = @ + 1, !.sigs = SigsWith(c)]
    <3>1. call' = [call EXCEPT ![c] = l] /\ UNCHANGED returned
      BY Zenon, <1>7, <1>t, <2>3 DEF SignPayload, TypeOK
    <3>2. l.pc # "sign" /\ l.sigs = SigsWith(c)
      BY <1>t DEF TypeOK, Local
    <3> HIDE DEF l
    <3>3. HoldsOK(l) /\ Held(l) \subseteq Held(call[c])
      BY Zenon, <2>2, <3>2 DEF HoldsOK, Held
    <3> QED
      BY Zenon, <1>h, <2>1, <3>1, <3>3
  <2>4. CASE call[c].i = Len(Recipients)
    <3> DEFINE o == SigsWith(c)
    <3>1. call' = [call EXCEPT ![c] = Idle] /\ returned' = returned \cup {o}
      BY Zenon, <1>7, <2>4 DEF SignPayload
    <3>2. /\ call'[c] = Idle /\ \A d \in Caller : d # c => call'[d] = call[d]
      BY Zenon, <1>t, <3>1 DEF TypeOK
    <3> HIDE DEF o
    <3>3. /\ Distinct(o) /\ Nonces(o) \subseteq 1..issued
          /\ \A d \in Caller : d # c => Nonces(o) \cap Held(call[d]) = {}
          /\ \A p \in returned : Nonces(o) \cap Nonces(p) = {}
      <4>1. Nonces(o) = Held(call[c]) /\ Distinct(o)
        BY Zenon, <2>2 DEF o
      <4>2. /\ Held(call[c]) \subseteq 1..issued
            /\ \A d \in Caller : d # c => Held(call[c]) \cap Held(call[d]) = {}
            /\ \A p \in returned : Nonces(p) \cap Held(call[c]) = {}
        BY Zenon DEF NonceInv
      <4> QED
        BY Zenon, <4>1, <4>2
    <3>4. \A d \in Caller : HoldsOK(call'[d]) /\ Held(call'[d]) \subseteq 1..issued'
      BY Zenon, <2>1, <3>2, IdleHolds DEF NonceInv
    <3>5. \A d, e \in Caller : d # e => Held(call'[d]) \cap Held(call'[e]) = {}
      BY Zenon, <3>2, IdleHolds DEF NonceInv
    <3>6. \A p \in returned' : /\ Distinct(p) /\ Nonces(p) \subseteq 1..issued'
                               /\ \A d \in Caller : Nonces(p) \cap Held(call'[d]) = {}
      <4>1. ASSUME NEW p \in returned
            PROVE  /\ Distinct(p) /\ Nonces(p) \subseteq 1..issued'
                   /\ \A d \in Caller : Nonces(p) \cap Held(call'[d]) = {}
        BY Zenon, <2>1, <3>2, IdleHolds DEF NonceInv
      <4>2. \A d \in Caller : Nonces(o) \cap Held(call'[d]) = {}
        BY Zenon, <3>2, <3>3, IdleHolds
      <4> QED
        BY Zenon, <2>1, <3>1, <3>3, <4>1, <4>2
    <3>7. \A p, q \in returned' : p # q => Nonces(p) \cap Nonces(q) = {}
      <4>1. \A p, q \in returned : p # q => Nonces(p) \cap Nonces(q) = {}
        BY Zenon DEF NonceInv
      <4>2. \A p \in returned : Nonces(p) \cap Nonces(o) = {}
        BY Zenon, <3>3
      <4> QED
        BY Zenon, <3>1, <3>3, <4>1, <4>2
    <3> QED
      BY Zenon, <1>t, <3>4, <3>5, <3>6, <3>7 DEF NonceInv
  <2> QED
    BY Zenon, <2>3, <2>4
<1>8. CASE UNCHANGED signingVars
  BY Zenon, <1>8, <1>t DEF signingVars, NonceInv
<1> QED
  BY Zenon, <1>1, <1>2, <1>3, <1>4, <1>5, <1>6, <1>7, <1>8 DEF SigningNext, Sign

\* No nonce has been handed out at first.
LEMMA NonceInvInit == SigningInit => NonceInv
<1> SUFFICES ASSUME SigningInit PROVE NonceInv
  OBVIOUS
<1>1. TypeOK
  BY Zenon, KeyInvInit DEF KeyInv
<1>2. returned = {} /\ \A c \in Caller : call[c] = Idle
  BY Zenon DEF SigningInit
<1> QED
  BY Zenon, <1>1, <1>2, IdleHolds DEF NonceInv

\* No nonce is in two signatures that Sign returned, for any interleaving of calls
\* and failures.
THEOREM NonceOnceAlways == SigningSpec => []NonceOnce
<1>1. ASSUME NonceInv PROVE NonceOnce
  <2> SUFFICES ASSUME NEW o \in returned, NEW p \in returned, NEW i \in DOMAIN o, NEW j \in DOMAIN p,
                      o[i].nonce = p[j].nonce
               PROVE  o = p /\ i = j
    BY Zenon DEF NonceOnce
  <2>1. o[i].nonce \in Nonces(o) /\ p[j].nonce \in Nonces(p)
    BY Zenon DEF Nonces
  <2>2. o = p
    BY Zenon, <1>1, <2>1 DEF NonceInv
  <2> QED
    BY Zenon, <1>1, <2>2 DEF NonceInv, Distinct
<1> QED
  BY <1>1, NonceInvInit, NonceInvStep, PTL DEF SigningSpec

(***************************************************************************)
(* JSON Web Keys.  Certificates first.                                     *)
(***************************************************************************)
\* From the assignment to its receiver on, UnmarshalJSON keeps the key and the chain.
LEMMA LateKeeps ==
    ASSUME NEW r, NEW key
    PROVE  /\ Late(r, key).k.key = key
           /\ Late(r, key).k.certs = r.x5c
  BY DEF Late, Jwk

\* An oct key is read only where no certificate has a key.
LEMMA OctAlone ==
    ASSUME NEW r, ToKey(r).kty = "oct"
    PROVE  CertPub(r.x5c) = NoKey
<1>1. /\ \A half, crv, f : Key("EC", half, crv, f).kty = "EC" /\ Key("RSA", half, crv, f).kty = "RSA"
      /\ \A half, crv, f : Key("OKP", half, crv, f).kty = "OKP" /\ NoKey.kty = "nil"
  BY Zenon DEF Key, NoKey
<1>2. CASE r.kty = "EC" /\ EcOK(r)
  BY Zenon, <1>1, <1>2 DEF ToKey
<1>3. CASE r.kty = "RSA" /\ RsaOK(r)
  BY Zenon, <1>1, <1>3 DEF ToKey
<1>4. CASE r.kty = "OKP" /\ r.crv = "Ed25519" /\ "x" \in DOMAIN r.m
  BY Zenon, <1>1, <1>4 DEF ToKey
<1>5. CASE r.kty = "oct" /\ "k" \in DOMAIN r.m /\ CertPub(r.x5c) = NoKey
  BY <1>5
<1> QED
  BY Zenon, <1>1, <1>2, <1>3, <1>4, <1>5 DEF ToKey

\* For every instance, UnmarshalJSON leaves no key beside a certificate that holds
\* another one.
THEOREM CertOfKeyAlways == JwkSpec => CertOfKey
<1>1. ASSUME [JwkNext]_jwkVars, res' \in {"parsed", "unparsed"}, webKey' # webKey
      PROVE  CertMatches(webKey')
  <2>1. Unmarshal
    BY Zenon, <1>1 DEF JwkNext, NewKey, Foreign, Marshal, TakePublic, jwkVars, MarshalOutcome, FromKeyOutcome
  <2>2. CertOK(raw, ToKey(raw)) /\ webKey' = Late(raw, ToKey(raw)).k
    BY <1>1, <2>1 DEF Unmarshal, UnmarshalJSON
  <2> QED
    BY Zenon, <2>2, LateKeeps, OctAlone DEF CertOK, CertMatches
<1> QED
  BY <1>1, PTL DEF JwkSpec, CertOfKey

(***************************************************************************)
(* Numbers and bytes.                                                      *)
(***************************************************************************)
\* A non-empty set of naturals has a least element.
LEMMA LeastNatural ==
    ASSUME NEW T, T \subseteq Nat, T # {}
    PROVE  \E i \in T : \A j \in T : i <= j
<1>1. PICK x \in T : \A y \in T : ~ (<<y, x>> \in OpToRel(<, Nat))
  BY Zenon, NatLessThanWellFounded, WFMin
<1>2. \A y \in T : ~ (y < x)
  BY Zenon, <1>1 DEF OpToRel
<1> QED
  BY <1>2

\* Leading zeros are counted: there is a first byte that is not zero, or none.
LEMMA LeadingZerosAre ==
    ASSUME NEW b \in Seq(Nat)
    PROVE  /\ LeadingZeros(b) \in 0 .. Len(b)
           /\ \A i \in 1 .. LeadingZeros(b) : b[i] = 0
           /\ LeadingZeros(b) < Len(b) => b[LeadingZeros(b) + 1] # 0
<1> DEFINE T == {n \in Nat : n <= Len(b) /\ (n < Len(b) => b[n + 1] # 0)}
<1>l. Len(b) \in Nat
  OBVIOUS
<1>1. PICK n \in T : \A j \in T : n <= j
  <2>1. T \subseteq Nat /\ Len(b) \in T
    BY <1>l
  <2> HIDE DEF T
  <2> QED
    BY Zenon, <2>1, LeastNatural
<1>2. \A i \in 1 .. n : b[i] = 0
  <2> SUFFICES ASSUME NEW i \in 1 .. n, b[i] # 0 PROVE FALSE
    OBVIOUS
  <2>1. i - 1 \in Nat /\ i - 1 < Len(b) /\ (i - 1) + 1 = i
    BY <1>1, <1>l
  <2>2. i - 1 \in T
    BY <2>1
  <2> QED
    BY <1>1, <2>1, <2>2
<1>3. n \in 0 .. Len(b) /\ (n < Len(b) => b[n + 1] # 0)
  BY <1>1, <1>l
<1> QED
  BY Zenon, <1>2, <1>3 DEF LeadingZeros

\* big.Int.SetBytes drops the leading zeros, and all of them.
LEMMA BigIntMinimal ==
    ASSUME NEW b \in Seq(Nat)
    PROVE  BigInt(b) \in Seq(Nat) /\ Minimal(BigInt(b)) /\ Len(BigInt(b)) <= Len(b)
<1> DEFINE z == LeadingZeros(b)
<1>1. z \in 0 .. Len(b) /\ (z < Len(b) => b[z + 1] # 0)
  BY LeadingZerosAre
<1> HIDE DEF z
<1>2. BigInt(b) = SubSeq(b, z + 1, Len(b))
  BY DEF BigInt, z
<1>3. CASE z = Len(b)
  BY <1>2, <1>3 DEF Minimal
<1>4. CASE z < Len(b)
  <2>1. /\ SubSeq(b, z + 1, Len(b)) \in Seq(Nat)
        /\ Len(SubSeq(b, z + 1, Len(b))) = Len(b) - z
        /\ SubSeq(b, z + 1, Len(b))[1] = b[z + 1]
    BY <1>1, <1>4
  <2> QED
    BY <1>1, <1>2, <1>4, <2>1 DEF Minimal
<1> QED
  BY <1>1, <1>3, <1>4

\* A number that fits has the size asked for, and comes back from it.
LEMMA FixedSizeBack ==
    ASSUME NEW b \in Seq(Nat), NEW size \in Nat, Minimal(b), Len(b) <= size
    PROVE  /\ FixedSize(b, size) \in Seq(Nat)
           /\ Len(FixedSize(b, size)) = size
           /\ BigInt(FixedSize(b, size)) = b
<1> DEFINE z == size - Len(b)
           c == FixedSize(b, size)
<1>1. z \in Nat /\ Zeros(z) \in Seq(Nat) /\ Len(Zeros(z)) = z /\ \A i \in 1 .. z : Zeros(z)[i] = 0
  BY DEF Zeros
<1>z. z + Len(b) = size
  OBVIOUS
<1>2. c = Zeros(z) \o b
  BY DEF FixedSize
<1>3. /\ c \in Seq(Nat) /\ Len(c) = size
      /\ \A i \in 1 .. z : c[i] = 0
      /\ \A i \in 1 .. Len(b) : c[z + i] = b[i]
  BY SMTT(20), <1>1, <1>2
<1>4. LeadingZeros(c) = z
  <2>1. /\ LeadingZeros(c) \in 0 .. Len(c) /\ \A i \in 1 .. LeadingZeros(c) : c[i] = 0
        /\ LeadingZeros(c) < Len(c) => c[LeadingZeros(c) + 1] # 0
    BY Zenon, <1>3, LeadingZerosAre
  <2>2. Len(b) > 0 => c[z + 1] # 0
    <3> SUFFICES ASSUME Len(b) > 0 PROVE c[z + 1] # 0
      OBVIOUS
    <3>1. 1 \in 1 .. Len(b) /\ b[1] # 0
      BY DEF Minimal
    <3> QED
      BY <1>3, <3>1
  <2> HIDE DEF c, z
  <2>3. ASSUME LeadingZeros(c) < z PROVE FALSE
    <3>1. LeadingZeros(c) + 1 \in 1 .. z /\ LeadingZeros(c) < Len(c)
      BY <1>1, <1>3, <1>z, <2>1, <2>3
    <3> QED
      BY <1>3, <2>1, <3>1
  <2>4. ASSUME LeadingZeros(c) > z PROVE FALSE
    <3>1. z + 1 \in 1 .. LeadingZeros(c) /\ Len(b) > 0
      BY <1>1, <1>3, <1>z, <2>1, <2>4
    <3> QED
      BY <2>1, <2>2, <3>1
  <2> QED
    BY <1>1, <1>3, <2>1, <2>3, <2>4
<1>5. BigInt(c) = SubSeq(c, z + 1, Len(c))
  BY <1>4 DEF BigInt
<1>6. SubSeq(c, z + 1, Len(c)) = b
  <2> HIDE DEF c, z
  <2>1. \A i \in z + 1 .. Len(c) : c[i] \in Nat
    BY <1>1, <1>3
  <2>2. /\ SubSeq(c, z + 1, Len(c)) \in Seq(Nat)
        /\ Len(SubSeq(c, z + 1, Len(c))) = IF z + 1 <= Len(c) THEN Len(c) - (z + 1) + 1 ELSE 0
        /\ \A i \in 1 .. Len(c) - (z + 1) + 1 : SubSeq(c, z + 1, Len(c))[i] = c[(z + 1) + i - 1]
    BY <1>1, <1>3, <2>1, SubSeqProperties
  <2>3. Len(SubSeq(c, z + 1, Len(c))) = Len(b) /\ Len(c) - (z + 1) + 1 = Len(b)
    BY <1>1, <1>3, <1>z, <2>2
  <2>4. \A i \in 1 .. Len(b) : SubSeq(c, z + 1, Len(c))[i] = b[i]
    <3> TAKE i \in 1 .. Len(b)
    <3>1. (z + 1) + i - 1 = z + i
      BY <1>1
    <3> QED
      BY Zenon, <1>3, <2>2, <2>3, <3>1
  <2> QED
    BY Zenon, <2>2, <2>3, <2>4, SeqEqual
<1> QED
  BY <1>3, <1>5, <1>6

\* A number is what its own bytes say.
LEMMA BigIntBack ==
    ASSUME NEW b \in Seq(Nat), Minimal(b)
    PROVE  BigInt(b) = b
<1>1. FixedSize(b, Len(b)) = b
  BY DEF FixedSize, Zeros
<1> QED
  BY <1>1, FixedSizeBack

\* Copying to an array of EdSize bytes.
LEMMA FitIs ==
    ASSUME NEW b \in Seq(Nat)
    PROVE  Fit(b) \in Seq(Nat) /\ (Len(b) = EdSize => Fit(b) = b)
<1> DEFINE c == b \o Zeros(EdSize)
<1>e. EdSize \in Nat
  BY KeyAssumption
<1>1. Zeros(EdSize) \in Seq(Nat) /\ Len(Zeros(EdSize)) = EdSize
  BY <1>e DEF Zeros
<1>2. /\ c \in Seq(Nat) /\ Len(c) = Len(b) + EdSize
      /\ \A i \in 1 .. Len(b) : c[i] = b[i]
  BY <1>1
<1> HIDE DEF c
<1>3. \A i \in 1 .. EdSize : c[i] \in Nat
  BY <1>e, <1>2
<1>4. /\ SubSeq(c, 1, EdSize) \in Seq(Nat)
      /\ Len(SubSeq(c, 1, EdSize)) = IF 1 <= EdSize THEN EdSize - 1 + 1 ELSE 0
      /\ \A i \in 1 .. EdSize - 1 + 1 : SubSeq(c, 1, EdSize)[i] = c[1 + i - 1]
  BY <1>e, <1>3, SubSeqProperties
<1>5. ASSUME Len(b) = EdSize PROVE SubSeq(c, 1, EdSize) = b
  <2>1. Len(SubSeq(c, 1, EdSize)) = Len(b)
    BY <1>e, <1>4, <1>5
  <2>2. \A i \in 1 .. Len(b) : SubSeq(c, 1, EdSize)[i] = b[i]
    <3> TAKE i \in 1 .. Len(b)
    <3>1. i \in 1 .. EdSize - 1 + 1 /\ 1 + i - 1 = i
      BY <1>e, <1>5
    <3> QED
      BY <1>2, <1>4, <3>1
  <2> QED
    BY <1>4, <2>1, <2>2, SeqEqual
<1> QED
  BY Zenon, <1>4, <1>5 DEF Fit, c

\* The exponent comes back when it fits into an int, and fits when it comes back.
LEMMA ToIntIs ==
    ASSUME NEW b \in Seq(Nat)
    PROVE  /\ ToInt(b) \in Seq(Nat) /\ Minimal(ToInt(b)) /\ Len(ToInt(b)) <= IntBytes
           /\ Minimal(b) /\ Len(b) <= IntBytes => ToInt(b) = b
<1> DEFINE n == IF Len(b) > IntBytes THEN IntBytes ELSE Len(b)
           c == SubSeq(b, Len(b) - n + 1, Len(b))
<1>i. IntBytes \in Nat /\ Len(b) \in Nat
  BY KeyAssumption
<1>1. n \in 0 .. Len(b) /\ n <= IntBytes
  BY <1>i
<1>2. ToInt(b) = BigInt(c)
  BY DEF ToInt
<1>3. Len(b) <= IntBytes => c = SubSeq(b, 1, Len(b))
  <2>1. Len(b) <= IntBytes => Len(b) - n + 1 = 1
    BY <1>i
  <2> HIDE DEF n
  <2> QED
    BY <2>1
<1>4. Len(b) <= IntBytes => c = b
  BY Zenon, <1>3, SubSeqFull
<1>n. n \in Int /\ (Len(b) - n) + 1 \in Int /\ \A i \in Len(b) - n + 1 .. Len(b) : b[i] \in Nat
  BY <1>i, <1>1
<1> HIDE DEF n
<1>5. /\ c \in Seq(Nat)
      /\ Len(c) = IF Len(b) - n + 1 <= Len(b) THEN Len(b) - (Len(b) - n + 1) + 1 ELSE 0
  BY <1>i, <1>n, SubSeqProperties
<1>6. Len(c) <= IntBytes
  BY <1>i, <1>1, <1>5
<1> HIDE DEF c
<1>7. BigInt(c) \in Seq(Nat) /\ Minimal(BigInt(c)) /\ Len(BigInt(c)) <= Len(c)
  BY <1>5, BigIntMinimal
<1>8. Len(BigInt(c)) <= IntBytes
  BY <1>i, <1>5, <1>6, <1>7
<1> QED
  BY <1>2, <1>4, <1>7, <1>8, BigIntBack

(***************************************************************************)
(* The keys a caller can come to have.                                     *)
(***************************************************************************)
\* The conditions on a key, by its parts.
LEMMA KeyParts ==
    ASSUME NEW kty, NEW half, NEW crv, NEW f
    PROVE  /\ Key(kty, half, crv, f).kty = kty /\ Key(kty, half, crv, f).half = half
           /\ Key(kty, half, crv, f).crv = crv /\ Key(kty, half, crv, f).f = f
           /\ Private(Key(kty, half, crv, f)) <=> half = "private"
           /\ Key(kty, half, crv, f) = Key(Key(kty, half, crv, f).kty, Key(kty, half, crv, f).half,
                                           Key(kty, half, crv, f).crv, Key(kty, half, crv, f).f)
  BY DEF Key, Private

\* A key without members.
LEMMA NoMembersAre == NoFields \in [DOMAIN NoFields -> Seq(Nat)] /\ DOMAIN NoFields = {}
  BY DEF NoFields

\* The zero JSONWebKey holds no key.
LEMMA NoKeyIs == IsKey(NoKey) /\ NoKey.kty = "nil"
<1>1. /\ NoKey.kty = "nil" /\ NoKey.half = "public" /\ NoKey.f = NoFields
      /\ NoKey = Key(NoKey.kty, NoKey.half, NoKey.crv, NoKey.f)
  BY KeyParts DEF NoKey
<1> QED
  BY Zenon, <1>1, NoMembersAre DEF IsKey

\* Choosing members.
LEMMA OnlyIs ==
    ASSUME NEW f, NEW names
    PROVE  /\ DOMAIN Only(f, names) = DOMAIN f \cap names
           /\ \A n \in DOMAIN f \cap names : Only(f, names)[n] = f[n]
           /\ Only(f, names) = [n \in DOMAIN Only(f, names) |-> Only(f, names)[n]]
  BY Zenon DEF Only

\* The numbers of a JSON text.
LEMMA NumbersAre ==
    ASSUME NEW m, m \in [DOMAIN m -> Seq(Nat)], NEW names
    PROVE  LET f == Only(Numbers(m), names)
           IN  /\ DOMAIN f = DOMAIN m \cap names
               /\ f \in [DOMAIN f -> Seq(Nat)]
               /\ \A n \in DOMAIN f : f[n] = BigInt(m[n]) /\ Minimal(f[n])
<1>1. DOMAIN Numbers(m) = DOMAIN m /\ \A n \in DOMAIN m : Numbers(m)[n] = BigInt(m[n])
  BY DEF Numbers
<1>2. \A n \in DOMAIN m : BigInt(m[n]) \in Seq(Nat) /\ Minimal(BigInt(m[n]))
  BY BigIntMinimal
<1> DEFINE f == Only(Numbers(m), names)
<1>3. /\ DOMAIN f = DOMAIN m \cap names /\ f = [n \in DOMAIN f |-> f[n]]
      /\ \A n \in DOMAIN m \cap names : f[n] = BigInt(m[n])
  BY <1>1 DEF Only
<1> HIDE DEF f
<1>4. \A n \in DOMAIN f : f[n] = BigInt(m[n]) /\ Minimal(f[n]) /\ f[n] \in Seq(Nat)
  BY <1>2, <1>3
<1>5. f \in [DOMAIN f -> Seq(Nat)]
  BY <1>3, <1>4
<1> QED
  BY <1>3, <1>4, <1>5 DEF f

\* The members of an RSA key in JSON.
LEMMA RsaKeyIs ==
    ASSUME NEW r, r.m \in [DOMAIN r.m -> Seq(Nat)], "e" \in DOMAIN r.m
    PROVE  LET f == RsaKey(r)
           IN  /\ DOMAIN f = DOMAIN r.m \cap RsaMembers(r)
               /\ f \in [DOMAIN f -> Seq(Nat)]
               /\ \A n \in DOMAIN f : Minimal(f[n])
               /\ \A n \in DOMAIN f \ {"e"} : f[n] = BigInt(r.m[n])
               /\ f["e"] = ToInt(r.m["e"])
<1> DEFINE g == Only(Numbers(r.m), RsaMembers(r))
           f == RsaKey(r)
<1>1. /\ DOMAIN g = DOMAIN r.m \cap RsaMembers(r) /\ g \in [DOMAIN g -> Seq(Nat)]
      /\ \A n \in DOMAIN g : g[n] = BigInt(r.m[n]) /\ Minimal(g[n])
  BY Zenon, NumbersAre
<1>2. f = [g EXCEPT !["e"] = ToInt(r.m["e"])]
  BY DEF RsaKey
<1>3. "e" \in RsaMembers(r)
  BY Zenon DEF RsaMembers
<1>4. ToInt(r.m["e"]) \in Seq(Nat) /\ Minimal(ToInt(r.m["e"]))
  BY ToIntIs
<1> HIDE DEF g, f
<1>5. /\ DOMAIN f = DOMAIN g /\ f["e"] = ToInt(r.m["e"])
      /\ f \in [DOMAIN f -> Seq(Nat)]
      /\ \A n \in DOMAIN f \ {"e"} : f[n] = g[n]
  BY Zenon, <1>1, <1>2, <1>3, <1>4
<1> QED
  BY Zenon, <1>1, <1>4, <1>5 DEF f

\* UnmarshalJSON builds keys as the Go types allow.
LEMMA ToKeyIs ==
    ASSUME NEW r, IsRaw(r)
    PROVE  IsKey(ToKey(r))
<1>m. r.m \in [DOMAIN r.m -> Seq(Nat)]
  BY DEF IsRaw
<1>h. HalfOf(r) \in {"public", "private"} /\ (HalfOf(r) = "private" <=> "d" \in DOMAIN r.m)
  BY Zenon DEF HalfOf
<1>1. CASE r.kty = "EC" /\ EcOK(r)
  <2> DEFINE f == Only(Numbers(r.m), {"x", "y", "d"})
  <2>1. ToKey(r) = Key("EC", HalfOf(r), "P-256", f)
    BY <1>1 DEF ToKey
  <2>2. /\ DOMAIN f = DOMAIN r.m \cap {"x", "y", "d"} /\ f \in [DOMAIN f -> Seq(Nat)]
        /\ \A n \in DOMAIN f : Minimal(f[n])
    BY Zenon, <1>m, NumbersAre
  <2> HIDE DEF f
  <2> QED
    BY <1>h, <2>1, <2>2, KeyParts DEF IsKey
<1>2. CASE r.kty = "RSA" /\ RsaOK(r)
  <2>e. "e" \in DOMAIN r.m
    BY <1>2 DEF RsaOK
  <2> DEFINE f == RsaKey(r)
  <2>1. ToKey(r) = Key("RSA", HalfOf(r), "none", f)
    BY <1>2 DEF ToKey
  <2>2. /\ DOMAIN f = DOMAIN r.m \cap RsaMembers(r) /\ f \in [DOMAIN f -> Seq(Nat)]
        /\ \A n \in DOMAIN f : Minimal(f[n])
        /\ f["e"] = ToInt(r.m["e"])
    BY Zenon, <1>m, <2>e, RsaKeyIs
  <2>3. Len(f["e"]) <= IntBytes
    BY <1>m, <2>2, <2>e, ToIntIs
  <2> HIDE DEF f
  <2>4. /\ "e" \in DOMAIN f
        /\ DOMAIN f \subseteq {"n", "e"} \cup (IF "d" \in DOMAIN r.m THEN {"d", "p", "q", "r", "dp", "dq", "qi"} ELSE {})
    BY Zenon, <2>2, <2>e DEF RsaMembers
  <2> QED
    BY <1>h, <2>1, <2>2, <2>3, <2>4, KeyParts DEF IsKey
<1>3. CASE r.kty = "oct" /\ "k" \in DOMAIN r.m /\ CertPub(r.x5c) = NoKey
  <2> DEFINE f == IF r.m.k = <<>> THEN NoFields ELSE Only(r.m, {"k"})
  <2>1. ToKey(r) = Key("oct", "public", "none", f)
    BY <1>3 DEF ToKey
  <2>2. DOMAIN f \subseteq {"k"} /\ f \in [DOMAIN f -> Seq(Nat)]
    BY Zenon, <1>m, NoMembersAre DEF Only
  <2> HIDE DEF f
  <2> QED
    BY <2>1, <2>2, KeyParts DEF IsKey
<1>4. CASE r.kty = "OKP" /\ r.crv = "Ed25519" /\ "x" \in DOMAIN r.m
  <2> DEFINE f == [n \in DOMAIN r.m \cap {"x", "d"} |-> Fit(r.m[n])]
  <2>1. ToKey(r) = Key("OKP", HalfOf(r), "Ed25519", f)
    BY Zenon, <1>4 DEF ToKey
  <2>2. DOMAIN f = DOMAIN r.m \cap {"x", "d"} /\ f \in [DOMAIN f -> Seq(Nat)]
    BY <1>m, FitIs
  <2> HIDE DEF f
  <2> QED
    BY <1>4, <1>h, <2>1, <2>2, KeyParts DEF IsKey
<1>5. CASE ToKey(r) = NoKey
  BY Zenon, <1>5, NoKeyIs
<1> QED
  BY Zenon, <1>1, <1>2, <1>3, <1>4, <1>5 DEF ToKey

(***************************************************************************)
(* The public half.                                                        *)
(***************************************************************************)
Asymmetric == {"EC", "RSA", "OKP"}

\* A JSONWebKey is its parts.
LEMMA JwkParts ==
    ASSUME NEW key, NEW kid, NEW certs, NEW url, NEW x5t
    PROVE  LET j == Jwk(key, kid, certs, url, x5t)
           IN  /\ j.key = key /\ j.kid = kid /\ j.certs = certs /\ j.url = url /\ j.x5t = x5t
               /\ j = Jwk(j.key, j.kid, j.certs, j.url, j.x5t)
  BY DEF Jwk

\* The public half of a key is a key.
LEMMA PublicKeyTyped ==
    ASSUME NEW key, IsKey(key), key.kty \in Asymmetric
    PROVE  IsKey(PublicKey(key))
<1> DEFINE f == Only(key.f, PublicMembers(key.kty))
           p == PublicKey(key)
<1>1. /\ p.kty = key.kty /\ p.half = "public" /\ p.crv = key.crv /\ p.f = f /\ ~Private(p)
      /\ p = Key(p.kty, p.half, p.crv, p.f)
  BY Zenon DEF PublicKey, Private, Key
<1>2. /\ DOMAIN f = DOMAIN key.f \cap PublicMembers(key.kty)
      /\ \A n \in DOMAIN f : f[n] = key.f[n]
      /\ f = [n \in DOMAIN f |-> f[n]]
  BY Zenon DEF Only
<1>3. f \in [DOMAIN f -> Seq(Nat)]
  BY Zenon, <1>2 DEF IsKey
<1> HIDE DEF f, p
<1>4. CASE key.kty = "EC"
  <2>1. DOMAIN f \subseteq {"x", "y"} /\ \A n \in DOMAIN f : Minimal(f[n])
    BY Zenon, <1>2, <1>4 DEF IsKey, PublicMembers
  <2> QED
    BY <1>1, <1>3, <1>4, <2>1 DEF IsKey, p
<1>5. CASE key.kty = "RSA"
  <2>1. DOMAIN f \subseteq {"n", "e"} /\ "e" \in DOMAIN f /\ \A n \in DOMAIN f : Minimal(f[n])
    BY <1>2, <1>5 DEF IsKey, PublicMembers
  <2>2. key.crv = "none" /\ Len(f["e"]) <= IntBytes
    BY Zenon, <1>2, <1>5, <2>1 DEF IsKey
  <2> QED
    BY <1>1, <1>3, <1>5, <2>1, <2>2 DEF IsKey, p
<1>6. CASE key.kty = "OKP"
  <2>1. DOMAIN f = {"x"} /\ key.crv = "Ed25519"
    BY <1>2, <1>6 DEF IsKey, PublicMembers
  <2> QED
    BY <1>1, <1>3, <1>6, <2>1 DEF IsKey, p
<1> QED
  BY ZenonT(30), <1>4, <1>5, <1>6 DEF Asymmetric

\* The zero JSONWebKey.
LEMMA NoJwkIs == IsJwk(NoJwk) /\ NoJwk.key = NoKey
<1>1. /\ NoJwk.key = NoKey /\ NoJwk.certs = <<>> /\ NoJwk.url = "none" /\ NoJwk.x5t = NoPrints
      /\ NoJwk = Jwk(NoJwk.key, NoJwk.kid, NoJwk.certs, NoJwk.url, NoJwk.x5t)
  BY JwkParts DEF NoJwk
<1> QED
  BY Zenon, <1>1, NoKeyIs DEF IsJwk, IsCerts, NoPrints

\* What Public returns.
LEMMA PublicTyped ==
    ASSUME NEW jwk, IsJwk(jwk)
    PROVE  /\ IsJwk(Public(jwk))
           /\ jwk.key.kty \in Asymmetric =>
                 Public(jwk).key = IF Private(jwk.key) THEN PublicKey(jwk.key) ELSE jwk.key
<1>1. CASE jwk.key.kty \in Asymmetric /\ ~Private(jwk.key)
  BY Zenon, <1>1 DEF Public, IsPublic, Asymmetric
<1>2. CASE jwk.key.kty \in Asymmetric /\ Private(jwk.key)
  <2>1. Public(jwk) = [jwk EXCEPT !.key = PublicKey(jwk.key)]
    BY <1>2 DEF Public, IsPublic, Asymmetric
  <2>2. Public(jwk) = Jwk(PublicKey(jwk.key), jwk.kid, jwk.certs, jwk.url, jwk.x5t)
    BY <2>1 DEF IsJwk, Jwk
  <2>3. IsKey(PublicKey(jwk.key))
    BY Zenon, <1>2, PublicKeyTyped DEF IsJwk
  <2> DEFINE p == Public(jwk)
  <2>4. /\ p.key = PublicKey(jwk.key) /\ p.certs = jwk.certs /\ p.url = jwk.url /\ p.x5t = jwk.x5t
        /\ p = Jwk(p.key, p.kid, p.certs, p.url, p.x5t)
    BY <2>2, JwkParts
  <2> HIDE DEF p
  <2> QED
    BY <1>2, <2>3, <2>4 DEF IsJwk, p
<1>3. CASE jwk.key.kty \notin Asymmetric
  <2>1. Public(jwk) = NoJwk
    BY <1>3 DEF Public, IsPublic, Asymmetric
  <2> QED
    BY <1>3, <2>1, NoJwkIs
<1> QED
  BY <1>1, <1>2, <1>3

\* Two functions take the public half of a key, and agree.
LEMMA PublicAgrees ==
    ASSUME NEW key, IsKey(key), Valid(key), key.kty \in Asymmetric,
           NEW p, p = IF Private(key) THEN PublicKey(key) ELSE key
    PROVE  /\ Valid(p) /\ IsPublic(p) /\ DOMAIN p.f = PublicMembers(p.kty)
           /\ Thumbprint(p) = Thumbprint(key)
<1>1. /\ p.kty = key.kty /\ p.crv = key.crv /\ ~Private(p)
      /\ Private(key) => p.f = Only(key.f, PublicMembers(key.kty))
      /\ ~Private(key) => p.f = key.f
  BY KeyParts DEF PublicKey
<1>o. /\ Private(key) => DOMAIN p.f = DOMAIN key.f \cap PublicMembers(key.kty)
      /\ \A n \in DOMAIN p.f : n \in DOMAIN key.f /\ p.f[n] = key.f[n]
  <2>1. CASE Private(key)
    <3> DEFINE f == Only(key.f, PublicMembers(key.kty))
    <3>1. /\ DOMAIN f = DOMAIN key.f \cap PublicMembers(key.kty)
          /\ \A n \in DOMAIN f : n \in DOMAIN key.f /\ f[n] = key.f[n]
      BY DEF Only
    <3> HIDE DEF f
    <3> QED
      BY Zenon, <1>1, <2>1, <3>1 DEF f
  <2>2. CASE ~Private(key)
    BY <1>1, <2>2
  <2> QED
    BY Zenon, <2>1, <2>2
<1>2. DOMAIN p.f = PublicMembers(p.kty)
  <2>1. CASE key.kty = "EC"
    BY Zenon, <1>1, <1>o, <2>1 DEF IsKey, Valid, PublicMembers
  <2>2. CASE key.kty = "RSA"
    BY <1>1, <1>o, <2>2 DEF IsKey, Valid, PublicMembers
  <2>3. CASE key.kty = "OKP"
    BY Zenon, <1>1, <1>o, <2>3 DEF IsKey, Valid, PublicMembers
  <2> QED
    BY <2>1, <2>2, <2>3 DEF Asymmetric
<1>3. \A n \in DOMAIN p.f : n \in DOMAIN key.f /\ p.f[n] = key.f[n]
  BY <1>o
<1>4. IsPublic(p)
  BY <1>1 DEF IsPublic, Asymmetric
<1>5. CASE key.kty = "EC"
  <2>1. DOMAIN p.f = {"x", "y"} /\ {"x", "y"} \subseteq DOMAIN key.f /\ key.crv # "none"
    BY Zenon, <1>1, <1>2, <1>5 DEF Valid, PublicMembers
  <2>2. p.f["x"] = key.f["x"] /\ p.f["y"] = key.f["y"]
    BY <1>3, <2>1
  <2>3. Valid(p)
    BY <1>1, <1>5, <2>1 DEF Valid
  <2>4. Thumbprint(p) = Thumbprint(key)
    BY Zenon, <1>1, <1>5, <2>1, <2>2 DEF Thumbprint, EcOf
  <2> QED
    BY <1>2, <1>4, <2>3, <2>4
<1>6. CASE key.kty = "RSA"
  <2>1. DOMAIN p.f = {"n", "e"} /\ "n" \in DOMAIN key.f /\ key.f["e"] # <<>>
    BY Zenon, <1>1, <1>2, <1>6 DEF Valid, PublicMembers
  <2>2. p.f["n"] = key.f["n"] /\ p.f["e"] = key.f["e"]
    BY <1>3, <2>1
  <2>3. Valid(p)
    BY <1>1, <1>6, <2>1, <2>2 DEF Valid
  <2>4. Thumbprint(p) = Thumbprint(key)
    BY Zenon, <1>1, <1>6, <2>1, <2>2 DEF Thumbprint
  <2> QED
    BY <1>2, <1>4, <2>3, <2>4
<1>7. CASE key.kty = "OKP"
  <2>1. DOMAIN p.f = {"x"} /\ \A n \in DOMAIN key.f : Len(key.f[n]) = EdSize
    BY Zenon, <1>1, <1>2, <1>7 DEF Valid, PublicMembers
  <2>2. p.f["x"] = key.f["x"]
    BY <1>3, <2>1
  <2>3. Valid(p)
    BY Zenon, <1>1, <1>3, <1>7, <2>1 DEF Valid
  <2>4. ~TooShort(p) /\ ~TooShort(key)
    <3>1. Private(key) => "d" \in DOMAIN key.f
      BY Zenon, <1>7 DEF IsKey
    <3>2. EdSize \in Nat
      BY KeyAssumption
    <3> QED
      BY SMTT(20), <1>1, <2>1, <3>1, <3>2 DEF TooShort
  <2>5. Thumbprint(p) = Thumbprint(key)
    BY Zenon, <1>1, <1>7, <2>2, <2>4 DEF Thumbprint, EdThumbprint
  <2> QED
    BY <1>2, <1>4, <2>3, <2>5
<1> QED
  BY Zenon, <1>5, <1>6, <1>7 DEF Asymmetric

(***************************************************************************)
(* Through JSON and back.                                                  *)
(***************************************************************************)
\* The members of a key do not change their meaning on the way.
LEMMA EcBack ==
    ASSUME NEW j, IsJwk(j), Sound(j), j.key.kty = "EC", FromKeyOutcome(j.key) = "ok",
           NEW r, r.kty = "EC", r.crv = j.key.crv, r.m = FromKey(j.key)
    PROVE  ToKey(r) = j.key
<1> DEFINE f == j.key.f
<1>1. /\ IsKey(j.key) /\ j.key = Key("EC", j.key.half, j.key.crv, f)
      /\ f \in [DOMAIN f -> Seq(Nat)] /\ \A n \in DOMAIN f : Minimal(f[n])
      /\ DOMAIN f \subseteq {"x", "y", "d"}
      /\ j.key.half \in {"public", "private"} /\ (j.key.half # "private" => "d" \notin DOMAIN f)
  BY Zenon DEF IsJwk, IsKey, Private
<1>2. /\ {"x", "y"} \subseteq DOMAIN f /\ j.key.crv = "P-256"
      /\ ~(Len(f["x"]) > CoordSize) /\ ~(Len(f["y"]) > CoordSize)
      /\ j.key.half = "private" => "d" \in DOMAIN f /\ ~(Len(f["d"]) > CoordSize)
  BY DEF FromKeyOutcome, Private
<1>3. r.m = [n \in DOMAIN f |-> FixedSize(f[n], CoordSize)]
  BY DEF FromKey
<1>4. <<f["x"], f["y"]>> \in OnCurve
  BY Zenon DEF Sound
<1>5. CoordSize \in Nat
  BY Zenon, KeyAssumption
<1> HIDE DEF f
<1>6. \A n \in DOMAIN f : Len(f[n]) <= CoordSize
  <2> TAKE n \in DOMAIN f
  <2>1. Len(f[n]) \in Nat /\ n \in {"x", "y", "d"}
    BY <1>1
  <2>2. ~(Len(f[n]) > CoordSize)
    BY <1>1, <1>2, <2>1
  <2> QED
    BY <1>5, <2>1, <2>2
<1>7. \A n \in DOMAIN f : /\ r.m[n] \in Seq(Nat) /\ Len(r.m[n]) = CoordSize
                          /\ BigInt(r.m[n]) = f[n]
  <2> TAKE n \in DOMAIN f
  <2>1. r.m[n] = FixedSize(f[n], CoordSize)
    BY Zenon, <1>3
  <2>2. f[n] \in Seq(Nat) /\ Minimal(f[n]) /\ Len(f[n]) <= CoordSize
    BY Zenon, <1>1, <1>6
  <2> QED
    BY Zenon, <1>5, <2>1, <2>2, FixedSizeBack
<1>8. DOMAIN r.m = DOMAIN f
  BY <1>3
<1>9. EcOK(r)
  BY Zenon, <1>2, <1>4, <1>7, <1>8 DEF EcOK
<1>10. Only(Numbers(r.m), {"x", "y", "d"}) = f
  <2> DEFINE g == Only(Numbers(r.m), {"x", "y", "d"})
  <2>1. g = [n \in DOMAIN f |-> BigInt(r.m[n])]
    <3>1. DOMAIN r.m \cap {"x", "y", "d"} = DOMAIN f
      BY Zenon, <1>1, <1>8
    <3> QED
      BY <3>1 DEF Only, Numbers
  <2> HIDE DEF g
  <2>2. g = f
    BY Zenon, <1>1, <1>7, <2>1
  <2> QED
    BY Zenon, <2>2 DEF g
<1>11. HalfOf(r) = j.key.half
  BY <1>1, <1>2, <1>8 DEF HalfOf
<1>12. ToKey(r) = Key("EC", HalfOf(r), "P-256", Only(Numbers(r.m), {"x", "y", "d"}))
  BY <1>9 DEF ToKey
<1> QED
  BY SMTT(20), <1>1, <1>2, <1>10, <1>11, <1>12

LEMMA RsaBack ==
    ASSUME NEW j, IsJwk(j), Sound(j), j.key.kty = "RSA", FromKeyOutcome(j.key) = "ok",
           NEW r, r.kty = "RSA", r.m = FromKey(j.key)
    PROVE  ToKey(r) = j.key
<1> DEFINE f == j.key.f
<1>1. /\ IsKey(j.key) /\ j.key = Key("RSA", j.key.half, "none", f)
      /\ f \in [DOMAIN f -> Seq(Nat)] /\ \A n \in DOMAIN f : Minimal(f[n])
      /\ "e" \in DOMAIN f /\ Len(f["e"]) <= IntBytes
      /\ j.key.half \in {"public", "private"}
      /\ j.key.half = "private" => DOMAIN f \subseteq {"n", "e", "d", "p", "q", "r", "dp", "dq", "qi"}
      /\ j.key.half # "private" => DOMAIN f \subseteq {"n", "e"}
  BY Zenon DEF IsJwk, IsKey, Private
<1>2. /\ j.key.half = "private" => "r" \notin DOMAIN f /\ {"p", "q"} \subseteq DOMAIN f
      /\ "n" \in DOMAIN f
  BY DEF FromKeyOutcome, Private
<1>3. /\ f["e"] # <<>>
      /\ j.key.half = "private" => "d" \in DOMAIN f /\ Validate(f)
  BY DEF Sound, Valid, Private
<1>4. r.m = f
  <2>1. r.m = [n \in DOMAIN f \ (IF f["e"] = <<>> THEN {"e"} ELSE {}) |-> f[n]]
    BY SMTT(20) DEF FromKey
  <2> HIDE DEF f
  <2>2. DOMAIN f \ (IF f["e"] = <<>> THEN {"e"} ELSE {}) = DOMAIN f
    BY <1>3
  <2> QED
    BY <1>1, <2>1, <2>2
<1> HIDE DEF f
<1>5. DOMAIN f \cap RsaMembers(r) = DOMAIN f
  BY Zenon, <1>1, <1>2, <1>3, <1>4 DEF RsaMembers
<1>6. RsaKey(r) = f
  <2> DEFINE g == RsaKey(r)
  <2>1. /\ DOMAIN g = DOMAIN f /\ g \in [DOMAIN g -> Seq(Nat)]
        /\ \A n \in DOMAIN f \ {"e"} : g[n] = BigInt(f[n])
        /\ g["e"] = ToInt(f["e"])
    BY Zenon, <1>1, <1>4, <1>5, RsaKeyIs
  <2>2. \A n \in DOMAIN f : BigInt(f[n]) = f[n]
    BY <1>1, BigIntBack
  <2>3. ToInt(f["e"]) = f["e"]
    BY Zenon, <1>1, ToIntIs
  <2> HIDE DEF g
  <2>4. g = f
    BY SMTT(20), <1>1, <2>1, <2>2, <2>3
  <2> QED
    BY <2>4 DEF g
<1>7. RsaOK(r)
  <2>1. {"n", "e"} \subseteq DOMAIN r.m
    BY <1>1, <1>2, <1>4
  <2>2. "d" \in DOMAIN r.m => {"n", "e", "p", "q"} \subseteq DOMAIN r.m /\ Validate(f)
    BY Zenon, <1>1, <1>2, <1>3, <1>4
  <2> QED
    BY Zenon, <1>6, <2>1, <2>2 DEF RsaOK
<1>8. HalfOf(r) = j.key.half
  BY Zenon, <1>1, <1>3, <1>4 DEF HalfOf
<1>9. ToKey(r) = Key("RSA", HalfOf(r), "none", RsaKey(r))
  BY <1>7 DEF ToKey
<1> QED
  BY SMTT(20), <1>1, <1>6, <1>8, <1>9

LEMMA OkpBack ==
    ASSUME NEW j, IsJwk(j), Sound(j), j.key.kty = "OKP",
           NEW r, r.kty = "OKP", r.crv = j.key.crv, r.m = FromKey(j.key)
    PROVE  ToKey(r) = j.key
<1> DEFINE f == j.key.f
<1>1. /\ j.key = Key("OKP", j.key.half, "Ed25519", f) /\ j.key.crv = "Ed25519"
      /\ f \in [DOMAIN f -> Seq(Nat)]
      /\ j.key.half \in {"public", "private"}
      /\ j.key.half = "private" => DOMAIN f = {"x", "d"}
      /\ j.key.half # "private" => DOMAIN f = {"x"}
  BY DEF IsJwk, IsKey, Private
<1>2. \A n \in DOMAIN f : Len(f[n]) = EdSize
  BY DEF Sound, Valid
<1>3. r.m = f
  BY DEF FromKey
<1> HIDE DEF f
<1>4. ToKey(r) = Key("OKP", HalfOf(r), "Ed25519", [n \in DOMAIN r.m \cap {"x", "d"} |-> Fit(r.m[n])])
  BY <1>1, <1>3 DEF ToKey
<1>5. HalfOf(r) = j.key.half
  BY Zenon, <1>1, <1>3 DEF HalfOf
<1>6. \A n \in DOMAIN f : Fit(f[n]) = f[n]
  BY <1>1, <1>2, FitIs
<1>7. DOMAIN f \cap {"x", "d"} = DOMAIN f
  BY Zenon, <1>1
<1>8. [n \in DOMAIN r.m \cap {"x", "d"} |-> Fit(r.m[n])] = f
  BY Zenon, <1>1, <1>3, <1>6, <1>7
<1> QED
  BY Zenon, <1>1, <1>4, <1>5, <1>8

LEMMA OctBack ==
    ASSUME NEW j, IsJwk(j), Sound(j), j.key.kty = "oct",
           NEW r, r.kty = "oct", r.m = FromKey(j.key), r.x5c = j.certs
    PROVE  ToKey(r) = j.key
<1> DEFINE f == j.key.f
<1>1. /\ IsKey(j.key) /\ j.key = Key("oct", "public", "none", f)
      /\ f \in [DOMAIN f -> Seq(Nat)] /\ DOMAIN f \subseteq {"k"}
  BY Zenon DEF IsJwk, IsKey, Private
<1>2. "k" \in DOMAIN f /\ f["k"] # <<>> /\ CertMatches(j)
  BY DEF Sound
<1>3. r.m = f
  BY SMTT(20) DEF FromKey
<1>4. CertPub(r.x5c) = NoKey
  <2> SUFFICES ASSUME CertPub(j.certs) # NoKey PROVE FALSE
    BY Zenon
  <2>1. CertKey[j.certs[1]] = PublicKey(j.key) /\ j.certs[1] \in DOMAIN CertKey
    BY Zenon, <1>2 DEF CertMatches, CertPub, IsJwk, IsCerts
  <2>2. PublicKey(j.key).kty = "oct"
    BY <1>1, KeyParts DEF PublicKey
  <2> QED
    BY Zenon, <2>1, <2>2, KeyAssumption
<1> HIDE DEF f
<1>5. ToKey(r) = Key("oct", "public", "none", IF f["k"] = <<>> THEN NoFields ELSE Only(r.m, {"k"}))
  BY <1>2, <1>3, <1>4 DEF ToKey
<1>6. Only(r.m, {"k"}) = f
  <2>1. DOMAIN f \cap {"k"} = DOMAIN f
    BY Zenon, <1>1
  <2> QED
    BY Zenon, <1>1, <1>3, <2>1 DEF Only
<1> QED
  BY SMTT(20), <1>1, <1>2, <1>5, <1>6

\* UnmarshalJSON undoes MarshalJSON, for a key that is what it claims to be.
LEMMA UnmarshalBack ==
    ASSUME NEW j, IsJwk(j), Sound(j), MarshalOutcome(j) = "ok", NEW old
    PROVE  /\ UnmarshalJSON(RawOf(j), old).k = j
           /\ UnmarshalJSON(RawOf(j), old).res = "ok"
<1> DEFINE r == RawOf(j)
<1>1. /\ r.kty = j.key.kty /\ r.crv = j.key.crv /\ r.m = FromKey(j.key) /\ r.kid = j.kid
      /\ r.x5c = j.certs /\ r.x5u = j.url /\ \A t \in Prints : r.x5t[t] = RawForm(j.x5t[t])
  BY DEF RawOf
<1> HIDE DEF r
<1>2. FromKeyOutcome(j.key) = "ok" /\ ~PrintsFail(j.x5t, j.certs)
  BY DEF MarshalOutcome
<1>3. j.key.kty \in {"EC", "RSA", "OKP", "oct"}
  BY Zenon DEF Sound, Valid
<1>4. ToKey(r) = j.key
  BY Zenon, <1>1, <1>2, <1>3, EcBack, RsaBack, OkpBack, OctBack
<1>5. j.key # NoKey
  BY <1>3, NoKeyIs
<1>6. CertOK(r, j.key)
  BY <1>1 DEF CertOK, Sound, CertMatches
<1>7. UnmarshalJSON(r, old) = Late(r, j.key)
  BY Zenon, <1>4, <1>5, <1>6 DEF UnmarshalJSON
<1>8. /\ \A t \in Prints : r.x5t[t].form \in {"none", "bytes"}
      /\ \A t \in Prints : Decoded(r.x5t[t]) = j.x5t[t]
  <2>1. \A v : RawForm(v).form \in {"none", "bytes"} /\ Decoded(RawForm(v)) = v
    BY Zenon DEF RawForm, Decoded
  <2> QED
    BY <1>1, <2>1
<1>9. [t \in Prints |-> Decoded(r.x5t[t])] = j.x5t
  BY Zenon, <1>8 DEF IsJwk
<1>10. r.x5u # "bad" /\ "x5t" \in Prints /\ "x5t#S256" \in Prints
  BY <1>1 DEF IsJwk, Prints
<1>11. Late(r, j.key) = [k |-> Jwk(j.key, r.kid, r.x5c, r.x5u, j.x5t),
                         res |-> IF PrintsFail(j.x5t, r.x5c) THEN "error" ELSE "ok"]
  BY Zenon, <1>8, <1>9, <1>10 DEF Late
<1>12. Jwk(j.key, r.kid, r.x5c, r.x5u, j.x5t) = j
  BY Zenon, <1>1 DEF IsJwk
<1>13. ~PrintsFail(j.x5t, r.x5c)
  BY Zenon, <1>1, <1>2
<1>14. UnmarshalJSON(r, old) = [k |-> j, res |-> "ok"]
  BY Zenon, <1>7, <1>11, <1>12, <1>13
<1> DEFINE x == [k |-> j, res |-> "ok"]
<1>15. x.k = j /\ x.res = "ok"
  BY Zenon
<1>16. UnmarshalJSON(RawOf(j), old) = x
  BY Zenon, <1>14 DEF r
<1> HIDE DEF x
<1> QED
  BY Zenon, <1>15, <1>16

(***************************************************************************)
(* The invariant: the key and the JSON at hand are what Go and JSON can    *)
(* hold, and the JSON is that of the key it was marshalled from.           *)
(***************************************************************************)
JwkInv ==
    /\ IsJwk(webKey) /\ IsRaw(raw)
    /\ raw = NoRaw => from = {}
    /\ \A j \in from : IsJwk(j) /\ MarshalOutcome(j) = "ok" /\ raw = RawOf(j)
    /\ RoundTrip

\* What MarshalJSON writes is JSON of a key, and not the empty JSON text.
LEMMA RawOfTyped ==
    ASSUME NEW j, IsJwk(j), MarshalOutcome(j) = "ok"
    PROVE  IsRaw(RawOf(j)) /\ RawOf(j) # NoRaw
<1> DEFINE f == j.key.f
           m == FromKey(j.key)
<1>1. RawOf(j).m = m /\ RawOf(j).x5c = j.certs /\ RawOf(j).kty = j.key.kty
  BY SMTT(20) DEF RawOf
<1>2. FromKeyOutcome(j.key) = "ok" /\ IsKey(j.key) /\ IsCerts(j.certs) /\ f \in [DOMAIN f -> Seq(Nat)]
  BY Zenon DEF MarshalOutcome, IsJwk, IsKey
<1>3. j.key.kty \in {"EC", "RSA", "OKP", "oct"}
  BY Zenon, <1>2 DEF FromKeyOutcome
<1>4. NoRaw.kty = "none"
  BY DEF NoRaw
<1>5. CASE j.key.kty = "EC"
  <2>1. m = [n \in DOMAIN f |-> FixedSize(f[n], CoordSize)]
    BY ZenonT(30), <1>5 DEF FromKey
  <2>2. \A n \in DOMAIN f : Minimal(f[n]) /\ n \in {"x", "y", "d"} /\ (n = "d" => Private(j.key))
    BY <1>2, <1>5 DEF IsKey
  <2>3. /\ ~(Len(f["x"]) > CoordSize) /\ ~(Len(f["y"]) > CoordSize)
        /\ Private(j.key) => ~(Len(f["d"]) > CoordSize)
    BY Zenon, <1>2, <1>5 DEF FromKeyOutcome
  <2>4. CoordSize \in Nat
    BY KeyAssumption
  <2> HIDE DEF f, m
  <2>5. \A n \in DOMAIN f : Len(f[n]) <= CoordSize
    <3> TAKE n \in DOMAIN f
    <3>1. Len(f[n]) \in Nat
      BY <1>2
    <3>2. ~(Len(f[n]) > CoordSize)
      BY <2>2, <2>3
    <3> QED
      BY <2>4, <3>1, <3>2
  <2>6. \A n \in DOMAIN f : FixedSize(f[n], CoordSize) \in Seq(Nat)
    BY <1>2, <2>2, <2>4, <2>5, FixedSizeBack
  <2>7. m \in [DOMAIN m -> Seq(Nat)]
    BY <2>1, <2>6
  <2> QED
    BY <1>1, <1>2, <1>3, <1>4, <2>7 DEF IsRaw
<1>6. CASE j.key.kty = "RSA"
  <2>1. m = [n \in DOMAIN f \ (IF f["e"] = <<>> THEN {"e"} ELSE {}) |-> f[n]]
    BY <1>6 DEF FromKey
  <2> HIDE DEF f, m
  <2>2. m \in [DOMAIN m -> Seq(Nat)]
    BY <1>2, <2>1
  <2> QED
    BY <1>1, <1>2, <1>3, <1>4, <2>2 DEF IsRaw
<1>7. CASE j.key.kty \in {"OKP", "oct"}
  <2>1. m = f
    BY <1>7 DEF FromKey
  <2> HIDE DEF f, m
  <2> QED
    BY <1>1, <1>2, <1>3, <1>4, <2>1 DEF IsRaw
<1> QED
  BY Zenon, <1>3, <1>5, <1>6, <1>7

\* What UnmarshalJSON assigns, on success and on an error.
LEMMA UnmarshalTyped ==
    ASSUME NEW r, IsRaw(r), NEW old, IsJwk(old)
    PROVE  IsJwk(UnmarshalJSON(r, old).k)
<1> DEFINE key == ToKey(r)
<1>1. IsKey(key) /\ IsCerts(r.x5c)
  BY Zenon, ToKeyIs DEF IsRaw
<1> HIDE DEF key
<1>2. PICK url, x5t : /\ Late(r, key).k = Jwk(key, r.kid, r.x5c, url, x5t)
                      /\ url # "bad" /\ x5t = [t \in Prints |-> x5t[t]]
  <2> DEFINE one == [NoPrints EXCEPT !["x5t"] = Decoded(r.x5t["x5t"])]
             both == [t \in Prints |-> Decoded(r.x5t[t])]
             j(url, x5t) == Jwk(key, r.kid, r.x5c, url, x5t)
  <2>1. /\ NoPrints = [t \in Prints |-> NoPrints[t]]
        /\ both = [t \in Prints |-> both[t]]
    BY DEF NoPrints
  <2>2. one = [t \in Prints |-> one[t]]
    BY Zenon DEF NoPrints
  <2>3. \/ Late(r, key).k = j("none", NoPrints)
        \/ r.x5u # "bad" /\ Late(r, key).k = j(r.x5u, NoPrints)
        \/ r.x5u # "bad" /\ Late(r, key).k = j(r.x5u, one)
        \/ r.x5u # "bad" /\ Late(r, key).k = j(r.x5u, both)
    BY Zenon DEF Late
  <2> HIDE DEF one, both
  <2> QED
    BY <2>1, <2>2, <2>3
<1>3. IsJwk(Jwk(key, r.kid, r.x5c, url, x5t))
  BY <1>1, <1>2, JwkParts DEF IsJwk
<1>4. UnmarshalJSON(r, old).k = old \/ UnmarshalJSON(r, old).k = Late(r, key).k
  BY DEF UnmarshalJSON, key
<1> QED
  BY Zenon, <1>2, <1>3, <1>4

LEMMA JwkInvInit == JwkInit => JwkInv
<1> SUFFICES ASSUME JwkInit PROVE JwkInv
  OBVIOUS
<1>1. NoRaw.m = NoFields /\ NoRaw.x5c = <<>>
  BY DEF NoRaw
<1>2. IsRaw(NoRaw)
  BY <1>1, NoMembersAre DEF IsRaw, IsCerts
<1> QED
  BY Zenon, <1>2, NoJwkIs DEF JwkInit, JwkInv, RoundTrip

LEMMA JwkInvNext == JwkInv /\ [JwkNext]_jwkVars => JwkInv'
<1> SUFFICES ASSUME JwkInv, [JwkNext]_jwkVars PROVE JwkInv'
  OBVIOUS
<1>1. CASE NewKey
  BY Zenon, <1>1, KeyAssumption DEF NewKey, JwkInv, RoundTrip
<1>2. CASE Foreign
  BY <1>2, KeyAssumption DEF Foreign, JwkInv, RoundTrip
<1>3. CASE Marshal
  <2>1. res' \notin {"parsed", "unparsed"} /\ webKey' = webKey
    BY Zenon, <1>3 DEF Marshal, MarshalOutcome, FromKeyOutcome
  <2>2. CASE MarshalOutcome(webKey) = "ok"
    <3>1. raw' = RawOf(webKey) /\ from' = {webKey}
      BY <1>3, <2>2 DEF Marshal
    <3>2. IsRaw(RawOf(webKey)) /\ RawOf(webKey) # NoRaw
      BY Zenon, <2>2, RawOfTyped DEF JwkInv
    <3> QED
      BY <2>1, <2>2, <3>1, <3>2 DEF JwkInv, RoundTrip
  <2>3. CASE MarshalOutcome(webKey) # "ok"
    BY <1>3, <2>1, <2>3 DEF Marshal, JwkInv, RoundTrip
  <2> QED
    BY Zenon, <2>2, <2>3
<1>4. CASE Unmarshal
  <2>1. IsJwk(webKey')
    BY <1>4, UnmarshalTyped DEF Unmarshal, JwkInv
  <2>2. ASSUME NEW j \in from, Sound(j) PROVE res' = "parsed" /\ webKey' = j
    <3>1. UnmarshalJSON(raw, webKey).k = j /\ UnmarshalJSON(raw, webKey).res = "ok"
      BY <2>2, UnmarshalBack DEF JwkInv
    <3> QED
      BY <1>4, <3>1 DEF Unmarshal
  <2>3. raw' = raw /\ from' = from
    BY <1>4 DEF Unmarshal
  <2>4. RoundTrip'
    BY Zenon, <2>2, <2>3 DEF RoundTrip
  <2> QED
    BY <2>1, <2>3, <2>4 DEF JwkInv
<1>5. CASE TakePublic
  <2>1. res' \notin {"parsed", "unparsed"} /\ raw' = raw /\ from' = from
    BY <1>5 DEF TakePublic
  <2>2. IsJwk(webKey')
    BY <1>5, PublicTyped DEF TakePublic, JwkInv
  <2> QED
    BY <2>1, <2>2 DEF JwkInv, RoundTrip
<1>6. CASE UNCHANGED jwkVars
  BY <1>6 DEF jwkVars, JwkInv, RoundTrip
<1> QED
  BY Zenon, <1>1, <1>2, <1>3, <1>4, <1>5, <1>6 DEF JwkNext

\* For every instance, a JSONWebKey that is what it claims to be comes back from its
\* JSON as it was, whatever MarshalJSON, UnmarshalJSON and Public did before.
THEOREM KeyRoundTripAlways == JwkSpec => []RoundTrip
<1>1. JwkInv => RoundTrip
  BY DEF JwkInv
<1> QED
  BY <1>1, JwkInvInit, JwkInvNext, PTL DEF JwkSpec

\* For every instance, Public of a valid key is a valid public key of the same
\* Thumbprint, without a secret member.
THEOREM PublicOfValidAlways == JwkSpec => []PublicOfValid
<1>1. ASSUME JwkInv PROVE PublicOfValid
  <2> SUFFICES ASSUME Valid(webKey.key)
               PROVE  LET p == Public(webKey).key IN
                          /\ Valid(p) /\ IsPublic(p) /\ DOMAIN p.f = PublicMembers(p.kty)
                          /\ Thumbprint(p) = Thumbprint(webKey.key)
    BY DEF PublicOfValid
  <2>1. webKey.key.kty \in Asymmetric
    BY DEF Valid, Asymmetric
  <2>2. /\ IsKey(webKey.key)
        /\ Public(webKey).key = IF Private(webKey.key) THEN PublicKey(webKey.key) ELSE webKey.key
    BY ZenonT(30), <1>1, <2>1, PublicTyped DEF JwkInv, IsJwk
  <2> QED
    BY Zenon, <2>1, <2>2, PublicAgrees
<1> QED
  BY <1>1, JwkInvInit, JwkInvNext, PTL DEF JwkSpec

-----------------------------------------------------------------------------
(* Builders: each holds its own claims.                                    *)

Values  == Plain \cup {"ref", "bad"}
Members == UNION {[K -> Values] : K \in SUBSET Names}
Errors  == {"", "ErrInvalidContentType", "ErrInvalidClaims", "json"}
Reasons == Errors \cup {"map", "struct", "other"}
Kinds   == {"signed", "encrypted", "nested"}
Sigs    == SigAlgs \cup {""}
Algs    == KeyAlgs \cup {""}
Ctys    == {"", "JWT"}
BuilderSet ==
    [kind : Kinds, sig : Sigs, alg : Algs, cty : Ctys, payload : Nat, err : Errors, said : Members, failed : SUBSET Reasons]

BuilderOK(b, hp) ==
    /\ b.payload <= Len(hp)
    /\ Sticky(b) <=> b.failed # {}
    /\ b.failed = {} /\ b.payload = 0 => b.said = NoMembers
    /\ b.failed = {} /\ b.payload # 0 => hp[b.payload] = b.said

BuildersInv ==
    /\ builders \in Seq(BuilderSet) /\ heap \in Seq(Members)
    /\ map \in Members /\ nested \in Plain
    /\ \A i \in DOMAIN builders : BuilderOK(builders[i], heap)

LEMMA MembersAre ==
    ASSUME NEW f
    PROVE  f \in Members <=> DOMAIN f \subseteq Names /\ f \in [DOMAIN f -> Values]
  <1>1. ASSUME NEW K \in SUBSET Names, f \in [K -> Values]
        PROVE  DOMAIN f \subseteq Names /\ f \in [DOMAIN f -> Values]
    BY <1>1
  <1>2. QED
    BY <1>1, Zenon DEF Members

LEMMA NoMembersIs == NoMembers \in Members /\ DOMAIN NoMembers = {}
  <1>1. DOMAIN NoMembers = {}
    BY Zenon DEF NoMembers
  <1>2. \A f : DOMAIN f = {} /\ f = [k \in DOMAIN f |-> f[k]] => f \in [DOMAIN f -> Values]
    BY Zenon
  <1>3. NoMembers = [k \in DOMAIN NoMembers |-> NoMembers[k]]
    BY Zenon DEF NoMembers
  <1>4. QED
    BY <1>1, <1>2, <1>3, MembersAre, Zenon

\* What Claims adds is a map of members, encoded or not.
LEMMA PassedIs ==
    ASSUME nested \in Plain, NEW m \in Members, NEW how
    PROVE  Passed(how, m) \in Members
  <1>1. DOMAIN m \subseteq Names /\ m \in [DOMAIN m -> Values]
    BY MembersAre
  <1>2. DOMAIN Encode(m) = DOMAIN m
    BY Zenon DEF Encode
  <1>3. Encode(m) \in [DOMAIN m -> Values]
    BY Zenon, <1>1 DEF Encode, Values
  <1>4. Encode(m) \in Members
    BY <1>1, <1>2, <1>3, MembersAre
  <1>5. QED
    BY Zenon, <1>4 DEF Passed

\* merge has the names of both maps, and the later value where both have one.
LEMMA Overlaid ==
    ASSUME NEW m \in Members, NEW p \in Members
    PROVE  /\ Over(m, p) \in Members /\ DOMAIN Over(m, p) = DOMAIN m \cup DOMAIN p
           /\ \A k \in DOMAIN m : Over(m, p)[k] = m[k]
           /\ \A k \in DOMAIN p : k \notin DOMAIN m => Over(m, p)[k] = p[k]
  <1>1. /\ DOMAIN m \subseteq Names /\ m \in [DOMAIN m -> Values]
        /\ DOMAIN p \subseteq Names /\ p \in [DOMAIN p -> Values]
    BY MembersAre
  <1>2. Over(m, p) \in [DOMAIN m \cup DOMAIN p -> Values]
    BY <1>1 DEF Over
  <1>3. DOMAIN Over(m, p) = DOMAIN m \cup DOMAIN p
    BY Zenon DEF Over
  <1>4. QED
    BY <1>1, <1>2, <1>3, MembersAre DEF Over

\* A new builder has been told nothing.
LEMMA NewBuilder ==
    ASSUME NEW kind \in Kinds, NEW sig \in Sigs, NEW alg \in Algs, NEW cty \in Ctys,
           NEW err \in Errors, NEW hp \in Seq(Members)
    PROVE  LET b == Builder(kind, sig, alg, cty, err) IN b \in BuilderSet /\ BuilderOK(b, hp)
  <1> DEFINE f == IF err = "" THEN {} ELSE {err}
             b == Builder(kind, sig, alg, cty, err)
  <1>1. f \in SUBSET Reasons /\ (err # "" <=> f # {})
    BY Zenon DEF Reasons
  <1> HIDE DEF f
  <1>2. b = [kind |-> kind, sig |-> sig, alg |-> alg, cty |-> cty, payload |-> 0, err |-> err,
             said |-> NoMembers, failed |-> f]
    BY Zenon DEF Builder, f
  <1> HIDE DEF b
  <1>3. b \in BuilderSet
    BY Zenon, <1>1, <1>2, NoMembersIs DEF BuilderSet
  <1>4. b.payload = 0 /\ b.said = NoMembers /\ b.err = err /\ b.failed = f
    BY <1>2
  <1>5. Sticky(b) <=> b.failed # {}
    BY <1>1, <1>4, Zenon DEF Sticky
  <1>6. b.payload <= Len(hp)
    BY <1>4
  <1>7. BuilderOK(b, hp)
    BY <1>4, <1>5, <1>6, ZenonT(30) DEF BuilderOK
  <1>8. QED
    BY <1>3, <1>7 DEF b

\* What is recorded of a call of Claims.
LEMMA NotedIs ==
    ASSUME nested \in Plain, NEW b \in BuilderSet, NEW m \in Members,
           NEW how \in {"map", "struct", "other"}
    PROVE  LET n == Noted(b, how, m)
           IN  /\ n \in BuilderSet /\ n.payload = b.payload /\ n.err = b.err
               /\ n.said = Over(Passed(how, m), b.said)
               /\ b.failed # {} => n.failed # {}
               /\ ~Accepts(how, m) => n.failed # {}
               /\ Accepts(how, m) => n.failed = b.failed
  <1> DEFINE s == Over(Passed(how, m), b.said)
             f == b.failed \cup IF Accepts(how, m) THEN {} ELSE {how}
             n == [b EXCEPT !.said = s, !.failed = f]
  <1>1. b.said \in Members /\ b.failed \in SUBSET Reasons
    BY DEF BuilderSet
  <1>2. s \in Members
    BY Zenon, <1>1, PassedIs, Overlaid
  <1>3. /\ f \in SUBSET Reasons /\ (~Accepts(how, m) => f # {}) /\ b.failed \subseteq f
        /\ Accepts(how, m) => f = b.failed
    BY <1>1, Zenon DEF Reasons
  <1> HIDE DEF s, f
  <1>4. n \in BuilderSet /\ n.payload = b.payload /\ n.err = b.err /\ n.said = s /\ n.failed = f
    BY Zenon, <1>2, <1>3 DEF BuilderSet
  <1>5. Noted(b, how, m) = n
    BY Zenon DEF Noted, s, f
  <1> HIDE DEF n
  <1>6. QED
    BY Zenon, <1>3, <1>4, <1>5 DEF s

\* A builder is added; the maps of the others stay where they are.
LEMMA AddKeeps ==
    ASSUME BuildersInv, NEW x \in BuilderSet, Add(x), heap' \in Seq(Members),
           Len(heap) <= Len(heap'), \A a \in DOMAIN heap : heap'[a] = heap[a],
           BuilderOK(x, heap'), UNCHANGED <<map, nested>>
    PROVE  BuildersInv'
  <1>1. builders' = Append(builders, x) /\ builders \in Seq(BuilderSet) /\ heap \in Seq(Members)
    BY Zenon DEF Add, BuildersInv
  <1>2. /\ builders' \in Seq(BuilderSet) /\ DOMAIN builders' = DOMAIN builders \cup {Len(builders) + 1}
        /\ builders'[Len(builders) + 1] = x
        /\ \A i \in DOMAIN builders : builders'[i] = builders[i]
    <2>1. GrownBy(Append(builders, x), builders, x, BuilderSet)
      BY Zenon, <1>1, Appended
    <2>2. GrownBy(builders', builders, x, BuilderSet)
      BY Zenon, <1>1, <2>1
    <2>3. QED
      BY Zenon, <2>2 DEF GrownBy
  <1>3. ASSUME NEW i \in DOMAIN builders PROVE BuilderOK(builders[i], heap')
    <2> DEFINE b == builders[i]
    <2>1. BuilderOK(b, heap) /\ b \in BuilderSet
      BY Zenon, <1>1, ElementOfSeq DEF BuildersInv
    <2>2. b.payload \in Nat
      BY Zenon, <2>1 DEF BuilderSet
    <2> HIDE DEF b
    <2>3. b.payload <= Len(heap')
      BY Zenon, <1>1, <2>1, <2>2, LeqThrough DEF BuilderOK
    <2>4. b.payload # 0 => heap'[b.payload] = heap[b.payload]
      BY Zenon, <1>1, <2>1, <2>2, IndexOfSeq DEF BuilderOK
    <2>5. BuilderOK(b, heap')
      BY <2>1, <2>3, <2>4, Zenon DEF BuilderOK
    <2>6. QED
      BY Zenon, <2>5 DEF b
  <1>4. QED
    BY Zenon, <1>2, <1>3 DEF BuildersInv

\* Claims of a builder without an error, given something it accepts.
LEMMA ClaimsAccepted ==
    ASSUME BuildersInv, NEW b \in BuilderSet, BuilderOK(b, heap), NEW m \in Members,
           NEW how \in {"map", "struct"}, Accepts(how, m), ~Sticky(b)
    PROVE  LET new == Merge(b, Passed(how, m))
               x   == Noted([b EXCEPT !.payload = new.at, !.err = ""], how, m)
           IN  /\ new.heap \in Seq(Members) /\ Len(heap) <= Len(new.heap)
               /\ \A a \in DOMAIN heap : new.heap[a] = heap[a]
               /\ x \in BuilderSet /\ BuilderOK(x, new.heap)
  <1> DEFINE c == Passed(how, m)
             q == Over(c, Payload(b))
             hp == Append(heap, q)
             at == Len(heap) + 1
             y == [b EXCEPT !.payload = at, !.err = ""]
             x == Noted(y, how, m)
  <1>1. nested \in Plain /\ heap \in Seq(Members)
    BY DEF BuildersInv
  <1>2. Merge(b, c) = [heap |-> hp, at |-> at]
    BY Zenon DEF Merge, Alloc
  <1>4. c \in Members
    BY Zenon, <1>1, PassedIs
  <1> HIDE DEF c
  <1>5. b.payload \in Nat /\ b.payload <= Len(heap) /\ b.said \in Members
    BY Zenon DEF BuilderSet, BuilderOK
  <1>6. Payload(b) \in Members
    BY <1>1, <1>5, NoMembersIs DEF Payload
  <1>7. q \in Members
    BY Zenon, <1>4, <1>6, Overlaid
  <1> HIDE DEF q
  <1>8. /\ hp \in Seq(Members) /\ Len(hp) = at /\ at \in Nat /\ at # 0 /\ hp[at] = q
        /\ Len(heap) <= Len(hp) /\ \A a \in DOMAIN heap : hp[a] = heap[a]
    BY <1>1, <1>7
  <1> HIDE DEF hp, at
  <1>9. y \in BuilderSet /\ y.payload = at /\ y.said = b.said /\ y.failed = b.failed
    <2>1. \A e \in Errors : LET z == [b EXCEPT !.payload = at, !.err = e]
                            IN  z \in BuilderSet /\ z.payload = at /\ z.said = b.said /\ z.failed = b.failed
      BY Zenon, <1>8 DEF BuilderSet
    <2>2. "" \in Errors
      BY Zenon DEF Errors
    <2>3. QED
      BY <2>1, <2>2, Zenon
  <1>10. y.err = ""
    <2>1. \A e : [b EXCEPT !.payload = at, !.err = e].err = e
      BY SMTT(20) DEF BuilderSet
    <2>2. QED
      BY <2>1, Zenon
  <1> HIDE DEF y
  <1>11. /\ x \in BuilderSet /\ x.payload = at /\ x.err = y.err /\ x.said = Over(c, b.said)
         /\ x.failed = b.failed
    <2>1. how \in {"map", "struct", "other"}
      OBVIOUS
    <2>2. /\ x \in BuilderSet /\ x.payload = y.payload /\ x.err = y.err
          /\ x.said = Over(c, y.said)
          /\ x.failed = y.failed
      BY Zenon, <1>1, <1>9, <2>1, NotedIs DEF c
    <2>3. QED
      BY Zenon, <1>9, <2>2
  <1> HIDE DEF x
  <1>12. ~Sticky(x)
    BY <1>10, <1>11, ZenonT(30) DEF Sticky
  <1>13. b.failed = {} /\ Payload(b) = b.said
    BY Zenon DEF BuilderOK, Payload
  <1>14. q = Over(c, b.said)
    BY Zenon, <1>13 DEF q
  <1>15. x.payload <= Len(hp)
    BY Zenon, <1>8, <1>11, NotAbove
  <1>16. BuilderOK(x, hp)
    BY <1>8, <1>11, <1>12, <1>13, <1>14, <1>15, Zenon DEF BuilderOK
  <1>17. Merge(b, c).heap = hp /\ Merge(b, c).at = at
    BY <1>2
  <1>18. QED
    BY <1>8, <1>11, <1>16, <1>17, Zenon DEF x, y, c

\* Claims of a builder with an error: the next one has it as well.
LEMMA ClaimsSticky ==
    ASSUME BuildersInv, NEW b \in BuilderSet, BuilderOK(b, heap), NEW m \in Members,
           NEW how \in {"map", "struct", "other"}, Sticky(b)
    PROVE  Noted(b, how, m) \in BuilderSet /\ BuilderOK(Noted(b, how, m), heap)
  <1> DEFINE x == Noted(b, how, m)
  <1>1. nested \in Plain
    BY DEF BuildersInv
  <1>2. x \in BuilderSet /\ x.payload = b.payload /\ x.err = b.err /\ (b.failed # {} => x.failed # {})
    BY Zenon, <1>1, NotedIs
  <1>3. b.failed # {} /\ b.payload <= Len(heap)
    BY DEF BuilderOK
  <1> HIDE DEF x
  <1>4. BuilderOK(x, heap)
    BY <1>2, <1>3, ZenonT(30) DEF BuilderOK, Sticky
  <1>5. QED
    BY Zenon, <1>2, <1>4 DEF x

\* No natural number is less than 0.
LEMMA NaturalsStart == \A n \in Nat : 0 <= n
  OBVIOUS

\* Claims given something it refuses: there is a builder with an error, and no map.
LEMMA ClaimsRefused ==
    ASSUME BuildersInv, NEW b \in BuilderSet, NEW m \in Members,
           NEW how \in {"map", "struct", "other"}, ~Accepts(how, m), NEW err \in Errors, err # ""
    PROVE  LET x == Noted(Fails(b, err), how, m)
           IN  x \in BuilderSet /\ BuilderOK(x, heap)
  <1> DEFINE y == Fails(b, err)
             x == Noted(y, how, m)
  <1>1. nested \in Plain /\ heap \in Seq(Members)
    BY DEF BuildersInv
  <1>2. y \in BuilderSet /\ y.payload = 0 /\ y.err = err
    BY Zenon DEF Fails, BuilderSet
  <1> HIDE DEF y
  <1>3. x \in BuilderSet /\ x.payload = y.payload /\ x.err = y.err /\ x.failed # {}
    BY Zenon, <1>1, <1>2, NotedIs
  <1> HIDE DEF x
  <1>z. 0 <= Len(heap)
    BY Zenon, <1>1, LenProperties, NaturalsStart
  <1>4. x.payload <= Len(heap) /\ x.payload = 0
    BY Zenon, <1>z, <1>2, <1>3
  <1>5. BuilderOK(x, heap)
    BY <1>2, <1>3, <1>4, Zenon DEF BuilderOK, Sticky
  <1>6. QED
    BY Zenon, <1>3, <1>5 DEF x, y

LEMMA ClaimsKeeps ==
    ASSUME BuildersInv, NEW i \in DOMAIN builders, NEW m \in Members,
           NEW how \in {"map", "struct", "other"}, Claims(i, how, m)
    PROVE  BuildersInv'
  <1> DEFINE b == builders[i]
             new == Merge(b, Passed(how, m))
             x == Noted([b EXCEPT !.payload = new.at, !.err = ""], how, m)
             err == IF how = "struct" THEN "json" ELSE "ErrInvalidClaims"
             z == Noted(Fails(b, err), how, m)
  <1>1. b \in BuilderSet /\ BuilderOK(b, heap) /\ heap \in Seq(Members)
    BY DEF BuildersInv
  <1>2. UNCHANGED <<map, nested>>
    BY Zenon DEF Claims, caller
  <1>3. err \in Errors /\ err # ""
    BY Zenon DEF Errors
  <1>4. \/ Sticky(b) /\ Add(Noted(b, how, m)) /\ UNCHANGED heap
        \/ ~Sticky(b) /\ Accepts(how, m) /\ Add(x) /\ heap' = new.heap
        \/ ~Accepts(how, m) /\ Add(z) /\ UNCHANGED heap
    <2>1. CASE Sticky(b)
      BY <2>1, Zenon DEF Claims
    <2>2. CASE ~Sticky(b) /\ Accepts(how, m)
      BY <2>2, Zenon DEF Claims
    <2>3. CASE ~Sticky(b) /\ ~Accepts(how, m)
      BY <2>3, Zenon DEF Claims
    <2>4. QED
      BY <2>1, <2>2, <2>3
  <1> HIDE DEF b, err
  <1>5. CASE Sticky(b) /\ Add(Noted(b, how, m)) /\ UNCHANGED heap
    <2>1. Noted(b, how, m) \in BuilderSet /\ BuilderOK(Noted(b, how, m), heap)
      BY ZenonT(30), <1>1, <1>5, ClaimsSticky
    <2>2. QED
      BY SMTT(20), <1>1, <1>2, <1>5, <2>1, AddKeeps
  <1>6. CASE ~Sticky(b) /\ Accepts(how, m) /\ Add(x) /\ heap' = new.heap
    <2>1. how \in {"map", "struct"}
      BY <1>6 DEF Accepts
    <2>2. /\ new.heap \in Seq(Members) /\ Len(heap) <= Len(new.heap)
          /\ \A a \in DOMAIN heap : new.heap[a] = heap[a]
          /\ x \in BuilderSet /\ BuilderOK(x, new.heap)
      BY <1>1, <1>6, <2>1, ClaimsAccepted, Zenon
    <2> HIDE DEF x, new
    <2>3. QED
      BY Zenon, <1>2, <1>6, <2>2, AddKeeps
  <1>7. CASE ~Accepts(how, m) /\ Add(z) /\ UNCHANGED heap
    <2>1. z \in BuilderSet /\ BuilderOK(z, heap)
      BY Zenon, <1>1, <1>3, <1>7, ClaimsRefused
    <2> HIDE DEF z
    <2>2. QED
      BY SMTT(20), <1>1, <1>2, <1>7, <2>1, AddKeeps
  <1>8. QED
    BY Zenon, <1>4, <1>5, <1>6, <1>7

\* Signed, Encrypted and SignedAndEncrypted start a chain.
LEMMA StartKeeps ==
    ASSUME BuildersInv, NEW kind \in Kinds, NEW sig \in Sigs, NEW alg \in Algs, NEW cty \in Ctys,
           NEW err \in Errors, Add(Builder(kind, sig, alg, cty, err)), UNCHANGED <<heap, map, nested>>
    PROVE  BuildersInv'
  <1> DEFINE b == Builder(kind, sig, alg, cty, err)
  <1>1. heap \in Seq(Members)
    BY DEF BuildersInv
  <1>2. b \in BuilderSet /\ BuilderOK(b, heap)
    BY Zenon, <1>1, NewBuilder
  <1> HIDE DEF b
  <1>3. Add(b)
    BY DEF b
  <1>4. QED
    BY <1>1, <1>2, <1>3, AddKeeps

\* The caller writes to its map, which no builder has.
LEMMA WriteMapKeeps ==
    ASSUME BuildersInv, NEW k \in Names, NEW v \in Values, WriteMap(k, v)
    PROVE  BuildersInv'
  <1> DEFINE f == [n \in {k} |-> v]
  <1>1. UNCHANGED <<builders, heap, nested>> /\ map' = Over(f, map)
    BY Zenon DEF WriteMap, made
  <1>2. f \in Members
    <2>1. {k} \in SUBSET Names /\ f \in [{k} -> Values]
      OBVIOUS
    <2>2. QED
      BY <2>1, Zenon DEF Members
  <1> HIDE DEF f
  <1>3. map' \in Members
    BY Zenon, <1>1, <1>2, Overlaid DEF BuildersInv
  <1>4. QED
    BY <1>1, <1>3 DEF BuildersInv

LEMMA BuildKeeps == ASSUME BuildersInv, Build PROVE BuildersInv'
  <1>0. Errors = {"", "ErrInvalidContentType", "ErrInvalidClaims", "json"} /\ "" \in Errors
        /\ "ErrInvalidContentType" \in Errors /\ "" \in Sigs /\ "" \in Algs
        /\ "" \in Ctys /\ {"", "JWT"} = Ctys /\ "signed" \in Kinds /\ "encrypted" \in Kinds
        /\ "nested" \in Kinds
    BY Zenon DEF Errors, Sigs, Algs, Ctys, Kinds
  <1>1. ASSUME NEW s \in SigAlgs, Signed(s) PROVE BuildersInv'
    <2>1. Add(Builder("signed", s, "", "", "")) /\ UNCHANGED <<heap, map, nested>> /\ s \in Sigs
      BY <1>1, Zenon DEF Signed, caller, Sigs
    <2>2. QED
      BY <1>0, <2>1, StartKeeps, Zenon
  <1>2. ASSUME NEW a \in KeyAlgs, NEW c \in Ctys, Encrypted(a, c) PROVE BuildersInv'
    <2>1. Add(Builder("encrypted", "", a, c, "")) /\ UNCHANGED <<heap, map, nested>> /\ a \in Algs
      BY <1>2, Zenon DEF Encrypted, caller, Algs
    <2>2. QED
      BY <1>0, <2>1, StartKeeps, Zenon
  <1>3. ASSUME NEW s \in SigAlgs, NEW a \in KeyAlgs, NEW c \in Ctys, SignedAndEncrypted(s, a, c)
        PROVE  BuildersInv'
    <2> DEFINE err == IF c = "JWT" THEN "" ELSE "ErrInvalidContentType"
    <2>1. Add(Builder("nested", s, a, c, err)) /\ UNCHANGED <<heap, map, nested>>
          /\ s \in Sigs /\ a \in Algs
      BY <1>3, Zenon DEF SignedAndEncrypted, caller, Sigs, Algs
    <2>2. err \in Errors
      BY <1>0, Zenon
    <2> HIDE DEF err
    <2>3. QED
      BY <1>0, <2>1, <2>2, StartKeeps, Zenon
  <1>4. ASSUME NEW i \in DOMAIN builders, Claims(i, "map", map) PROVE BuildersInv'
    <2>1. map \in Members
      BY DEF BuildersInv
    <2>2. QED
      BY <1>4, <2>1, ClaimsKeeps
  <1>5. ASSUME NEW i \in DOMAIN builders, Claims(i, "other", NoMembers) PROVE BuildersInv'
    BY Zenon, <1>5, NoMembersIs, ClaimsKeeps
  <1>6. ASSUME NEW i \in DOMAIN builders, NEW m \in Structs, Claims(i, "struct", m) PROVE BuildersInv'
    <2>1. m \in Members
      BY StructsAssumption, Zenon DEF Members, Values
    <2>2. QED
      BY <1>6, <2>1, ClaimsKeeps
  <1>7. ASSUME NEW k \in Names, NEW v \in Values, WriteMap(k, v) PROVE BuildersInv'
    BY Zenon, <1>7, WriteMapKeeps
  <1>8. ASSUME NEW v \in Plain, WriteNested(v) PROVE BuildersInv'
    <2>1. UNCHANGED <<builders, heap, map>> /\ nested' = v
      BY <1>8, Zenon DEF WriteNested, made
    <2>2. QED
      BY <2>1 DEF BuildersInv
  <1>9. QED
    BY <1>0, <1>1, <1>2, <1>3, <1>4, <1>5, <1>6, <1>7, <1>8, Zenon DEF Build, Values

LEMMA BuildersStep == BuildersInv /\ [Next]_vars => BuildersInv'
  <1> SUFFICES ASSUME BuildersInv, [Next]_vars PROVE BuildersInv'
    OBVIOUS
  <1>1. CASE UNCHANGED <<builders, heap, map, nested>>
    BY <1>1 DEF BuildersInv
  <1>2. CASE HandOver
    <2>1. builders' = <<>> /\ heap' = <<>> /\ map' = NoMembers /\ nested' \in Plain
      BY <1>2, Zenon DEF HandOver, BuildersInv
    <2>2. QED
      BY <2>1, NoMembersIs DEF BuildersInv
  <1>3. CASE ReadStep
    BY <1>1, <1>3, Zenon
    DEF ReadStep, Damage, Read, ParseSigned, ParseEncrypted, ParseSignedAndEncrypted, Decrypt,
        ClaimsOf, UnsafeClaimsWithoutVerification, made, caller
  <1>4. CASE Make
    BY <1>1, <1>4, Zenon DEF Make, Serialize, Token, made, caller
  <1>5. QED
    BY <1>1, <1>2, <1>3, <1>4, BuildKeeps, Zenon
    DEF Next, BuildStep, ClaimsRead, CheckStep, made, caller, vars, tokenVars

LEMMA BuildersInit == Init => BuildersInv
  <1> SUFFICES ASSUME Init PROVE BuildersInv
    OBVIOUS
  <1>1. builders = <<>> /\ heap = <<>> /\ map = NoMembers /\ nested \in Plain
    BY Zenon DEF Init, TokenInit
  <1>2. QED
    BY <1>1, NoMembersIs DEF BuildersInv

\* A builder of the jwt package holds the claims of its own chain of calls, however
\* chains branch and whatever the caller does with the maps it has passed (merge).
THEOREM OwnClaimsAlways == Spec => []OwnClaims
  <1>1. BuildersInv => OwnClaims
    <2> SUFFICES ASSUME BuildersInv, NEW i \in DOMAIN builders,
                        builders[i].failed = {}, builders[i].payload # 0
                 PROVE  Payload(builders[i]) = builders[i].said
      BY Zenon DEF OwnClaims
    <2>1. BuilderOK(builders[i], heap)
      BY DEF BuildersInv
    <2>2. QED
      BY <2>1, Zenon DEF BuilderOK, Payload
  <1>2. QED
    BY <1>1, BuildersInit, BuildersStep, PTL DEF Spec

-----------------------------------------------------------------------------
(* Tokens: what a reader gets is what the builder was told.                *)

\* A message that arrived as it was made holds what its builder was told.
AsBuilt(msg) ==
    /\ msg.failed = {} /\ (msg.intact => msg.claims = msg.said)
    /\ msg.said = [k \in DOMAIN msg.said |-> msg.said[k]]

\* All the fields of a message.
Whole(msg) ==
    msg = [form |-> msg.form, sig |-> msg.sig, alg |-> msg.alg, cty |-> msg.cty, claims |-> msg.claims,
           intact |-> msg.intact, said |-> msg.said, failed |-> msg.failed]

\* How the parsers leave a token, and what Decrypt makes of it.
TokOK(t) ==
    /\ t.right = TRUE /\ AsBuilt(t.msg)
    /\ ~t.parsed => t.algs = {}
    /\ t.parsed =>
        /\ t.form = "jws" => AlgsAllowed(t)
        /\ t.form \in {"jwe", "nested"} =>
              t.msg.form \in {"jwe", "nested"} /\ t.msg.alg \in t.allowed.alg \ Refused
        /\ t.form = "nested" => t.algs = t.allowed.sig

ReadInv == (wire.intact => Whole(wire)) /\ AsBuilt(wire) /\ TokOK(tok) /\ VerifiedAsBuilt

LEMMA NothingOK == Whole(NoMsg) /\ AsBuilt(NoMsg) /\ TokOK(NoToken)
  <1>w. Whole(NoMsg)
    BY Zenon DEF Whole, NoMsg
  <1>0. NoMembers = [k \in DOMAIN NoMembers |-> NoMembers[k]]
    BY Zenon DEF NoMembers
  <1>1. NoMsg.failed = {} /\ NoMsg.claims = NoMembers /\ NoMsg.said = NoMembers
    BY Zenon DEF NoMsg
  <1>2. NoToken.right = TRUE /\ NoToken.parsed = FALSE /\ NoToken.msg = NoMsg /\ NoToken.algs = {}
    BY Zenon DEF NoToken
  <1>3. QED
    BY Zenon, <1>w, <1>0, <1>1, <1>2 DEF AsBuilt, TokOK

\* Without an answer, or one that was not verified, there is nothing to show.
LEMMA NotVerified == ASSUME out'.verified = FALSE PROVE VerifiedAsBuilt'
  BY Zenon DEF VerifiedAsBuilt

LEMMA NoOutIs ==
    /\ NoOut.verified = FALSE /\ [NoOut EXCEPT !.res = "crypto"].verified = FALSE
    /\ [NoOut EXCEPT !.res = "unavailable"].verified = FALSE
  BY Zenon DEF NoOut

\* What a builder makes, if it makes anything.
LEMMA MessageOK ==
    ASSUME BuildersInv, NEW i \in DOMAIN builders, Makes(builders[i])
    PROVE  Whole(Message(builders[i])) /\ AsBuilt(Message(builders[i]))
  <1> DEFINE b == builders[i]
  <1>1. BuilderOK(b, heap)
    BY Zenon DEF BuildersInv
  <1>2. b.failed = {}
    BY Zenon, <1>1 DEF BuilderOK, Makes, Sticky
  <1>3. Payload(b) = b.said
    BY Zenon, <1>1, <1>2 DEF BuilderOK, Payload
  <1> HIDE DEF b
  <1>4. Message(b).failed = b.failed /\ Message(b).claims = Encode(Payload(b)) /\ Message(b).said = Encode(b.said)
    BY Zenon DEF Message
  <1>f. Encode(b.said) = [k \in DOMAIN Encode(b.said) |-> Encode(b.said)[k]]
    BY Zenon DEF Encode
  <1>5. AsBuilt(Message(b))
    BY Zenon, <1>2, <1>3, <1>4, <1>f DEF AsBuilt
  <1>w. Whole(Message(b))
    BY Zenon DEF Whole, Message
  <1>6. QED
    BY Zenon, <1>5, <1>w DEF b

\* Serialize and Token.
LEMMA MakeReads == ASSUME BuildersInv, ReadInv, Make PROVE ReadInv'
  <1>1. ASSUME NEW i \in DOMAIN builders, Serialize(i) PROVE ReadInv'
    <2>1. (wire' = Message(builders[i]) /\ Makes(builders[i])) \/ wire' = NoMsg
      BY Zenon, <1>1 DEF Serialize
    <2>2. Whole(wire') /\ AsBuilt(wire')
      BY Zenon, <2>1, MessageOK, NothingOK
    <2>3. UNCHANGED <<tok, out>>
      BY Zenon, <1>1 DEF Serialize
    <2>4. QED
      BY <2>2, <2>3 DEF ReadInv, VerifiedAsBuilt
  <1>2. ASSUME NEW i \in DOMAIN builders, Token(i) PROVE ReadInv'
    <2> DEFINE t == [form |-> Form(builders[i].kind), msg |-> Message(builders[i]), parsed |-> FALSE,
                     unverified |-> FALSE, algs |-> {}, allowed |-> NoToken.allowed, right |-> TRUE]
    <2>1. (tok' = t /\ Makes(builders[i])) \/ tok' = NoToken
      BY Zenon, <1>2 DEF Token
    <2>2. t.right = TRUE /\ t.parsed = FALSE /\ t.msg = Message(builders[i]) /\ t.algs = {}
      BY Zenon
    <2> HIDE DEF t
    <2>3. TokOK(tok')
      BY Zenon, <2>1, <2>2, MessageOK, NothingOK DEF TokOK
    <2>4. UNCHANGED <<wire, out>>
      BY Zenon, <1>2 DEF Token
    <2>5. QED
      BY <2>3, <2>4 DEF ReadInv, VerifiedAsBuilt
  <1>3. QED
    BY Zenon, <1>1, <1>2 DEF Make

\* The three parsers, and Decrypt.
LEMMA ParseReads ==
    ASSUME ReadInv, NEW t, tok' = t \/ tok' = NoToken, TokOK(t), out' = NoOut, UNCHANGED wire
    PROVE  ReadInv'
  <1>1. TokOK(tok') /\ VerifiedAsBuilt'
    BY Zenon, NothingOK, NotVerified, NoOutIs
  <1>2. QED
    BY Zenon, <1>1 DEF ReadInv

LEMMA ParseSignedReads == ASSUME ReadInv, NEW s, ParseSigned(s) PROVE ReadInv'
  <1> DEFINE t == ParsedAs("jws", TRUE, {}, s, {})
  <1>1. out' = NoOut /\ UNCHANGED wire
    BY Zenon DEF ParseSigned
  <1>2. CASE wire.form = "jws" /\ wire.sig \in s
    <2>1. tok' = t
      BY Zenon, <1>2 DEF ParseSigned
    <2>2. t.form = "jws" /\ t.msg = wire /\ t.right = TRUE /\ t.parsed = TRUE /\ t.allowed.sig = s
      BY Zenon DEF ParsedAs
    <2> HIDE DEF t
    <2>3. AlgsAllowed(t)
      BY <1>2, <2>2 DEF AlgsAllowed
    <2>4. t.form \notin {"jwe", "nested"} /\ t.form # "nested"
      BY <2>2
    <2>5. TokOK(t)
      BY Zenon, <2>2, <2>3, <2>4 DEF TokOK, ReadInv
    <2>6. QED
      BY Zenon, <1>1, <2>1, <2>5, ParseReads
  <1>3. CASE ~(wire.form = "jws" /\ wire.sig \in s)
    <2>1. tok' = NoToken
      BY Zenon, <1>3 DEF ParseSigned
    <2>2. QED
      BY Zenon, <1>1, <2>1, NothingOK, ParseReads
  <1>4. QED
    BY Zenon, <1>2, <1>3

\* A token as ParseEncrypted and ParseSignedAndEncrypted make it.
LEMMA EncryptedTokOK ==
    ASSUME AsBuilt(wire), NEW form \in {"jwe", "nested"}, NEW unverified, NEW sigs, NEW algs, NEW kept,
           form = "nested" => kept = sigs,
           ValidateKeyEncryptionAlgorithm(algs), wire.form \in {"jwe", "nested"}, wire.alg \in algs
    PROVE  TokOK(ParsedAs(form, unverified, kept, sigs, algs))
  <1> DEFINE t == ParsedAs(form, unverified, kept, sigs, algs)
  <1>1. /\ t.form = form /\ t.msg = wire /\ t.algs = kept /\ t.right = TRUE /\ t.parsed = TRUE
        /\ t.allowed.sig = sigs /\ t.allowed.alg = algs
    BY Zenon DEF ParsedAs
  <1> HIDE DEF t
  <1>2. wire.alg \in algs \ Refused
    BY Zenon DEF ValidateKeyEncryptionAlgorithm
  <1>3. t.form # "jws"
    BY <1>1
  <1>4. TokOK(t)
    BY Zenon, <1>1, <1>2, <1>3 DEF TokOK
  <1>5. QED
    BY Zenon, <1>4 DEF t

LEMMA ParseEncryptedReads == ASSUME ReadInv, NEW a, ParseEncrypted(a) PROVE ReadInv'
  <1> DEFINE t == ParsedAs("jwe", FALSE, {}, {}, a)
             ok == ValidateKeyEncryptionAlgorithm(a) /\ wire.form \in {"jwe", "nested"} /\ wire.alg \in a
  <1>1. out' = NoOut /\ UNCHANGED wire /\ (ok => tok' = t) /\ (~ok => tok' = NoToken)
    BY Zenon DEF ParseEncrypted
  <1>2. ok => TokOK(t)
    BY Zenon, EncryptedTokOK DEF ReadInv
  <1> HIDE DEF t, ok
  <1>3. QED
    BY Zenon, <1>1, <1>2, NothingOK, ParseReads

LEMMA ParseNestedReads == ASSUME ReadInv, NEW a, NEW s, ParseSignedAndEncrypted(a, s) PROVE ReadInv'
  <1> DEFINE t == ParsedAs("nested", FALSE, s, s, a)
             ok == /\ ValidateKeyEncryptionAlgorithm(a) /\ wire.form \in {"jwe", "nested"} /\ wire.alg \in a
                   /\ wire.cty \in {"JWT", "jwt"}
  <1>1. out' = NoOut /\ UNCHANGED wire /\ (ok => tok' = t) /\ (~ok => tok' = NoToken)
    BY Zenon DEF ParseSignedAndEncrypted
  <1>2. ok => TokOK(t)
    BY Zenon, EncryptedTokOK DEF ReadInv
  <1> HIDE DEF t, ok
  <1>3. QED
    BY Zenon, <1>1, <1>2, NothingOK, ParseReads

LEMMA DecryptReads == ASSUME ReadInv, NEW right \in BOOLEAN, Decrypt(right) PROVE ReadInv'
  <1> DEFINE t == [form |-> "jws", msg |-> tok.msg, parsed |-> TRUE, unverified |-> TRUE, algs |-> tok.algs,
                   allowed |-> tok.allowed, right |-> right]
             ok == right /\ tok.msg.intact /\ tok.msg.form = "nested" /\ tok.msg.sig \in tok.algs
  <1>1. /\ out' = NoOut /\ UNCHANGED wire /\ (ok => tok' = t) /\ (~ok => tok' = NoToken)
        /\ tok.form = "nested"
    BY Zenon DEF Decrypt
  <1>2. t.form = "jws" /\ t.msg = tok.msg /\ t.parsed = TRUE /\ t.allowed = tok.allowed /\ (ok => t.right = TRUE)
    BY Zenon
  <1> HIDE DEF t
  <1>3. ASSUME ok PROVE TokOK(t)
    <2>1. TokOK(tok)
      BY Zenon DEF ReadInv
    <2>2. tok.parsed
      BY Zenon, <1>1, <1>3, <2>1 DEF TokOK
    <2>3. tok.msg.alg \in tok.allowed.alg \ Refused /\ tok.algs = tok.allowed.sig
      BY Zenon, <1>1, <2>1, <2>2 DEF TokOK
    <2>4. AlgsAllowed(t)
      BY Zenon, <1>2, <1>3, <2>3 DEF AlgsAllowed
    <2>5. t.form \notin {"jwe", "nested"} /\ t.form # "nested"
      BY <1>2
    <2>6. QED
      BY Zenon, <1>2, <1>3, <2>1, <2>4, <2>5 DEF TokOK
  <1> HIDE DEF ok
  <1>4. QED
    BY Zenon, <1>1, <1>3, NothingOK, ParseReads

\* What a dest takes is part of the claims, and all of them if they fit.
LEMMA TakenIs ==
    ASSUME NEW dest
    PROVE  /\ \A k \in DOMAIN Taken(dest) : k \in DOMAIN tok.msg.claims /\ Taken(dest)[k] = tok.msg.claims[k]
           /\ Fits(dest) => Taken(dest) = [k \in DOMAIN tok.msg.claims |-> tok.msg.claims[k]]
  <1>1. DOMAIN Taken(dest) = DOMAIN tok.msg.claims \cap dest
    BY Zenon DEF Taken
  <1>2. \A k \in DOMAIN Taken(dest) : Taken(dest)[k] = tok.msg.claims[k]
    BY Zenon, <1>1 DEF Taken
  <1>3. Fits(dest) => DOMAIN tok.msg.claims \cap dest = DOMAIN tok.msg.claims
    BY Zenon DEF Fits
  <1>4. QED
    BY Zenon, <1>1, <1>2, <1>3 DEF Taken

\* The loop over the dests, after the token has been verified.
LEMMA FilledAsBuilt ==
    ASSUME ReadInv, tok.form \in {"jws", "jwe"}, tok.msg.intact, NEW dests \in Seq(SUBSET Names),
           out' = Fill(dests, TRUE, TRUE)
    PROVE  VerifiedAsBuilt'
  <1> DEFINE reached == {i \in DOMAIN dests : HoldsClaims /\ \A j \in 1..i - 1 : Fits(dests[j])}
             held == [i \in reached |-> Taken(dests[i])]
             verdict == IF \A i \in DOMAIN dests : Fits(dests[i]) THEN "ok" ELSE "json"
             msg == tok.msg
  <1>1. /\ out'.res = verdict /\ out'.held = held /\ out'.asked = Len(dests) /\ out'.of = tok
        /\ out'.right = (tok.right /\ TRUE)
    BY Zenon DEF Fill
  <1>2. /\ TokOK(tok) /\ msg.failed = {} /\ msg.claims = msg.said
        /\ msg.said = [k \in DOMAIN msg.said |-> msg.said[k]]
    BY Zenon DEF ReadInv, TokOK, AsBuilt
  <1>3. out'.right
    BY Zenon, <1>1, <1>2 DEF TokOK
  <1>4. DOMAIN held # {} => AlgsAllowed(tok)
    <2>1. ASSUME HoldsClaims, tok.parsed PROVE AlgsAllowed(tok)
      <3>1. CASE tok.form = "jws"
        BY Zenon, <1>2, <2>1, <3>1 DEF TokOK
      <3>2. CASE tok.form = "jwe"
        <4>1. tok.msg.form = "jwe"
          BY <2>1, <3>2 DEF HoldsClaims
        <4>2. tok.msg.alg \in tok.allowed.alg \ Refused
          BY Zenon, <1>2, <2>1, <3>2 DEF TokOK
        <4>3. tok.msg.form \notin {"jws", "nested"}
          BY <4>1
        <4>4. QED
          BY Zenon, <4>2, <4>3 DEF AlgsAllowed
      <3>3. QED
        BY Zenon, <3>1, <3>2
    <2>2. ~tok.parsed => AlgsAllowed(tok)
      BY Zenon DEF AlgsAllowed
    <2>3. DOMAIN held # {} => HoldsClaims
      BY Zenon
    <2>4. QED
      BY Zenon, <2>1, <2>2, <2>3
  <1>d. DOMAIN held = reached /\ \A i \in reached : held[i] = Taken(dests[i])
    BY Zenon
  <1>5. verdict = "ok" => reached = 1..Len(dests)
    <2>1. SUFFICES ASSUME \A i \in DOMAIN dests : Fits(dests[i]) PROVE reached = DOMAIN dests
      BY Zenon, LenProperties
    <2>2. \A i \in DOMAIN dests : 1..i - 1 \subseteq DOMAIN dests
      BY LenProperties
    <2>3. QED
      BY Zenon, <2>1, <2>2 DEF Fits
  <1>6. ASSUME NEW i \in reached, verdict = "ok" \/ i + 1 \in reached PROVE Taken(dests[i]) = msg.said
    <2>1. i \in 1..(i + 1) - 1
      BY LenProperties
    <2>2. Fits(dests[i])
      BY Zenon, <1>6, <2>1
    <2>3. QED
      BY Zenon, <1>2, <2>2, TakenIs
  <1> HIDE DEF reached, held, verdict
  <1>7. ASSUME NEW i \in reached, NEW k \in DOMAIN Taken(dests[i])
        PROVE  k \in DOMAIN msg.said /\ Taken(dests[i])[k] = msg.said[k]
    <2>1. k \in DOMAIN msg.claims /\ Taken(dests[i])[k] = msg.claims[k]
      BY Zenon, <1>7, TakenIs
    <2>2. QED
      BY Zenon, <1>2, <2>1
  <1>a. DOMAIN out'.held # {} => out'.right /\ out'.of.msg.failed = {} /\ AlgsAllowed(out'.of)
    BY Zenon, <1>1, <1>2, <1>3, <1>4
  <1>b. out'.res = "ok" => DOMAIN out'.held = 1..out'.asked
    BY Zenon, <1>1, <1>5, <1>d
  <1>c. ASSUME NEW i \in DOMAIN out'.held
        PROVE  /\ \A k \in DOMAIN out'.held[i] : k \in DOMAIN out'.of.msg.said /\ out'.held[i][k] = out'.of.msg.said[k]
               /\ (out'.res = "ok" \/ i + 1 \in DOMAIN out'.held) => out'.held[i] = out'.of.msg.said
    <2>1. i \in reached /\ out'.held[i] = Taken(dests[i]) /\ out'.of.msg.said = msg.said
      BY Zenon, <1>1, <1>c, <1>d
    <2>2. (out'.res = "ok" \/ i + 1 \in DOMAIN out'.held) => Taken(dests[i]) = msg.said
      BY Zenon, <1>1, <1>6, <1>d, <2>1
    <2>3. QED
      BY Zenon, <1>7, <2>1, <2>2
  <1>9. QED
    BY Zenon, <1>a, <1>b, <1>c DEF VerifiedAsBuilt

LEMMA DestsAre == Dests \subseteq Seq(SUBSET Names)
  <1>1. Names \in SUBSET Names
    OBVIOUS
  <1>2. \A S : \A d, e \in S : <<d>> \in Seq(S) /\ <<d, e>> \in Seq(S)
    OBVIOUS
  <1>3. QED
    BY Zenon, <1>1, <1>2 DEF Dests

\* Claims and UnsafeClaimsWithoutVerification.
LEMMA AnswerReads ==
    ASSUME ReadInv, NEW d \in Dests, NEW right \in BOOLEAN,
           ClaimsOf(right, d) \/ UnsafeClaimsWithoutVerification(d)
    PROVE  ReadInv'
  <1>1. UNCHANGED <<wire, tok>> /\ tok.form \in {"jws", "jwe"}
    BY Zenon DEF ClaimsOf, UnsafeClaimsWithoutVerification
  <1>2. \/ out' = Fill(d, TRUE, right) /\ right = TRUE /\ tok.msg.intact
        \/ out' = [NoOut EXCEPT !.res = "crypto"] \/ out' = [NoOut EXCEPT !.res = "unavailable"]
        \/ out' = Fill(d, FALSE, FALSE)
    BY Zenon DEF ClaimsOf, UnsafeClaimsWithoutVerification
  <1>3. Fill(d, FALSE, FALSE).verified = FALSE
    BY Zenon DEF Fill
  <1>4. d \in Seq(SUBSET Names)
    BY Zenon, DestsAre
  <1>5. VerifiedAsBuilt'
    BY Zenon, <1>1, <1>2, <1>3, <1>4, FilledAsBuilt, NotVerified, NoOutIs
  <1>6. QED
    BY <1>1, <1>5 DEF ReadInv

LEMMA DamageReads == ASSUME ReadInv, Damage PROVE ReadInv'
  <1>1. PICK v \in Plain : wire' = [wire EXCEPT !.intact = FALSE, !.claims = [k \in Names |-> v]]
    BY Zenon DEF Damage
  <1>2. wire'.failed = wire.failed /\ wire'.said = wire.said /\ wire'.intact = FALSE
    <2> DEFINE c == [k \in Names |-> v]
               msg == [form |-> wire.form, sig |-> wire.sig, alg |-> wire.alg, cty |-> wire.cty,
                       claims |-> wire.claims, intact |-> wire.intact, said |-> wire.said, failed |-> wire.failed]
               new == [msg EXCEPT !.intact = FALSE, !.claims = c]
    <2>1. wire' = new
      BY Zenon, <1>1 DEF ReadInv, Whole, Damage
    <2> HIDE DEF c
    <2>2. new.failed = wire.failed /\ new.said = wire.said /\ new.intact = FALSE
      BY Zenon
    <2> HIDE DEF new
    <2>3. QED
      BY Zenon, <2>1, <2>2
  <1>3. AsBuilt(wire')
    BY Zenon, <1>2 DEF AsBuilt, ReadInv
  <1>4. UNCHANGED <<tok, out>>
    BY Zenon DEF Damage
  <1>5. QED
    BY <1>2, <1>3, <1>4 DEF ReadInv, VerifiedAsBuilt

LEMMA ReadInvStep == BuildersInv /\ ReadInv /\ [Next]_vars => ReadInv'
  <1> SUFFICES ASSUME BuildersInv, ReadInv, [Next]_vars PROVE ReadInv'
    OBVIOUS
  <1>1. CASE UNCHANGED <<wire, tok, out>>
    BY <1>1 DEF ReadInv, VerifiedAsBuilt
  <1>2. CASE Build
    <2>1. UNCHANGED <<wire, tok, out>>
      BY <1>2, Zenon DEF Build, Signed, Encrypted, SignedAndEncrypted, Claims, WriteMap, WriteNested
    <2>2. QED
      BY <1>1, <2>1
  <1>3. CASE Read
    BY <1>3, ParseSignedReads, ParseEncryptedReads, ParseNestedReads, DecryptReads, AnswerReads, Zenon
    DEF Read
  <1>4. CASE ClaimsRead
    <2>1. wire' = NoMsg /\ tok' = NoToken /\ out' = NoOut
      BY Zenon, <1>4 DEF ClaimsRead
    <2>2. QED
      BY Zenon, <2>1, NothingOK, NoOutIs, NotVerified DEF ReadInv
  <1>5. QED
    BY <1>1, <1>2, <1>3, <1>4, MakeReads, DamageReads, Zenon
    DEF Next, BuildStep, HandOver, ReadStep, CheckStep, vars, tokenVars

LEMMA ReadInvInit == Init => ReadInv
  BY NothingOK, NoOutIs, Zenon DEF Init, TokenInit, ReadInv, VerifiedAsBuilt

\* For all claims, chains of calls, algorithms and dests: what Claims of a JSONWebToken
\* puts into a dest is what the chain of the builder said, under the right keys and by
\* algorithms that the parser was given, through NestedJSONWebToken.Decrypt as well.
THEOREM VerifiedAsBuiltAlways == Spec => []VerifiedAsBuilt
  <1>1. ReadInv => VerifiedAsBuilt
    BY Zenon DEF ReadInv
  <1>2. QED
    BY <1>1, BuildersInit, BuildersStep, ReadInvInit, ReadInvStep, PTL DEF Spec

=============================================================================
