-------------------------------- MODULE Jwk ---------------------------------
(***************************************************************************)
(* JSON Web Keys (jwk.go): MarshalJSON, UnmarshalJSON, Public, Valid and   *)
(* Thumbprint.  A caller has a JSONWebKey, made in Go or parsed from JSON, *)
(* and calls these in any order; JSON also comes from other producers.     *)
(*                                                                         *)
(* A key has a kty, a curve and the members f that are not nil: numbers    *)
(* (EC, RSA) or byte strings (OKP, oct).  JSON members are byte strings;   *)
(* "none" is the empty string, and a curve that is nil.                    *)
(* Bytes and sizes are scaled down.  A certificate is a name with the      *)
(* public key CertKey[name], which is nil (NoKey) for an algorithm that    *)
(* x509 does not know; a thumbprint is the name of its certificate.        *)
(***************************************************************************)
EXTENDS Naturals, Sequences

CONSTANTS Base, CoordSize, EdSize, IntBytes,   \* values of a byte; sizes in bytes
          OnCurve,      \* the points <<x, y>> of the supported curve
          CertKey,      \* the public keys of certificates
          CallerKeys,   \* JSONWebKeys made in Go
          ForeignRaws   \* JSON of other producers

VARIABLES webKey, \* the caller's JSONWebKey
          raw,    \* the JSON at hand
          from,   \* the JSONWebKeys that raw was marshalled from, at most one
          res     \* what the last call returned
jwkVars == <<webKey, raw, from, res>>

(***************************************************************************)
(* Numbers and bytes (encoding.go).                                        *)
(***************************************************************************)
\* A number is its big-endian bytes without leading zeros.
LeadingZeros(b) ==
    CHOOSE n \in 0 .. Len(b) : (\A i \in 1 .. n : b[i] = 0) /\ (n < Len(b) => b[n + 1] # 0)
BigInt(b) == SubSeq(b, LeadingZeros(b) + 1, Len(b))
Num(b) ==
    LET low[n \in 0 .. Len(b)] == IF n = 0 THEN 0 ELSE low[n - 1] * Base + b[n]
    IN  low[Len(b)]
Zeros(n) == [i \in 1 .. n |-> 0]
\* Mutant: the bytes as they are.
FixedSize_Minimal(b, size) == b
\* newFixedSizeBuffer, for numbers that are not too large.
FixedSize(b, size) == Zeros(size - Len(b)) \o b
\* The low bytes that fit into an int.
ToInt(b) == BigInt(SubSeq(b, Len(b) - (IF Len(b) > IntBytes THEN IntBytes ELSE Len(b)) + 1, Len(b)))
\* copy into an array of EdSize bytes.
Fit(b) == SubSeq(b \o Zeros(EdSize), 1, EdSize)

(***************************************************************************)
(* Keys in Go.                                                             *)
(***************************************************************************)
Prints == {"x5t", "x5t#S256"}
NoFields == [n \in {} |-> 0]
Key(kty, half, crv, f) == [kty |-> kty, half |-> half, crv |-> crv, f |-> f]
NoKey == Key("nil", "public", "none", NoFields)
Jwk(key, kid, certs, url, x5t) == [key |-> key, kid |-> kid, certs |-> certs, url |-> url, x5t |-> x5t]
NoPrints == [t \in Prints |-> "none"]
NoJwk == Jwk(NoKey, "none", <<>>, "none", NoPrints)

Private(key) == key.half = "private"
Only(f, names) == [n \in DOMAIN f \cap names |-> f[n]]
PublicMembers(kty) == CASE kty = "EC" -> {"x", "y"} [] kty = "RSA" -> {"n", "e"} [] OTHER -> {"x"}
PublicKey(key) == Key(key.kty, "public", key.crv, Only(key.f, PublicMembers(key.kty)))
\* An Ed25519 private key is sliced at EdSize.
TooShort(key) == key.kty = "OKP" /\ Private(key) /\ Len(key.f.d) < EdSize

IsPublic(key) == key.kty \in {"EC", "RSA", "OKP"} /\ ~Private(key)
\* Mutant: the key is replaced only if it is an EC or RSA key.
Public_NotEd(jwk) ==
    CASE IsPublic(jwk.key) \/ jwk.key.kty = "OKP" -> jwk
      [] jwk.key.kty \in {"EC", "RSA"} /\ Private(jwk.key) -> [jwk EXCEPT !.key = PublicKey(jwk.key)]
      [] OTHER -> NoJwk
Public(jwk) ==
    CASE IsPublic(jwk.key) -> jwk
      [] jwk.key.kty \in {"EC", "RSA", "OKP"} /\ Private(jwk.key) -> [jwk EXCEPT !.key = PublicKey(jwk.key)]
      [] OTHER -> NoJwk

\* The primes of an RSA key are p, q and, of one with more primes, r.
Valid(key) ==
    CASE key.kty = "EC" -> key.crv # "none" /\ {"x", "y"} \cup (IF Private(key) THEN {"d"} ELSE {}) \subseteq DOMAIN key.f
      [] key.kty = "RSA" -> /\ "n" \in DOMAIN key.f /\ key.f.e # <<>>
                            /\ Private(key) => {"d", "p", "q"} \subseteq DOMAIN key.f
      [] key.kty = "OKP" -> \A n \in DOMAIN key.f : Len(key.f[n]) = EdSize
      [] OTHER -> FALSE

(***************************************************************************)
(* Thumbprint: the hash of kty, crv and the public members.                *)
(***************************************************************************)
EcOf(key) == <<"EC", FixedSize(key.f.x, CoordSize), FixedSize(key.f.y, CoordSize)>>
EdThumbprint(key) == key.f.x
Thumbprint(key) ==
    CASE key.kty = "EC" ->
           IF key.crv = "none" THEN <<"panic">>
           ELSE IF key.crv # "P-256" THEN <<"error">>
           ELSE IF ~({"x", "y"} \subseteq DOMAIN key.f) THEN <<"panic">>
           ELSE IF \E n \in {"x", "y"} : Len(key.f[n]) > CoordSize THEN <<"error">>
           ELSE EcOf(key)
      [] key.kty = "RSA" ->      \* newBufferFromInt(0) is nil
           IF "n" \notin DOMAIN key.f \/ key.f.e = <<>> THEN <<"panic">>
           ELSE <<"RSA", key.f.e, key.f.n>>
      [] key.kty = "OKP" ->
           IF TooShort(key) THEN <<"panic">>
           ELSE IF Len(EdThumbprint(key)) > EdSize THEN <<"error">>
           ELSE <<"OKP", Zeros(EdSize - Len(EdThumbprint(key))) \o EdThumbprint(key)>>
      [] OTHER -> <<"error">>

(***************************************************************************)
(* MarshalJSON.                                                            *)
(***************************************************************************)
\* Whether a key can be marshalled: "ok", "error" or "panic".
FromKeyOutcome(key) ==
    LET f == key.f IN
    CASE key.kty = "EC" ->
           IF ~({"x", "y"} \subseteq DOMAIN f) \/ key.crv # "P-256" THEN "error"
           ELSE IF Len(f.x) > CoordSize \/ Len(f.y) > CoordSize THEN "error"
           ELSE IF Private(key) /\ "d" \notin DOMAIN f THEN "error"
           ELSE IF Private(key) /\ Len(f.d) > CoordSize THEN "panic" ELSE "ok"
      [] key.kty = "RSA" ->
           IF Private(key) /\ ("r" \in DOMAIN f \/ ~({"p", "q"} \subseteq DOMAIN f)) THEN "error"
           ELSE IF "n" \notin DOMAIN f \/ (Private(key) /\ "d" \notin DOMAIN f) THEN "panic" ELSE "ok"
      [] key.kty = "OKP" -> IF TooShort(key) THEN "panic" ELSE "ok"
      [] key.kty = "oct" -> "ok"
      [] OTHER -> "error"
FromKey(key) ==
    CASE key.kty = "EC" -> [n \in DOMAIN key.f |-> FixedSize(key.f[n], CoordSize)]
      [] key.kty = "RSA" -> [n \in DOMAIN key.f \ (IF key.f.e = <<>> THEN {"e"} ELSE {}) |-> key.f[n]]
      [] OTHER -> key.f

\* In memory a thumbprint has the right size, or is "odd".
PrintsFail(x5t, certs) ==
    \E t \in Prints : x5t[t] # "none" /\ (x5t[t] = "odd" \/ (certs # <<>> /\ x5t[t] # certs[1]))
\* In JSON it is base64 of the bytes, or of their hex form.
RawForm(v) == [form |-> IF v = "none" THEN "none" ELSE "bytes", v |-> v]
NoRaw == [kty |-> "none", crv |-> "none", m |-> NoFields, kid |-> "none", x5c |-> <<>>, x5u |-> "none",
          x5t |-> [t \in Prints |-> RawForm("none")]]
MarshalOutcome(jwk) ==
    IF FromKeyOutcome(jwk.key) = "ok" /\ PrintsFail(jwk.x5t, jwk.certs) THEN "error"
    ELSE FromKeyOutcome(jwk.key)
RawOf(jwk) ==
    [kty |-> jwk.key.kty, crv |-> jwk.key.crv, m |-> FromKey(jwk.key), kid |-> jwk.kid,
     x5c |-> jwk.certs, x5u |-> jwk.url, x5t |-> [t \in Prints |-> RawForm(jwk.x5t[t])]]

(***************************************************************************)
(* UnmarshalJSON.                                                          *)
(***************************************************************************)
Numbers(m) == [n \in DOMAIN m |-> BigInt(m[n])]
\* ecPrivateKey and ecPublicKey
EcOK(r) ==
    /\ r.crv = "P-256" /\ {"x", "y"} \subseteq DOMAIN r.m
    /\ \A n \in {"x", "y", "d"} \cap DOMAIN r.m : Len(r.m[n]) = CoordSize
    /\ <<BigInt(r.m.x), BigInt(r.m.y)>> \in OnCurve
\* rsa.PrivateKey.Validate
Validate(f) ==
    /\ Num(f.e) > 1 /\ Num(f.p) > 1 /\ Num(f.q) > 1 /\ Num(f.n) = Num(f.p) * Num(f.q)
    /\ \A p \in {Num(f.p), Num(f.q)} : (Num(f.d) * Num(f.e)) % (p - 1) = 1 % (p - 1)
RsaMembers(r) == IF "d" \in DOMAIN r.m THEN {"n", "e", "d", "p", "q", "dp", "dq", "qi"} ELSE {"n", "e"}
RsaKey(r) == [Only(Numbers(r.m), RsaMembers(r)) EXCEPT !.e = ToInt(r.m.e)]
RsaOK(r) ==
    IF "d" \in DOMAIN r.m THEN {"n", "e", "p", "q"} \subseteq DOMAIN r.m /\ Validate(RsaKey(r))
    ELSE {"n", "e"} \subseteq DOMAIN r.m

\* certPub: the public key of the leaf certificate, if there is one and it has one.
CertPub(certs) == IF certs = <<>> THEN NoKey ELSE CertKey[certs[1]]
\* The key of a JWK, and NoKey for an error.  "k": "" is a nil slice.
HalfOf(r) == IF "d" \in DOMAIN r.m THEN "private" ELSE "public"
ToKey(r) ==
    CASE r.kty = "EC" /\ EcOK(r) -> Key("EC", HalfOf(r), "P-256", Only(Numbers(r.m), {"x", "y", "d"}))
      [] r.kty = "RSA" /\ RsaOK(r) -> Key("RSA", HalfOf(r), "none", RsaKey(r))
      [] r.kty = "oct" /\ "k" \in DOMAIN r.m /\ CertPub(r.x5c) = NoKey ->
           Key("oct", "public", "none", IF r.m.k = <<>> THEN NoFields ELSE Only(r.m, {"k"}))
      [] r.kty = "OKP" /\ r.crv = "Ed25519" /\ "x" \in DOMAIN r.m ->
           Key("OKP", HalfOf(r), "Ed25519", [n \in DOMAIN r.m \cap {"x", "d"} |-> Fit(r.m[n])])
      [] OTHER -> NoKey

\* Mutant: private keys are not compared with the certificate.
CertOK_Public(r, key) ==
    CertPub(r.x5c) # NoKey /\ key.kty # "oct" /\ ~Private(key) => CertPub(r.x5c) = key
\* certPub and keyPub are compared if neither is nil; an oct key has no keyPub.
CertOK(r, key) == CertPub(r.x5c) # NoKey /\ key.kty # "oct" => CertPub(r.x5c) = PublicKey(key)

\* The thumbprint as it ends up in memory.
Decoded(x) == IF x.form \in {"bytes", "hex"} THEN x.v ELSE "none"
\* From the assignment to *k on, an error leaves what was assigned before it.
Late(r, key) ==
    LET j(url, x5t) == Jwk(key, r.kid, r.x5c, url, x5t)
        one == [NoPrints EXCEPT !["x5t"] = Decoded(r.x5t["x5t"])]
        both == [t \in Prints |-> Decoded(r.x5t[t])]
        bad(t) == r.x5t[t].form \in {"badbase64", "badhex"}
    IN  CASE r.x5u = "bad" -> [k |-> j("none", NoPrints), res |-> "error"]
          [] r.x5u # "bad" /\ bad("x5t") -> [k |-> j(r.x5u, NoPrints), res |-> "error"]
          [] r.x5u # "bad" /\ ~bad("x5t") /\ bad("x5t#S256") -> [k |-> j(r.x5u, one), res |-> "error"]
          [] OTHER -> [k |-> j(r.x5u, both), res |-> IF PrintsFail(both, r.x5c) THEN "error" ELSE "ok"]
UnmarshalJSON(r, old) ==
    IF ToKey(r) = NoKey \/ ~CertOK(r, ToKey(r)) THEN [k |-> old, res |-> "error"]
    ELSE Late(r, ToKey(r))

(***************************************************************************)
(* What the Go types and the constructors of the standard library allow:   *)
(* numbers have no leading zeros, the exponent of an RSA key is an int,    *)
(* and a key has the members of its kind.                                  *)
(***************************************************************************)
Minimal(b) == b = <<>> \/ b[1] # 0
IsKey(key) ==
    /\ key = Key(key.kty, key.half, key.crv, key.f)
    /\ key.half \in {"public", "private"}
    /\ key.f \in [DOMAIN key.f -> Seq(Nat)]
    /\ key.kty \in {"EC", "RSA"} => \A n \in DOMAIN key.f : Minimal(key.f[n])
    /\ key.kty = "EC" => DOMAIN key.f \subseteq {"x", "y"} \cup (IF Private(key) THEN {"d"} ELSE {})
    /\ key.kty = "RSA" =>
          /\ key.crv = "none" /\ "e" \in DOMAIN key.f /\ Len(key.f["e"]) <= IntBytes
          /\ DOMAIN key.f \subseteq
                {"n", "e"} \cup (IF Private(key) THEN {"d", "p", "q", "r", "dp", "dq", "qi"} ELSE {})
    /\ key.kty = "OKP" =>
          /\ key.crv = "Ed25519"
          /\ DOMAIN key.f = {"x"} \cup (IF Private(key) THEN {"d"} ELSE {})
    /\ key.kty = "oct" => key.crv = "none" /\ ~Private(key) /\ DOMAIN key.f \subseteq {"k"}
IsCerts(certs) == certs # <<>> => certs[1] \in DOMAIN CertKey
IsJwk(jwk) ==
    /\ jwk = Jwk(jwk.key, jwk.kid, jwk.certs, jwk.url, jwk.x5t)
    /\ IsKey(jwk.key) /\ IsCerts(jwk.certs) /\ jwk.url # "bad"
    /\ jwk.x5t = [t \in Prints |-> jwk.x5t[t]]
IsRaw(r) == r.m \in [DOMAIN r.m -> Seq(Nat)] /\ IsCerts(r.x5c)

\* The inputs are what Go and JSON can hold; no certificate is of a symmetric key.
ASSUME KeyAssumption ==
    /\ {CoordSize, EdSize, IntBytes} \subseteq Nat
    /\ \A c \in DOMAIN CertKey : CertKey[c].kty # "oct"
    /\ \A jwk \in CallerKeys : IsJwk(jwk)
    /\ \A r \in ForeignRaws : IsRaw(r)

(***************************************************************************)
(* The caller.                                                             *)
(***************************************************************************)
JwkInit == webKey = NoJwk /\ raw = NoRaw /\ from = {} /\ res = "none"

\* One key made in Go and one JSON text from elsewhere, in either order, bound a run.
NewKey == webKey = NoJwk /\ webKey' \in CallerKeys /\ res' = "none" /\ UNCHANGED <<raw, from>>
Foreign == raw = NoRaw /\ raw' \in ForeignRaws /\ UNCHANGED <<webKey, from, res>>
Marshal ==
    /\ res' = MarshalOutcome(webKey)
    /\ IF MarshalOutcome(webKey) = "ok" THEN raw' = RawOf(webKey) /\ from' = {webKey} ELSE UNCHANGED <<raw, from>>
    /\ UNCHANGED webKey
Unmarshal ==
    /\ webKey' = UnmarshalJSON(raw, webKey).k
    /\ res' = IF UnmarshalJSON(raw, webKey).res = "ok" THEN "parsed" ELSE "unparsed"
    /\ UNCHANGED <<raw, from>>
TakePublic ==
    /\ IF TooShort(webKey.key) THEN res' = "panic" /\ UNCHANGED webKey ELSE res' = "public" /\ webKey' = Public(webKey)
    /\ UNCHANGED <<raw, from>>

JwkNext == NewKey \/ Foreign \/ Marshal \/ Unmarshal \/ TakePublic
JwkSpec == JwkInit /\ [][JwkNext]_jwkVars

-----------------------------------------------------------------------------
\* The leaf certificate, if any, is of this key, or x509 knows no key of it.
CertMatches(jwk) == CertPub(jwk.certs) \in {NoKey, PublicKey(jwk.key)}
Sound(jwk) ==
    /\ CertMatches(jwk)
    /\ CASE jwk.key.kty = "EC" -> Valid(jwk.key) /\ <<jwk.key.f.x, jwk.key.f.y>> \in OnCurve
         [] jwk.key.kty = "RSA" -> Valid(jwk.key) /\ (Private(jwk.key) => Validate(jwk.key.f))
         [] jwk.key.kty = "oct" -> "k" \in DOMAIN jwk.key.f /\ jwk.key.f.k # <<>>
         [] OTHER -> Valid(jwk.key)

\* UnmarshalJSON of what MarshalJSON wrote is the same key, for keys that are what
\* they claim to be, with leading zeros and optional members, and however often the
\* key has been through JSON before.
RoundTrip == \A j \in from : Sound(j) /\ res \in {"parsed", "unparsed"} => res = "parsed" /\ webKey = j

\* UnmarshalJSON never leaves the caller a key next to a certificate that holds another
\* public key, not even when it fails after it has assigned to its receiver.  Of a
\* certificate without a key that x509 knows, nothing is said: the code does not look.
CertOfKey == [][res' \in {"parsed", "unparsed"} /\ webKey' # webKey => CertMatches(webKey')]_jwkVars

\* Public of a valid key is a valid public key of the same Thumbprint, without a
\* secret member: two functions that each take the public part of a private key, once
\* per key type, agree.
PublicOfValid ==
    Valid(webKey.key) => LET p == Public(webKey).key IN
        /\ Valid(p) /\ IsPublic(p) /\ DOMAIN p.f = PublicMembers(p.kty)
        /\ Thumbprint(p) = Thumbprint(webKey.key)
=============================================================================
