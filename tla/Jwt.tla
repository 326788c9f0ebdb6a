-------------------------------- MODULE Jwt ---------------------------------
(***************************************************************************)
(* The builders and tokens of the jwt package (jwt/builder.go, jwt/jwt.go).*)
(* A caller chains Claims calls on builders, may go on from any builder it *)
(* still has, and may write to the map it passed before.  A builder makes  *)
(* a message or a token; a reader parses the message and asks for claims.  *)
(*                                                                         *)
(* A claim has a plain value, or holds the caller's nested map (the value  *)
(* "ref", read when the claims are encoded), or a value that cannot be     *)
(* encoded ("bad").  Signing and encryption are those of Jws and Jwe: a    *)
(* message that was damaged on its way, or a wrong key, does not verify.   *)
(***************************************************************************)
EXTENDS Naturals, Sequences

CONSTANTS Names,       \* of claims
          Plain,       \* plain values
          Structs,     \* the structs that callers pass: functions from names to values
          SigAlgs, KeyAlgs,
          MaxBuilders, MaxWrites

\* The members of a struct passed to Claims are values, references or unencodable.
ASSUME StructsAssumption ==
    Structs \subseteq UNION {[K -> Plain \cup {"ref", "bad"}] : K \in SUBSET Names}

VARIABLES builders,  \* every builder made so far
          heap,      \* the payload maps of the builders
          map,       \* the caller's map[string]interface{}
          nested,    \* what the caller's nested map holds
          writes,    \* the caller's writes so far
          wire,      \* the message on its way
          tok,       \* the token that the reader, or the caller of Token, has
          out        \* the last answer of the token that the reader has
tokenVars == <<builders, heap, map, nested, writes, wire, tok, out>>
caller == <<map, nested, writes>>
made == <<builders, heap>>

(***************************************************************************)
(* Claims.                                                                 *)
(***************************************************************************)
NoMembers == [k \in {} |-> ""]
\* json.Marshal of a map; a nil map is null.
CanEncode(p) == "bad" \notin {p[k] : k \in DOMAIN p}
Encode(p) == [k \in DOMAIN p |-> IF p[k] = "ref" THEN nested ELSE p[k]]
\* A builder has a payload, the index of a map or 0 for nil, and the first error.
\* said and failed record for the properties what went into the chain, a map as it is
\* and a struct as it is encoded, and what of it was refused.
Builder(kind, sig, alg, cty, err) ==
    [kind |-> kind, sig |-> sig, alg |-> alg, cty |-> cty, payload |-> 0, err |-> err,
     said |-> NoMembers, failed |-> IF err = "" THEN {} ELSE {err}]

Payload(b) == IF b.payload = 0 THEN NoMembers ELSE heap[b.payload]

\* merge: a new map; the later claims win.
Over(m, p) == [k \in DOMAIN m \cup DOMAIN p |-> IF k \in DOMAIN m THEN m[k] ELSE p[k]]
Alloc(b, m) == [heap |-> Append(heap, Over(m, Payload(b))), at |-> Len(heap) + 1]
\* Mutant: the claims are added to the map that the builder has.
Merge_InPlace(b, m) ==
    IF b.payload = 0 THEN Alloc(b, m)
    ELSE [heap |-> [heap EXCEPT ![b.payload] = Over(m, @)], at |-> b.payload]
Merge(b, m) == Alloc(b, m)

\* For the properties a message records what its builder was told, a token which
\* algorithms its reader allowed and whether the keys so far were the right ones,
\* and an answer (out) what each dest holds, and of which token and key it is.
NoMsg == [form |-> "none", sig |-> "", alg |-> "", cty |-> "", claims |-> NoMembers, intact |-> TRUE,
          said |-> NoMembers, failed |-> {}]
NoToken == [form |-> "none", msg |-> NoMsg, parsed |-> FALSE, unverified |-> FALSE, algs |-> {},
            allowed |-> [sig |-> {}, alg |-> {}], right |-> TRUE]
NoOut == [res |-> "none", held |-> <<>>, asked |-> 0, verified |-> FALSE, of |-> NoToken, right |-> FALSE]

TokenInit ==
    /\ builders = <<>> /\ heap = <<>>
    /\ map = NoMembers /\ nested \in Plain /\ writes = 0
    /\ wire = NoMsg /\ tok = NoToken /\ out = NoOut

Add(b) == Len(builders) < MaxBuilders /\ builders' = Append(builders, b)

Signed(sig) == Add(Builder("signed", sig, "", "", "")) /\ UNCHANGED <<heap, caller, wire, tok, out>>
Encrypted(alg, cty) == Add(Builder("encrypted", "", alg, cty, "")) /\ UNCHANGED <<heap, caller, wire, tok, out>>
SignedAndEncrypted(sig, alg, cty) ==
    /\ Add(Builder("nested", sig, alg, cty, IF cty = "JWT" THEN "" ELSE "ErrInvalidContentType"))
    /\ UNCHANGED <<heap, caller, wire, tok, out>>

\* builder.claims: the new builder, when the receiver has no error.
Fails(b, err) == [b EXCEPT !.payload = 0, !.err = err]
Accepts(how, m) == how = "map" \/ (how = "struct" /\ CanEncode(m))
\* normalize encodes a struct; of a map the members are taken.
Passed(how, m) == IF how = "struct" THEN Encode(m) ELSE m
Noted(b, how, m) ==
    [b EXCEPT !.said = Over(Passed(how, m), @),
              !.failed = @ \cup IF Accepts(how, m) THEN {} ELSE {how}]

Sticky(b) == b.err # ""

\* Claims of builder i with a map, a struct or anything else.
Claims(i, how, m) ==
    LET b == builders[i]
        new == Merge(b, Passed(how, m))
    IN  /\ UNCHANGED <<caller, wire, tok, out>>
        /\ CASE Sticky(b) -> Add(Noted(b, how, m)) /\ UNCHANGED heap
             [] ~Sticky(b) /\ Accepts(how, m) ->
                  /\ Add(Noted([b EXCEPT !.payload = new.at, !.err = ""], how, m))
                  /\ heap' = new.heap
             [] OTHER -> /\ Add(Noted(Fails(b, IF how = "struct" THEN "json" ELSE "ErrInvalidClaims"), how, m))
                         /\ UNCHANGED heap

\* The caller goes on using its maps.
WriteMap(k, v) ==
    /\ writes < MaxWrites /\ writes' = writes + 1
    /\ map' = Over([n \in {k} |-> v], map)
    /\ UNCHANGED <<made, nested, wire, tok, out>>
WriteNested(v) ==
    /\ writes < MaxWrites /\ writes' = writes + 1
    /\ nested' = v
    /\ UNCHANGED <<made, map, wire, tok, out>>

(***************************************************************************)
(* sign, encrypt and signAndEncrypt.                                       *)
(***************************************************************************)
Form(kind) == CASE kind = "signed" -> "jws" [] kind = "encrypted" -> "jwe" [] OTHER -> "nested"
Makes(b) == b.err = "" /\ CanEncode(Payload(b))
Message(b) == [form |-> Form(b.kind), sig |-> b.sig, alg |-> b.alg, cty |-> b.cty,
               claims |-> Encode(Payload(b)), intact |-> TRUE, said |-> Encode(b.said), failed |-> b.failed]

\* A builder with an error, or whose claims cannot be encoded, makes nothing.
Serialize(i) ==
    /\ wire' = IF Makes(builders[i]) THEN Message(builders[i]) ELSE NoMsg
    /\ UNCHANGED <<made, caller, tok, out>>
\* The token of a builder has no unverified payload and no allowed algorithms.
Token(i) ==
    /\ tok' = IF Makes(builders[i])
              THEN [form |-> Form(builders[i].kind), msg |-> Message(builders[i]), parsed |-> FALSE,
                    unverified |-> FALSE, algs |-> {}, allowed |-> NoToken.allowed, right |-> TRUE]
              ELSE NoToken
    /\ UNCHANGED <<made, caller, wire, out>>

\* The payload arrives changed.
Damage ==
    /\ wire.form # "none" /\ wire.intact
    /\ \E v \in Plain : wire' = [wire EXCEPT !.intact = FALSE, !.claims = [k \in Names |-> v]]
    /\ UNCHANGED <<made, caller, tok, out>>

(***************************************************************************)
(* Parsing.                                                                *)
(***************************************************************************)
Refused == {"ED25519", "RSA1_5", "RSA-OAEP", "RSA-OAEP-256", "ECDH-ES", "ECDH-ES+A128KW", "ECDH-ES+A192KW",
            "ECDH-ES+A256KW", "PBES2-HS256+A128KW", "PBES2-HS384+A192KW", "PBES2-HS512+A256KW"}
\* validateKeyEncryptionAlgorithm looks at what the caller allows.
ValidateKeyEncryptionAlgorithm(algs) == algs \cap Refused = {}
ParsedAs(form, unverified, algs, sig, alg) ==
    [form |-> form, msg |-> wire, parsed |-> TRUE, unverified |-> unverified, algs |-> algs,
     allowed |-> [sig |-> sig, alg |-> alg], right |-> TRUE]

ParseSigned(algs) ==
    /\ tok' = IF wire.form = "jws" /\ wire.sig \in algs THEN ParsedAs("jws", TRUE, {}, algs, {}) ELSE NoToken
    /\ out' = NoOut /\ UNCHANGED <<made, caller, wire>>
\* A nested token parses as an encrypted one whose payload is not claims.
ParseEncrypted(algs) ==
    /\ tok' = IF /\ ValidateKeyEncryptionAlgorithm(algs)
                 /\ wire.form \in {"jwe", "nested"} /\ wire.alg \in algs
              THEN ParsedAs("jwe", FALSE, {}, {}, algs) ELSE NoToken
    /\ out' = NoOut /\ UNCHANGED <<made, caller, wire>>
ParseSignedAndEncrypted(algs, sigs) ==
    /\ tok' = IF /\ ValidateKeyEncryptionAlgorithm(algs)
                 /\ wire.form \in {"jwe", "nested"} /\ wire.alg \in algs
                 /\ wire.cty \in {"JWT", "jwt"}
              THEN ParsedAs("nested", FALSE, sigs, sigs, algs) ELSE NoToken
    /\ out' = NoOut /\ UNCHANGED <<made, caller, wire>>

\* NestedJSONWebToken.Decrypt: the inner token, with the algorithms of the parser.
Decrypt(right) ==
    /\ tok.form = "nested"
    /\ tok' = IF right /\ tok.msg.intact /\ tok.msg.form = "nested" /\ tok.msg.sig \in tok.algs
              THEN [form |-> "jws", msg |-> tok.msg, parsed |-> TRUE, unverified |-> TRUE, algs |-> tok.algs,
                    allowed |-> tok.allowed, right |-> right]
              ELSE NoToken
    /\ out' = NoOut /\ UNCHANGED <<made, caller, wire>>

\* The payload is JSON claims, unless an encrypted token holds a signed one.
HoldsClaims == tok.form = "jws" \/ tok.msg.form = "jwe"
\* A dest is the set of the claims whose values fit it: json.Unmarshal stores these,
\* and returns an error when there are others.
Fits(dest) == HoldsClaims /\ DOMAIN tok.msg.claims \subseteq dest
Taken(dest) == [k \in DOMAIN tok.msg.claims \cap dest |-> tok.msg.claims[k]]
\* Each dest in turn; an error stops, and what was written before stays.
Fill(dests, verified, right) ==
    LET reached == {i \in DOMAIN dests : HoldsClaims /\ \A j \in 1..i - 1 : Fits(dests[j])}
    IN  [res |-> IF \A i \in DOMAIN dests : Fits(dests[i]) THEN "ok" ELSE "json",
         held |-> [i \in reached |-> Taken(dests[i])], asked |-> Len(dests), verified |-> verified,
         of |-> tok, right |-> tok.right /\ right]

\* Mutant: the dests are filled before the signature is checked.
ClaimsOf_Early(right, dests) ==
    /\ tok.form \in {"jws", "jwe"}
    /\ out' = Fill(dests, TRUE, right)
    /\ UNCHANGED <<made, caller, wire, tok>>
ClaimsOf(right, dests) ==
    /\ tok.form \in {"jws", "jwe"}
    /\ out' = IF right /\ tok.msg.intact THEN Fill(dests, TRUE, right) ELSE [NoOut EXCEPT !.res = "crypto"]
    /\ UNCHANGED <<made, caller, wire, tok>>
UnsafeClaimsWithoutVerification(dests) ==
    /\ tok.form \in {"jws", "jwe"}
    /\ out' = IF tok.unverified THEN Fill(dests, FALSE, FALSE) ELSE [NoOut EXCEPT !.res = "unavailable"]
    /\ UNCHANGED <<made, caller, wire, tok>>

(***************************************************************************)
(* Everybody.                                                              *)
(***************************************************************************)
\* One dest that fits, or two of which one may not.
Dests == {<<Names>>} \cup {<<d, Names>> : d \in SUBSET Names} \cup {<<Names, d>> : d \in SUBSET Names}
Build ==
    \/ \E s \in SigAlgs : Signed(s)
    \/ \E a \in KeyAlgs, c \in {"", "JWT"} : Encrypted(a, c)
    \/ \E s \in SigAlgs, a \in KeyAlgs, c \in {"", "JWT"} : SignedAndEncrypted(s, a, c)
    \/ \E i \in DOMAIN builders : \/ Claims(i, "map", map) \/ Claims(i, "other", NoMembers)
                                  \/ \E m \in Structs : Claims(i, "struct", m)
    \/ \E k \in Names, v \in Plain \cup {"ref", "bad"} : WriteMap(k, v)
    \/ \E v \in Plain : WriteNested(v)
Make == \E i \in DOMAIN builders : Serialize(i) \/ Token(i)
Read ==
    \/ \E s \in SUBSET SigAlgs : ParseSigned(s)
    \/ \E a \in SUBSET KeyAlgs : ParseEncrypted(a)
    \/ \E a \in SUBSET KeyAlgs, s \in SUBSET SigAlgs : ParseSignedAndEncrypted(a, s)
    \/ \E ok \in BOOLEAN : Decrypt(ok) \/ \E d \in Dests : ClaimsOf(ok, d)
    \/ \E d \in Dests : UnsafeClaimsWithoutVerification(d)
-----------------------------------------------------------------------------
\* A builder holds the claims of its own chain of calls, the later ones winning,
\* whatever is done with other builders that started from it or with the map that
\* was passed to Claims.
OwnClaims ==
    \A i \in DOMAIN builders :
        LET b == builders[i] IN
        b.failed = {} /\ b.payload # 0 => Payload(b) = b.said

\* The algorithms of a parsed token are among those that its reader allowed.
AlgsAllowed(t) ==
    LET msg == t.msg IN
    t.parsed => /\ (msg.form \in {"jws", "nested"} => msg.sig \in t.allowed.sig)
                /\ (msg.form \in {"jwe", "nested"} => msg.alg \in t.allowed.alg \ Refused)
\* Whatever Claims of a token puts into a dest is what the builder of the token was
\* told, in a chain of which no call failed, and was read with the right keys and by
\* algorithms that the parser was given.  When Claims succeeds every dest has all the
\* claims; when it fails in one, those before it have them and those after it nothing.
VerifiedAsBuilt ==
    out.verified =>
        LET said == out.of.msg.said IN
        /\ DOMAIN out.held # {} => out.right /\ out.of.msg.failed = {} /\ AlgsAllowed(out.of)
        /\ out.res = "ok" => DOMAIN out.held = 1..out.asked
        /\ \A i \in DOMAIN out.held :
              /\ \A k \in DOMAIN out.held[i] : k \in DOMAIN said /\ out.held[i][k] = said[k]
              /\ (out.res = "ok" \/ i + 1 \in DOMAIN out.held) => out.held[i] = said
=============================================================================
