----------------------------- MODULE JoseHeader -----------------------------
(***************************************************************************)
(* The JOSE header algebra of shared.go: rawHeader, its typed getters, the *)
(* critical-header checks, sanitized() and merge().                        *)
(*                                                                         *)
(* A rawHeader is a function from the header parameters that are present   *)
(* to raw JSON values.  A raw JSON value is a tuple whose first element is *)
(* its JSON kind, so what json.Unmarshal accepts for a Go type is a test   *)
(* on the kind.  Null stands for the nil *json.RawMessage that the member  *)
(* value null decodes to.                                                  *)
(***************************************************************************)
EXTENDS Sequences

Str(s)   == <<"str", s>>
Bool(b)  == <<"bool", b>>
Names(S) == <<"names", S>>     \* an array of strings, as the set of its elements
JwkOf(j) == <<"jwk", j>>       \* an object that decodes as a JSONWebKey
Null     == <<"null">>

Kind(v)  == v[1]
Value(v) == v[2]

EmptyHeader == [k \in {} |-> Null]

\* A *rawHeader is NoHeader (nil) or <<h>>.
NoHeader == <<>>

\* A Go byte slice is nil, empty, or a value of its own.
NilBytes   == "<nil>"
EmptyBytes == ""

(***************************************************************************)
(* Bytes of a protected header: absent (nil byteBuffer), empty (non-nil    *)
(* buffer with no bytes), junk (not a JSON object), or a serialization of  *)
(* a header, canonical when it is the one mustSerializeJSON writes.        *)
(***************************************************************************)
Absent       == <<"absent">>
Canonical(h) == <<"json", h, TRUE>>
HeaderPtr(prot) == IF Kind(prot) = "json" THEN <<prot[2]>> ELSE NoHeader
HeaderOf(prot)  == IF Kind(prot) = "json" THEN prot[2] ELSE EmptyHeader
BytesOf(ptr) == IF ptr = NoHeader THEN Absent ELSE Canonical(ptr[1])

(***************************************************************************)
(* Getters.                                                                *)
(***************************************************************************)
Present(h, k) == k \in DOMAIN h /\ Kind(h[k]) # "null"

\* rawHeader.getString: a missing, null or non-string member reads as "".
GetString(h, k) ==
    IF k \in DOMAIN h /\ Kind(h[k]) = "str" THEN Value(h[k]) ELSE ""

\* rawHeader.getCritical, the error of a non-array member as a flag.
CriticalOK(h) == Present(h, "crit") => Kind(h["crit"]) = "names"
GetCritical(h) == IF Present(h, "crit") THEN Value(h["crit"]) ELSE {}

\* rawHeader.getB64 as computeAuthData uses it: an error counts as TRUE.
GetB64(h) ==
    IF Present(h, "b64") /\ Kind(h["b64"]) = "bool" THEN Value(h["b64"]) ELSE TRUE

\* rawHeader.checkNoCritical tests the map for the key: a null member counts.
CheckNoCritical(h) == "crit" \notin DOMAIN h

SupportedCritical == {"b64"}

\* rawHeader.checkSupportedCritical.
CheckSupportedCritical(h) == CriticalOK(h) /\ GetCritical(h) \subseteq SupportedCritical

(***************************************************************************)
(* merge.                                                                  *)
(***************************************************************************)
\* A parameter counts as set when it is present, not null and not "".
IsSet(h, k) == Present(h, k) /\ h[k] # Str("")

\* dst.merge(src) for a non-nil src: what dst has set wins.
Merge_SourceWins(dst, src) ==
    [k \in DOMAIN dst \cup DOMAIN src |-> IF k \in DOMAIN src THEN src[k] ELSE dst[k]]
Merge(dst, src) ==
    [k \in DOMAIN dst \cup DOMAIN src |->
        IF k \in DOMAIN src /\ ~IsSet(dst, k) THEN src[k] ELSE dst[k]]

MergePtr(dst, ptr) == IF ptr = NoHeader THEN dst ELSE Merge(dst, ptr[1])

\* A parameter that is assigned: extraHeaders replace what is there.
Override(f, g) ==
    [k \in DOMAIN f \cup DOMAIN g |-> IF k \in DOMAIN g THEN g[k] ELSE f[k]]

(***************************************************************************)
(* sanitized: the typed Header a parsed message exposes, or an error.      *)
(* "none" is a nil JSONWebKey; extra is the domain of ExtraHeaders.        *)
(***************************************************************************)
TypedKeys == [alg |-> "str", kid |-> "str", nonce |-> "str", jwk |-> "jwk"]

SanitizeOK(h) ==
    \A k \in DOMAIN h \cap DOMAIN TypedKeys : Kind(h[k]) \in {"null", TypedKeys[k]}

Sanitized(h) ==
    [alg   |-> GetString(h, "alg"),
     kid   |-> GetString(h, "kid"),
     nonce |-> GetString(h, "nonce"),
     jwk   |-> IF Present(h, "jwk") THEN h["jwk"] ELSE Null,
     extra |-> {k \in DOMAIN h \ DOMAIN TypedKeys : Present(h, k)}]

\* The zero Header of a Signature whose header was never parsed.
ZeroHeader == Sanitized(EmptyHeader)

SanitizePtrOK(ptr) == ptr # NoHeader => SanitizeOK(ptr[1])
SanitizedPtr(ptr)  == IF ptr = NoHeader THEN ZeroHeader ELSE Sanitized(ptr[1])

\* JSONWebKeySet.Key: the entries of a key set with this kid, in order.
KeysOf(jwks, kid) == SelectSeq(jwks, LAMBDA e : e.kid = kid)

\* tryJWKS: the candidate key as a sequence of length at most one.
TryJWKS(vk, header) ==
    IF Kind(vk) = "key" THEN <<Value(vk)>>
    ELSE IF header.kid = "" \/ KeysOf(Value(vk), header.kid) = <<>> THEN <<>>
         ELSE <<KeysOf(Value(vk), header.kid)[1].key>>
=============================================================================
