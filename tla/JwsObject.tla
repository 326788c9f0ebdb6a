----------------------------- MODULE JwsObject ------------------------------
(***************************************************************************)
(* The operations of the JWS half of the library (signing.go, jws.go):     *)
(* NewMultiSigner and Sign, the compact, detached and JSON serializations, *)
(* the parsers, Verify and VerifyMulti, each as an operator on the object  *)
(* or the message it is called with.  Module Jws runs them.                *)
(*                                                                         *)
(* Signatures are symbolic: a signature is the tuple of the key, the       *)
(* algorithm and the exact input bytes it was made over.  The input is the *)
(* pair of the protected header's bytes and the payload text.  A text is   *)
(* the base64 form B64[p] or the raw form Raw[p] of a payload p.           *)
(***************************************************************************)
EXTENDS JoseHeader, Naturals

CONSTANTS Key,         \* records [id, type, bits]
          Payload,     \* Go byte slices; NilBytes and EmptyBytes among them
          B64, Raw     \* payload -> base64 text, payload -> its own bytes as text

\* base64url encodes equal byte strings, and only those, to equal texts; a nil
\* slice has the bytes of an empty one.
ASSUME PayloadAssumption ==
    /\ {NilBytes, EmptyBytes} \subseteq Payload
    /\ Raw[NilBytes] = Raw[EmptyBytes]
    /\ \A p, q \in Payload : B64[p] = B64[q] <=> Raw[p] = Raw[q]

(***************************************************************************)
(* Algorithms: the key type each accepts, and the size that goes with it.  *)
(***************************************************************************)
SignatureAlgorithm ==
    [HS256 |-> <<"mac", 256>>, HS384 |-> <<"mac", 384>>, HS512 |-> <<"mac", 512>>,
     RS256 |-> <<"rsa", 0>>,   RS384 |-> <<"rsa", 0>>,   RS512 |-> <<"rsa", 0>>,
     PS256 |-> <<"rsa", 0>>,   PS384 |-> <<"rsa", 0>>,   PS512 |-> <<"rsa", 0>>,
     ES256 |-> <<"ec", 256>>,  ES384 |-> <<"ec", 384>>,  ES512 |-> <<"ec", 521>>,
     EdDSA |-> <<"ed", 0>>]

\* newEd25519Signer, newRSASigner, newECDSASigner, newSymmetricSigner.
NewSignerOK(alg, key) ==
    alg \in DOMAIN SignatureAlgorithm /\ SignatureAlgorithm[alg][1] = key.type

\* The size checks of signPayload: curve size exact, HMAC key long enough.
SizeOK(alg, key) ==
    LET bits == SignatureAlgorithm[alg][2]
    IN  (key.type = "ec" => key.bits = bits) /\ (key.type = "mac" => key.bits >= bits)

SignPayload(key, alg, input) == <<key.id, alg, input>>

VerifyPayload_AnyAlg(key, alg, input, sig) ==
    Len(sig) = 3 /\ sig[1] = key.id /\ sig[3] = input
\* verifyPayload of the four key types.
VerifyPayload(key, alg, input, sig) ==
    /\ NewSignerOK(alg, key)
    /\ key.type = "mac" => SizeOK(alg, key)
    /\ sig = SignPayload(key, alg, input)

NoSig  == <<>>
RawSig == [protected |-> Absent, header |-> NoHeader, signature |-> NoSig]

(***************************************************************************)
(* Sign.                                                                   *)
(***************************************************************************)
\* A recipient with a public key embeds it or names its kid; extraHeaders win.
KeyHeader(conf, r) ==
    CASE r.key.type = "mac" -> EmptyHeader
      [] r.key.type # "mac" /\ conf.embedJWK ->
            [jwk |-> JwkOf([id |-> r.key.id, public |-> TRUE])]
      [] r.key.type # "mac" /\ ~conf.embedJWK /\ r.kid # "" -> [kid |-> Str(r.kid)]
      [] OTHER -> EmptyHeader

NonceHeader(conf) ==
    IF conf.nonce = "" THEN EmptyHeader ELSE [nonce |-> Str(conf.nonce)]

ProtectedFor(conf, r) ==
    Override(Override(Override([alg |-> Str(r.alg)], KeyHeader(conf, r)),
                      NonceHeader(conf)),
             conf.extra)

PayloadText(h, p) == IF GetB64(h) THEN B64[p] ELSE Raw[p]

NewMultiSignerOK(conf) ==
    \A i \in DOMAIN conf.recipients : NewSignerOK(conf.recipients[i].alg, conf.recipients[i].key)

\* Every recipient must sign; a b64 extra header must be a bool.
SignOK(conf) ==
    /\ \A i \in DOMAIN conf.recipients : SizeOK(conf.recipients[i].alg, conf.recipients[i].key)
    /\ conf.recipients # <<>> /\ "b64" \in DOMAIN conf.extra => Kind(conf.extra["b64"]) = "bool"
    /\ conf.recipients # <<>> => conf.nonce # "error"

SignOne(conf, r, p) ==
    LET h == ProtectedFor(conf, r)
    IN  [protected |-> <<h>>, header |-> NoHeader, original |-> Absent,
         signature |-> SignPayload(r.key, r.alg, <<Canonical(h), PayloadText(h, p)>>),
         Header |-> ZeroHeader, Protected |-> ZeroHeader, Unprotected |-> ZeroHeader]

SignObject(conf, p) ==
    [payload |-> p,
     sigs |-> [i \in DOMAIN conf.recipients |-> SignOne(conf, conf.recipients[i], p)]]

(***************************************************************************)
(* Serialization.  A message on the wire keeps the bytes its base64 parts  *)
(* decode to.  form is "compact" or "json"; a JSON message has its         *)
(* signatures array in sigs, or the flattened members in flat.             *)
(***************************************************************************)
NoPayload == "<absent>"

CompactOK(obj) ==
    Len(obj.sigs) = 1 /\ obj.sigs[1].header = NoHeader /\ obj.sigs[1].protected # NoHeader

CompactSerialize(obj, detached) ==
    [form |-> "compact",
     payload |-> IF detached \/ obj.payload = NilBytes THEN EmptyBytes ELSE obj.payload,
     flat |-> [protected |-> BytesOf(obj.sigs[1].protected), header |-> NoHeader,
               signature |-> obj.sigs[1].signature],
     sigs |-> <<>>]

RawOf(sig) ==
    [protected |-> BytesOf(sig.protected), header |-> sig.header, signature |-> sig.signature]

\* newBuffer(nil) is nil, and omitempty leaves a nil payload out.
FullSerialize(obj) ==
    [form |-> "json",
     payload |-> IF obj.payload = NilBytes THEN NoPayload ELSE obj.payload,
     flat |-> IF Len(obj.sigs) = 1 THEN RawOf(obj.sigs[1]) ELSE RawSig,
     sigs |-> IF Len(obj.sigs) = 1 THEN <<>>
              ELSE [i \in DOMAIN obj.sigs |-> RawOf(obj.sigs[i])]]

(***************************************************************************)
(* Parsing: rawJSONWebSignature.sanitized.                                 *)
(***************************************************************************)
\* Signature.mergedHeaders.
MergedHeaders(protected, header) ==
    MergePtr(MergePtr(EmptyHeader, protected), header)

\* seen is sig.header while the headers are computed: the unprotected header
\* in the flattened branch, still nil in the loop over the signatures array.
ParseSigOK_AnyAlg(raw, allow, seen) ==
    /\ Kind(raw.protected) # "junk"
    /\ raw.header # NoHeader => GetString(raw.header[1], "nonce") = ""
    /\ SanitizeOK(MergedHeaders(HeaderPtr(raw.protected), seen))
ParseSigOK(raw, allow, seen) ==
    LET merged == MergedHeaders(HeaderPtr(raw.protected), seen)
    IN  /\ Kind(raw.protected) # "junk"
        /\ raw.header # NoHeader => GetString(raw.header[1], "nonce") = ""
        /\ SanitizeOK(merged)
        /\ GetString(merged, "alg") \in allow
        /\ SanitizePtrOK(seen)
        /\ SanitizePtrOK(HeaderPtr(raw.protected))
        /\ Present(merged, "jwk") => Value(merged["jwk"]).public

ParseSig(raw, seen) ==
    LET ptr == HeaderPtr(raw.protected)
    IN  [protected |-> ptr, header |-> raw.header, original |-> raw.protected,
         signature |-> raw.signature,
         Header |-> Sanitized(MergedHeaders(ptr, seen)),
         Protected |-> SanitizedPtr(ptr),
         Unprotected |-> SanitizedPtr(seen)]

SanitizedOK(msg, allow) ==
    /\ allow # {}
    /\ msg.payload # NoPayload
    /\ IF msg.sigs = <<>> THEN ParseSigOK(msg.flat, allow, msg.flat.header)
       ELSE \A i \in DOMAIN msg.sigs : ParseSigOK(msg.sigs[i], allow, NoHeader)

SanitizedSigs(msg) ==
    IF msg.sigs = <<>> THEN <<ParseSig(msg.flat, msg.flat.header)>>
    ELSE [i \in DOMAIN msg.sigs |-> ParseSig(msg.sigs[i], NoHeader)]

\* byteBuffer.UnmarshalJSON leaves data nil for ""; DecodeString("") does not.
ParsedPayload(msg) ==
    IF msg.form = "json" /\ msg.payload = EmptyBytes THEN NilBytes ELSE msg.payload

\* ParseSigned: JSON or compact by the first character.
Parse(msg) == [payload |-> ParsedPayload(msg), sigs |-> SanitizedSigs(msg)]

\* ParseDetached: a compact message whose payload part must be empty.
ParseDetachedOK(msg, p, allow) ==
    p # NilBytes /\ msg.form = "compact" /\ msg.payload = EmptyBytes /\ SanitizedOK(msg, allow)
ParseDetached(msg, p) == [payload |-> p, sigs |-> SanitizedSigs(msg)]

(***************************************************************************)
(* Verification.                                                           *)
(***************************************************************************)
\* computeAuthData fails only when the original bytes do not unmarshal.
AuthDataOK(sig) == Kind(sig.original) \in {"absent", "json"}

AuthData_Reserialized(sig, p) ==
    LET bytes == BytesOf(sig.protected) IN <<bytes, PayloadText(HeaderOf(bytes), p)>>
\* computeAuthData: the bytes that came in, or the serialized protected header.
AuthData(sig, p) ==
    LET bytes == IF sig.original = Absent THEN BytesOf(sig.protected) ELSE sig.original
    IN  <<bytes, PayloadText(HeaderOf(bytes), p)>>

CritOK(sig) ==
    /\ sig.header # NoHeader => CheckNoCritical(sig.header[1])
    /\ sig.protected # NoHeader => CheckSupportedCritical(sig.protected[1])

SigAlg(sig) == GetString(MergedHeaders(sig.protected, sig.header), "alg")

CryptoOK(sig, key, p) ==
    AuthDataOK(sig) /\ VerifyPayload(key, SigAlg(sig), AuthData(sig, p), sig.signature)

\* DetachedVerify: what it returns, in the order of its checks.
DetachedVerify(obj, p, vk) ==
    IF Len(obj.sigs) > 1 THEN "toomany"
    ELSE IF obj.sigs = <<>> THEN "panic"
    ELSE LET sig == obj.sigs[1]
             key == TryJWKS(vk, sig.Header)
         IN  CASE key = <<>> -> "kid"
               [] key # <<>> /\ ~CritOK(sig) -> "crit"
               [] key # <<>> /\ CritOK(sig) /\ ~CryptoOK(sig, key[1], p) -> "crypto"
               [] OTHER -> "ok"

MultiAccepts_NoCritCheck(sig, p, vk) ==
    LET key == TryJWKS(vk, sig.Header)
    IN  key # <<>> /\ CryptoOK(sig, key[1], p)
\* One turn of the loop of DetachedVerifyMulti.
MultiAccepts(sig, p, vk) ==
    LET key == TryJWKS(vk, sig.Header)
    IN  CritOK(sig) /\ key # <<>> /\ CryptoOK(sig, key[1], p)

\* DetachedVerifyMulti: the first accepted index, 0 for the error return.
DetachedVerifyMulti(obj, p, vk) ==
    LET good == {i \in DOMAIN obj.sigs : MultiAccepts(obj.sigs[i], p, vk)}
    IN  IF good = {} THEN 0 ELSE CHOOSE i \in good : \A j \in good : i <= j
=============================================================================
