-------------------------------- MODULE Jws ---------------------------------
(***************************************************************************)
(* The life of one JWS message.  A producer (this library's Sign, or a     *)
(* foreign implementation) makes it; it is serialized, may pick up an      *)
(* unprotected header or damage on its way, is parsed, verified, and may   *)
(* be serialized again by the consumer, any number of times.               *)
(***************************************************************************)
EXTENDS JwsObject

CONSTANTS SignerConf,  \* records [recipients, embedJWK, nonce, extra]
          Foreign,     \* records [payload, sigs] other implementations produce
          AddedHeader, \* unprotected headers an intermediary may add
          OtherBytes,  \* protected bytes that damage in transit may leave
          AllowLists,  \* signatureAlgorithms arguments of the parsers
          VerKeys      \* verificationKey arguments of Verify and VerifyMulti

\* The producers' inputs: lists of recipients; messages with a payload member and
\* signatures, each made with a key that its algorithm takes.
ASSUME ProducerAssumption ==
    /\ NoPayload \notin Payload
    /\ \A conf \in SignerConf :
          conf.recipients \in Seq({conf.recipients[i] : i \in DOMAIN conf.recipients})
    /\ \A f \in Foreign : /\ f.payload \in Payload \ {NilBytes}
                           /\ f.sigs # <<>>
                           /\ f.sigs \in Seq({f.sigs[i] : i \in DOMAIN f.sigs})
                           /\ \A i \in DOMAIN f.sigs :
                                 LET s == f.sigs[i]
                                 IN  /\ NewSignerOK(s.alg, s.key)
                                     /\ s.key.type = "mac" => SizeOK(s.alg, s.key)

\* No caller lists the empty string as an algorithm it accepts.
ASSUME AllowAssumption == \A a \in AllowLists : "" \notin a

VARIABLES at,      \* "start", "signed", "wire", "parsed", "refused", "failed"
          msg,     \* the serialized message, when at = "wire"
          obj,     \* the JSONWebSignature, when at is "signed" or "parsed"
          allow,   \* signatureAlgorithms of the last parse
          made,    \* history: what each key holder meant to sign
          origin,  \* history: <<>>, or how the message was made and what happened since
          result   \* the last return of Verify or VerifyMulti

vars == <<at, msg, obj, allow, made, origin, result>>

NoObj == [payload |-> NilBytes, sigs |-> <<>>]
NoMsg == [form |-> "json", payload |-> NoPayload, flat |-> RawSig, sigs |-> <<>>]
NoResult == [op |-> "none", vk |-> <<>>, outcome |-> "none", index |-> 0]

Init ==
    /\ at = "start"
    /\ msg = NoMsg
    /\ obj = NoObj
    /\ allow = {}
    /\ made = {}
    /\ origin = <<>>
    /\ result = NoResult

(***************************************************************************)
(* Producers.                                                              *)
(***************************************************************************)
Intent(key, alg, ptr, p) == [key |-> key.id, alg |-> alg, header |-> ptr, payload |-> p]

Sign(conf, p) ==
    /\ at = "start"
    /\ NewMultiSignerOK(conf)
    /\ IF SignOK(conf)
       THEN /\ at' = "signed"
            /\ obj' = SignObject(conf, p)
            /\ made' = {Intent(conf.recipients[i].key, conf.recipients[i].alg,
                               <<ProtectedFor(conf, conf.recipients[i])>>, p) :
                           i \in DOMAIN conf.recipients}
            /\ origin' = <<[from |-> "sign", conf |-> conf, payload |-> p, touched |-> {}]>>
       ELSE at' = "failed" /\ UNCHANGED <<obj, made, origin>>
    /\ UNCHANGED <<msg, allow, result>>

\* A foreign producer signs any serialization of its header, canonical or not.
ForeignRaw(s, p) ==
    [protected |-> s.bytes, header |-> s.header,
     signature |-> SignPayload(s.key, s.alg, <<s.bytes, PayloadText(HeaderOf(s.bytes), p)>>)]

ForeignSign(f) ==
    /\ at = "start"
    /\ at' = "wire"
    /\ msg' = IF Len(f.sigs) = 1
              THEN [NoMsg EXCEPT !.payload = f.payload, !.flat = ForeignRaw(f.sigs[1], f.payload)]
              ELSE [NoMsg EXCEPT !.payload = f.payload,
                        !.sigs = [i \in DOMAIN f.sigs |-> ForeignRaw(f.sigs[i], f.payload)]]
    /\ made' = {Intent(f.sigs[i].key, f.sigs[i].alg, HeaderPtr(f.sigs[i].bytes), f.payload) :
                    i \in DOMAIN f.sigs}
    /\ origin' = <<[from |-> "foreign", conf |-> f, payload |-> f.payload, touched |-> {}]>>
    /\ UNCHANGED <<obj, allow, result>>

(***************************************************************************)
(* Serialization, by the producer or again by a consumer.                  *)
(***************************************************************************)
Touch(o, how) == IF o = <<>> THEN o ELSE <<[o[1] EXCEPT !.touched = @ \cup how]>>

Send(m, o) ==
    /\ at \in {"signed", "parsed"}
    /\ at' = "wire"
    /\ msg' = m
    /\ obj' = NoObj
    /\ origin' = IF at = "parsed" THEN Touch(o, {"resent"}) ELSE o
    /\ result' = NoResult
    /\ UNCHANGED <<allow, made>>

SendCompact  == CompactOK(obj) /\ Send(CompactSerialize(obj, FALSE), origin)
SendDetached == CompactOK(obj) /\ Send(CompactSerialize(obj, TRUE), Touch(origin, {"detached"}))
SendFull     == Send(FullSerialize(obj), origin)

(***************************************************************************)
(* The way between: an unprotected header is added to a JSON message, or   *)
(* the payload or a protected header is damaged.                           *)
(***************************************************************************)
InTransit(m, how) ==
    /\ at = "wire"
    /\ msg' = m
    /\ origin' = Touch(origin, how)
    /\ UNCHANGED <<at, obj, allow, made, result>>

AddHeader(h) ==
    /\ msg.form = "json"
    /\ \/ /\ msg.sigs = <<>> /\ msg.flat.header = NoHeader
          /\ InTransit([msg EXCEPT !.flat.header = <<h>>], {"header"})
       \/ \E i \in DOMAIN msg.sigs :
             /\ msg.sigs[i].header = NoHeader
             /\ InTransit([msg EXCEPT !.sigs[i].header = <<h>>], {"header"})

DamagePayload(p) ==
    /\ p # NilBytes /\ p # msg.payload
    /\ InTransit([msg EXCEPT !.payload = p], {"damage"})

DamageProtected(bytes) ==
    \/ msg.sigs = <<>> /\ InTransit([msg EXCEPT !.flat.protected = bytes], {"damage"})
    \/ \E i \in DOMAIN msg.sigs :
          InTransit([msg EXCEPT !.sigs[i].protected = bytes], {"damage"})

(***************************************************************************)
(* The consumer.                                                           *)
(***************************************************************************)
\* A parser returns an object or an error.
Accept(ok, o, a, how) ==
    /\ at = "wire"
    /\ at' = IF ok THEN "parsed" ELSE "refused"
    /\ obj' = IF ok THEN o ELSE NoObj
    /\ allow' = a
    /\ msg' = NoMsg
    /\ origin' = IF ok THEN origin ELSE Touch(origin, how)
    /\ UNCHANGED <<made, result>>

ParseSigned(a) == Accept(SanitizedOK(msg, a), Parse(msg), a, {})
ParseDetachedMsg(a, p) ==
    Accept(ParseDetachedOK(msg, p, a), ParseDetached(msg, p), a, {"misparsed"})

Verify(vk) ==
    /\ at \in {"signed", "parsed"}
    /\ LET out == DetachedVerify(obj, obj.payload, vk)
       IN  result' = [op |-> "verify", vk |-> vk, outcome |-> out,
                      index |-> IF out = "ok" THEN 1 ELSE 0]
    /\ UNCHANGED <<at, msg, obj, allow, made, origin>>

VerifyMulti(vk) ==
    /\ at \in {"signed", "parsed"}
    /\ LET i == DetachedVerifyMulti(obj, obj.payload, vk)
       IN  result' = [op |-> "multi", vk |-> vk, index |-> i,
                      outcome |-> IF i = 0 THEN "crypto" ELSE "ok"]
    /\ UNCHANGED <<at, msg, obj, allow, made, origin>>

Next ==
    \/ \E conf \in SignerConf, p \in Payload : Sign(conf, p)
    \/ \E f \in Foreign : ForeignSign(f)
    \/ SendCompact
    \/ SendDetached
    \/ SendFull
    \/ \E h \in AddedHeader : AddHeader(h)
    \/ \E p \in Payload : DamagePayload(p)
    \/ \E b \in OtherBytes : DamageProtected(b)
    \/ \E a \in AllowLists : ParseSigned(a)
    \/ \E a \in AllowLists, p \in Payload : ParseDetachedMsg(a, p)
    \/ \E vk \in VerKeys : Verify(vk) \/ VerifyMulti(vk)

Spec == Init /\ [][Next]_vars
(***************************************************************************)
(* Properties.                                                             *)
(***************************************************************************)
\* The variables keep their shape: an object is there exactly when it can be
\* used, every signature of it is a complete Signature, and verification
\* results index into it.
TypeOK ==
    /\ at \in {"start", "signed", "wire", "parsed", "refused", "failed"}
    /\ at \notin {"signed", "parsed"} => obj = NoObj /\ result = NoResult
    /\ at # "wire" => msg = NoMsg
    /\ \A i \in DOMAIN obj.sigs :
          DOMAIN obj.sigs[i] = {"protected", "header", "original", "signature",
                                "Header", "Protected", "Unprotected"}
    /\ result.index \in {0} \cup DOMAIN obj.sigs
    /\ result.outcome = "ok" <=> result.index # 0

\* When Verify or VerifyMulti succeeds, the key it used really signed this
\* payload under this protected header with this algorithm: no damage, no
\* unprotected header, no mix of b64 encodings (computeAuthData) and no way of
\* serializing makes it return anything else.
VerifiedWasSigned ==
    result.outcome = "ok" =>
        LET sig == obj.sigs[result.index]
        IN  \E m \in made :
               /\ m.key = TryJWKS(result.vk, sig.Header)[1].id
               /\ m.alg = SigAlg(sig)
               /\ m.header = sig.protected
               /\ Raw[m.payload] = Raw[obj.payload]

\* The allow-list of the parser binds the verifier: the algorithm that Verify
\* and VerifyMulti will use for any signature of a parsed object, which they
\* compute again from both headers, is one the caller of the parser allowed.
AlgPinned ==
    at = "parsed" => \A i \in DOMAIN obj.sigs : SigAlg(obj.sigs[i]) \in allow

\* A nonce that a parsed signature exposes was integrity protected: sanitized
\* refuses messages with a nonce in an unprotected header (ErrUnprotectedNonce).
NonceProtected ==
    at = "parsed" =>
        \A i \in DOMAIN obj.sigs :
            /\ obj.sigs[i].Header.nonce = obj.sigs[i].Protected.nonce
            /\ obj.sigs[i].Unprotected.nonce = ""

\* What Sign made verifies with its own keys, straight away and after any number
\* of serializations and parses, and still carries the payload; an unprotected
\* header added on the way does not change that unless it names crit.  A parsed
\* message is also found through a JWK Set: the entry with the kid the signer was
\* given verifies it, whatever kid an unprotected header adds.  The conditions are
\* the code's: extra headers may override alg, hold a private jwk or name an
\* unsupported critical header, and a detached or empty payload does not travel.
Sound(conf) ==
    /\ "alg" \notin DOMAIN conf.extra
    /\ SanitizeOK(conf.extra)
    /\ Present(conf.extra, "jwk") => Value(conf.extra["jwk"]).public
    /\ CheckSupportedCritical(conf.extra)

Carried(o) == "detached" \notin o.touched /\ Raw[o.payload] # Raw[NilBytes]

MadeBy(who) == origin # <<>> /\ origin[1].from = who

\* The JWK Sets in which the kid of a recipient leads to its key.
SetsWith(conf, r) ==
    {vk \in VerKeys : /\ Kind(vk) = "jwks" /\ r.kid # "" /\ r.key.type # "mac"
                      /\ ~conf.embedJWK /\ "kid" \notin DOMAIN conf.extra
                      /\ LET entries == KeysOf(Value(vk), r.kid)
                         IN  entries # <<>> /\ entries[1].key = r.key}

RoundTrip ==
    MadeBy("sign") /\ Sound(origin[1].conf) /\ "damage" \notin origin[1].touched =>
        LET o == origin[1]
            rs == o.conf.recipients
            own(i) == {<<"key", rs[i].key>>} \cup
                      (IF at = "parsed" THEN SetsWith(o.conf, rs[i]) ELSE {})
        IN  /\ at = "refused" /\ o.touched \subseteq {"resent"} /\ Carried(o) /\ rs # <<>> =>
                   \E i \in DOMAIN rs : rs[i].alg \notin allow
            /\ at = "parsed" /\ Carried(o) => obj.payload = o.payload
            /\ at \in {"signed", "parsed"} /\ Raw[obj.payload] = Raw[o.payload] =>
                   \A i \in DOMAIN rs :
                      (obj.sigs[i].header = NoHeader \/ CheckNoCritical(obj.sigs[i].header[1])) =>
                          \A vk \in own(i) : MultiAccepts(obj.sigs[i], obj.payload, vk)

\* A message of another implementation verifies as it came in, also when its
\* protected header is not serialized the way this library would: computeAuthData
\* keeps the original bytes (sig.original), and takes b64 from them.
ForeignVerifies ==
    at = "parsed" /\ MadeBy("foreign") /\ origin[1].touched = {} =>
        \A i \in DOMAIN obj.sigs :
            LET s == origin[1].conf.sigs[i]
            IN  /\ CritOK(obj.sigs[i]) /\ SigAlg(obj.sigs[i]) = s.alg
                /\ Kind(s.bytes) \in {"absent", "json"}
                => MultiAccepts(obj.sigs[i], obj.payload, <<"key", s.key>>)

\* Verify and VerifyMulti repeat the same checks in a different order; on an
\* object with one signature they agree for every key, and on a parsed object
\* Verify always has a signature to look at (obj.Signatures[0] exists).
VerifyAgreesWithMulti ==
    at \in {"signed", "parsed"} =>
        \A vk \in VerKeys :
            LET out == DetachedVerify(obj, obj.payload, vk)
            IN  /\ Len(obj.sigs) = 1 =>
                      (out = "ok" <=> DetachedVerifyMulti(obj, obj.payload, vk) = 1)
                /\ at = "parsed" => out # "panic"
=============================================================================
