----------------------------- MODULE JwsProofs ------------------------------
(***************************************************************************)
(* Proofs about the life of a JWS message, for every set of keys, signer   *)
(* configurations, foreign messages, headers, payloads and allow-lists:    *)
(* what verified was signed, and what Sign made verifies with the keys it  *)
(* was made for, whatever became of the message in between.                *)
(***************************************************************************)
EXTENDS Jws, WellFoundedInduction, TLAPS

(***************************************************************************)
(* Facts about sequences.                                                  *)
(***************************************************************************)
\* A function on 1 .. n is a sequence.
LEMMA FunctionIsSeq ==
    ASSUME NEW S, NEW n \in Nat, NEW f \in [1 .. n -> S]
    PROVE  f \in Seq(S) /\ Len(f) = n
OBVIOUS

\* Only the empty sequence has no element.
LEMMA EmptySeq ==
    ASSUME NEW S
    PROVE  /\ <<>> \in Seq(S) /\ Len(<<>>) = 0
           /\ \A s \in Seq(S) : s # <<>> => Len(s) \in Nat \ {0}
OBVIOUS

\* A sequence is a function on its indices.
LEMMA LenProperties ==
    ASSUME NEW S, NEW s \in Seq(S)
    PROVE  Len(s) \in Nat /\ s \in [1 .. Len(s) -> S] /\ DOMAIN s = 1 .. Len(s)
OBVIOUS

(***************************************************************************)
(* The header algebra.                                                     *)
(***************************************************************************)
\* rawHeader.merge keeps every parameter that the destination has set.
LEMMA MergeKeepsSet ==
    ASSUME NEW dst, NEW src, NEW k, IsSet(dst, k)
    PROVE  k \in DOMAIN Merge(dst, src) /\ Merge(dst, src)[k] = dst[k]
BY Zenon DEF Merge, IsSet, Present

\* Merging an empty rawHeader with src gives src back.
LEMMA MergeIntoEmpty ==
    ASSUME NEW src, NEW k
    PROVE  /\ DOMAIN Merge(EmptyHeader, src) = DOMAIN src
           /\ k \in DOMAIN src => Merge(EmptyHeader, src)[k] = src[k]
BY Zenon DEF Merge, EmptyHeader, IsSet, Present

\* A parameter that reads as a non-empty string counts as set.
LEMMA StringIsSet ==
    ASSUME NEW h, NEW k, GetString(h, k) # ""
    PROVE  IsSet(h, k)
<1>1. k \in DOMAIN h /\ Kind(h[k]) = "str" /\ Value(h[k]) # ""
  BY Zenon DEF GetString
<1>2. Value(Str("")) = ""
  BY Zenon DEF Value, Str
<1>3. h[k] # Str("")
  BY Zenon, <1>1, <1>2
<1> QED
  BY Zenon, <1>1, <1>3 DEF IsSet, Present

\* A non-empty string of the protected header is the merged value, whatever the
\* unprotected header holds (Signature.mergedHeaders merges protected first).
LEMMA ProtectedStringWins ==
    ASSUME NEW ptr, NEW header, NEW k,
           GetString(MergedHeaders(ptr, NoHeader), k) # ""
    PROVE  GetString(MergedHeaders(ptr, header), k) = GetString(MergedHeaders(ptr, NoHeader), k)
<1> DEFINE m == MergePtr(EmptyHeader, ptr)
<1>1. MergedHeaders(ptr, NoHeader) = m
  BY Zenon DEF MergedHeaders, MergePtr
<1>2. IsSet(m, k) /\ k \in DOMAIN m
  BY Zenon, <1>1, StringIsSet DEF IsSet, Present
<1>3. CASE header = NoHeader
  BY Zenon, <1>3
<1>4. CASE header # NoHeader
  <2>1. MergedHeaders(ptr, header) = Merge(m, header[1])
    BY Zenon, <1>4 DEF MergedHeaders, MergePtr
  <2>2. k \in DOMAIN Merge(m, header[1]) /\ Merge(m, header[1])[k] = m[k]
    BY Zenon, <1>2, MergeKeepsSet
  <2> QED
    BY Zenon, <1>1, <1>2, <2>1, <2>2 DEF GetString
<1> QED
  BY Zenon, <1>3, <1>4
(***************************************************************************)
(* One signature through the parser.                                       *)
(***************************************************************************)
\* Whether the parser looked at the unprotected header (flattened) or not
\* (signatures array), the algorithm it checked is the one Verify will use.
LEMMA ParseSigPinsAlg ==
    ASSUME NEW raw, NEW a, "" \notin a, NEW seen \in {raw.header, NoHeader},
           ParseSigOK(raw, a, seen)
    PROVE  SigAlg(ParseSig(raw, seen)) \in a
<1> DEFINE ptr == HeaderPtr(raw.protected)
<1>1. SigAlg(ParseSig(raw, seen)) = GetString(MergedHeaders(ptr, raw.header), "alg")
  BY Zenon DEF SigAlg, ParseSig
<1>2. GetString(MergedHeaders(ptr, seen), "alg") \in a
  BY Zenon DEF ParseSigOK
<1>3. CASE seen = raw.header
  BY Zenon, <1>1, <1>2, <1>3
<1>4. CASE seen = NoHeader
  BY Zenon, <1>1, <1>2, <1>4, ProtectedStringWins
<1> QED
  BY Zenon, <1>3, <1>4

\* An unprotected header whose nonce reads as "" adds no nonce by merging.
LEMMA MergeAddsNoNonce ==
    ASSUME NEW m, NEW h, GetString(h, "nonce") = ""
    PROVE  GetString(Merge(m, h), "nonce") = GetString(m, "nonce")
<1>1. CASE IsSet(m, "nonce")
  BY Zenon, <1>1, MergeKeepsSet DEF GetString, IsSet, Present
<1>2. CASE ~IsSet(m, "nonce")
  <2>1. GetString(m, "nonce") = ""
    BY Zenon, <1>2, StringIsSet
  <2>2. CASE "nonce" \in DOMAIN h
    <3>1. "nonce" \in DOMAIN Merge(m, h) /\ Merge(m, h)["nonce"] = h["nonce"]
      BY Zenon, <1>2, <2>2 DEF Merge
    <3> QED
      BY Zenon, <2>1, <2>2, <3>1 DEF GetString
  <2>3. CASE "nonce" \notin DOMAIN h
    <3>1. /\ "nonce" \in DOMAIN Merge(m, h) <=> "nonce" \in DOMAIN m
          /\ "nonce" \in DOMAIN m => Merge(m, h)["nonce"] = m["nonce"]
      BY Zenon, <2>3 DEF Merge
    <3> QED
      BY Zenon, <2>1, <3>1 DEF GetString
  <2> QED
    BY Zenon, <2>2, <2>3
<1> QED
  BY Zenon, <1>1, <1>2

\* After a successful parse the exposed nonce is the protected one.
LEMMA ParseSigNonce ==
    ASSUME NEW raw, NEW a, NEW seen \in {raw.header, NoHeader},
           ParseSigOK(raw, a, seen)
    PROVE  /\ ParseSig(raw, seen).Header.nonce = ParseSig(raw, seen).Protected.nonce
           /\ ParseSig(raw, seen).Unprotected.nonce = ""
<1> DEFINE ptr == HeaderPtr(raw.protected)
           m == MergePtr(EmptyHeader, ptr)
<1>1. seen # NoHeader => GetString(seen[1], "nonce") = ""
  BY Zenon DEF ParseSigOK
<1>2. ZeroHeader.nonce = ""
  BY Zenon DEF ZeroHeader, Sanitized, GetString, EmptyHeader
<1>3. ParseSig(raw, seen).Unprotected.nonce = ""
  BY Zenon, <1>1, <1>2 DEF ParseSig, SanitizedPtr, Sanitized
<1>4. ParseSig(raw, seen).Header.nonce = GetString(MergedHeaders(ptr, seen), "nonce")
  BY DEF ParseSig, Sanitized
<1>5. GetString(MergedHeaders(ptr, seen), "nonce") = GetString(m, "nonce")
  BY Zenon, <1>1, MergeAddsNoNonce DEF MergedHeaders, MergePtr
<1>6. ParseSig(raw, seen).Protected.nonce = GetString(m, "nonce")
  <2>1. CASE ptr = NoHeader
    BY Zenon, <1>2, <2>1 DEF ParseSig, SanitizedPtr, MergePtr, ZeroHeader, Sanitized
  <2>2. CASE ptr # NoHeader
    <3>1. ParseSig(raw, seen).Protected.nonce = GetString(ptr[1], "nonce")
      BY <2>2 DEF ParseSig, SanitizedPtr, Sanitized
    <3>2. GetString(Merge(EmptyHeader, ptr[1]), "nonce") = GetString(ptr[1], "nonce")
      BY Zenon, MergeIntoEmpty DEF GetString
    <3> QED
      BY <2>2, <3>1, <3>2 DEF MergePtr
  <2> QED
    BY <2>1, <2>2
<1> QED
  BY Zenon, <1>3, <1>4, <1>5, <1>6

(***************************************************************************)
(* A parsed object is a map of ParseSig over accepted raw signatures.      *)
(***************************************************************************)
ParsedFrom(sig, a) ==
    \E raw : \E seen \in {raw.header, NoHeader} : ParseSigOK(raw, a, seen) /\ sig = ParseSig(raw, seen)

\* SanitizedSigs only yields signatures that ParseSigOK accepted.
LEMMA SanitizedSigsParsed ==
    ASSUME NEW m, NEW a, SanitizedOK(m, a), NEW i \in DOMAIN SanitizedSigs(m)
    PROVE  ParsedFrom(SanitizedSigs(m)[i], a)
<1>1. CASE m.sigs = <<>>
  <2>1. SanitizedSigs(m) = <<ParseSig(m.flat, m.flat.header)>>
    BY <1>1 DEF SanitizedSigs
  <2>2. i = 1 /\ SanitizedSigs(m)[i] = ParseSig(m.flat, m.flat.header)
    BY <2>1
  <2>3. ParseSigOK(m.flat, a, m.flat.header)
    BY <1>1 DEF SanitizedOK
  <2> QED
    BY <2>2, <2>3 DEF ParsedFrom
<1>2. CASE m.sigs # <<>>
  <2>1. SanitizedSigs(m) = [j \in DOMAIN m.sigs |-> ParseSig(m.sigs[j], NoHeader)]
    BY <1>2 DEF SanitizedSigs
  <2>2. i \in DOMAIN m.sigs /\ SanitizedSigs(m)[i] = ParseSig(m.sigs[i], NoHeader)
    BY <2>1
  <2>3. ParseSigOK(m.sigs[i], a, NoHeader)
    BY <1>2, <2>2 DEF SanitizedOK
  <2> QED
    BY <2>2, <2>3 DEF ParsedFrom
<1> QED
  BY <1>1, <1>2
ParsedInv ==
    at = "parsed" =>
        allow \in AllowLists /\ \A i \in DOMAIN obj.sigs : ParsedFrom(obj.sigs[i], allow)

\* Only the parsers put the message in the state "parsed"; every other step
\* leaves that state or leaves the object alone.
LEMMA ParsedInvStep ==
    ParsedInv /\ [Next]_vars => ParsedInv'
<1> SUFFICES ASSUME ParsedInv, [Next]_vars PROVE ParsedInv'
  OBVIOUS
<1>1. ASSUME NEW ok, NEW o, NEW a \in AllowLists, NEW how, Accept(ok, o, a, how),
             ok => \A i \in DOMAIN o.sigs : ParsedFrom(o.sigs[i], a)
      PROVE  ParsedInv'
  BY <1>1 DEF Accept, ParsedInv
<1>2. CASE \E conf \in SignerConf, p \in Payload : Sign(conf, p)
  BY <1>2 DEF Sign, ParsedInv
<1>3. CASE \E f \in Foreign : ForeignSign(f)
  BY <1>3 DEF ForeignSign, ParsedInv
<1>4. CASE SendCompact \/ SendDetached \/ SendFull
  BY <1>4 DEF SendCompact, SendDetached, SendFull, Send, ParsedInv
<1>5. CASE \/ \E h \in AddedHeader : AddHeader(h)
           \/ \E p \in Payload : DamagePayload(p)
           \/ \E b \in OtherBytes : DamageProtected(b)
  BY <1>5 DEF AddHeader, DamagePayload, DamageProtected, InTransit, ParsedInv
<1>6. CASE \E a \in AllowLists : ParseSigned(a)
  <2>1. PICK a \in AllowLists : Accept(SanitizedOK(msg, a), Parse(msg), a, {})
    BY <1>6 DEF ParseSigned
  <2>2. SanitizedOK(msg, a) => \A i \in DOMAIN Parse(msg).sigs : ParsedFrom(Parse(msg).sigs[i], a)
    BY SanitizedSigsParsed DEF Parse
  <2> QED
    BY Zenon, <1>1, <2>1, <2>2
<1>7. CASE \E a \in AllowLists, p \in Payload : ParseDetachedMsg(a, p)
  <2>1. PICK a \in AllowLists, p \in Payload :
            Accept(ParseDetachedOK(msg, p, a), ParseDetached(msg, p), a, {"misparsed"})
    BY <1>7 DEF ParseDetachedMsg
  <2>2. ParseDetachedOK(msg, p, a) =>
            \A i \in DOMAIN ParseDetached(msg, p).sigs : ParsedFrom(ParseDetached(msg, p).sigs[i], a)
    BY SanitizedSigsParsed DEF ParseDetached, ParseDetachedOK
  <2> QED
    BY Zenon, <1>1, <2>1, <2>2
<1>8. CASE \E vk \in VerKeys : Verify(vk) \/ VerifyMulti(vk)
  BY <1>8 DEF Verify, VerifyMulti, ParsedInv
<1>9. CASE UNCHANGED vars
  BY <1>9 DEF vars, ParsedInv
<1> QED
  BY <1>2, <1>3, <1>4, <1>5, <1>6, <1>7, <1>8, <1>9 DEF Next

\* The object of every state is what the parser made of accepted signatures.
THEOREM ParsedObjects == Spec => []ParsedInv
<1>1. Init => ParsedInv
  BY DEF Init, ParsedInv
<1> QED
  BY <1>1, ParsedInvStep, PTL DEF Spec

\* For every instance, the algorithm Verify uses is one the parser's caller allowed.
THEOREM AlgPinnedAlways == Spec => []AlgPinned
<1>1. ParsedInv => AlgPinned
  BY Zenon, AllowAssumption, ParseSigPinsAlg DEF ParsedInv, ParsedFrom, AlgPinned
<1> QED
  BY <1>1, ParsedObjects, PTL

\* For every instance, the nonce a parsed signature exposes was protected.
THEOREM NonceProtectedAlways == Spec => []NonceProtected
<1>1. ParsedInv => NonceProtected
  BY Zenon, ParseSigNonce DEF ParsedInv, ParsedFrom, NonceProtected
<1> QED
  BY <1>1, ParsedObjects, PTL
(***************************************************************************)
(* Authenticity.  A signature value on the wire or in an object is empty   *)
(* or was made by a key holder, over bytes of the header it meant and the  *)
(* text of the payload it meant.                                           *)
(***************************************************************************)
Authentic(s, M) ==
    s # NoSig =>
        \E m \in M : \E bytes :
            /\ s = <<m.key, m.alg, <<bytes, PayloadText(HeaderOf(bytes), m.payload)>>>>
            /\ m.header = HeaderPtr(bytes)
            /\ m.payload \in Payload

\* The header a Signature holds is the one in the bytes computeAuthData will use.
Consistent(sig) ==
    IF sig.original = Absent THEN sig.protected = NoHeader \/ sig.protected = <<sig.protected[1]>>
    ELSE sig.protected = HeaderPtr(sig.original)

IsSeq(s) == s \in Seq({s[i] : i \in DOMAIN s})

\* A function on the indices of a sequence is a sequence of the same length.
LEMMA MapIsSeq ==
    ASSUME NEW s, IsSeq(s), NEW t, t = [i \in DOMAIN s |-> t[i]]
    PROVE  IsSeq(t) /\ Len(t) = Len(s)
<1>1. DOMAIN s = 1..Len(s) /\ Len(s) \in Nat
  BY LenProperties DEF IsSeq
<1>2. t \in [1..Len(s) -> {t[i] : i \in DOMAIN t}]
  BY <1>1
<1>3. IsSeq(t)
  BY <1>1, <1>2, FunctionIsSeq DEF IsSeq
<1> QED
  BY <1>1, <1>3, LenProperties DEF IsSeq

\* A non-empty set of naturals has a least element.
LEMMA LeastNatural ==
    ASSUME NEW T, T \subseteq Nat, T # {}
    PROVE  \E i \in T : \A j \in T : i <= j
<1>1. PICK x \in T : \A y \in T : ~ (<<y, x>> \in OpToRel(<, Nat))
  BY Zenon, NatLessThanWellFounded, WFMin
<1>2. \A y \in T : ~ (y < x)
  BY Zenon, <1>1 DEF OpToRel
<1> QED
  BY <1>2

\* verifyPayload succeeds only on what the key holder meant to sign: the bytes
\* agree, hence the headers, hence the b64 flags, hence the payloads.
LEMMA CryptoMeansSigned ==
    ASSUME NEW sig, NEW key, NEW p \in Payload, NEW M,
           Authentic(sig.signature, M), Consistent(sig), CryptoOK(sig, key, p)
    PROVE  \E m \in M : /\ m.key = key.id
                        /\ m.alg = SigAlg(sig)
                        /\ m.header = sig.protected
                        /\ Raw[m.payload] = Raw[p]
<1>1. sig.signature = <<key.id, SigAlg(sig), AuthData(sig, p)>>
  BY DEF CryptoOK, VerifyPayload, SignPayload
<1>2. sig.signature # NoSig
  BY <1>1 DEF NoSig
<1> DEFINE Made(m, bytes) ==
             /\ sig.signature = <<m.key, m.alg, <<bytes, PayloadText(HeaderOf(bytes), m.payload)>>>>
             /\ m.header = HeaderPtr(bytes)
             /\ m.payload \in Payload
<1>a. PICK m \in M : \E bytes : Made(m, bytes)
  BY <1>2 DEF Authentic
<1>3. PICK bytes : Made(m, bytes)
  BY <1>a
<1>4. /\ m.key = key.id /\ m.alg = SigAlg(sig)
      /\ AuthData(sig, p) = <<bytes, PayloadText(HeaderOf(bytes), m.payload)>>
  BY <1>1, <1>3
<1> DEFINE b == IF sig.original = Absent THEN BytesOf(sig.protected) ELSE sig.original
<1>5. AuthData(sig, p) = <<b, PayloadText(HeaderOf(b), p)>>
  BY DEF AuthData
<1>6. b = bytes /\ PayloadText(HeaderOf(b), p) = PayloadText(HeaderOf(b), m.payload)
  BY <1>4, <1>5
<1>7. HeaderPtr(b) = sig.protected
  <2>1. CASE sig.original = Absent /\ sig.protected = NoHeader
    BY <2>1 DEF BytesOf, HeaderPtr, Absent, Kind
  <2>2. CASE sig.original = Absent /\ sig.protected # NoHeader
    BY <2>2 DEF BytesOf, HeaderPtr, Canonical, Kind, Consistent
  <2>3. CASE sig.original # Absent
    BY <2>3 DEF Consistent
  <2> QED
    BY <2>1, <2>2, <2>3
<1>8. Raw[m.payload] = Raw[p]
  BY <1>3, <1>6, PayloadAssumption DEF PayloadText
<1> QED
  BY <1>3, <1>4, <1>6, <1>7, <1>8

(***************************************************************************)
(* What the verifiers return.                                              *)
(***************************************************************************)
\* Verify answers "ok" only for an object with a signature it accepted.
LEMMA VerifySound ==
    ASSUME NEW o, IsSeq(o.sigs), NEW p, NEW vk, DetachedVerify(o, p, vk) = "ok"
    PROVE  1 \in DOMAIN o.sigs /\ MultiAccepts(o.sigs[1], p, vk)
<1> DEFINE sig == o.sigs[1]
           key == TryJWKS(vk, sig.Header)
<1>1. Len(o.sigs) <= 1 /\ o.sigs # <<>>
  <2>1. ~(Len(o.sigs) > 1) /\ o.sigs # <<>>
    BY DEF DetachedVerify
  <2> QED
    BY <2>1, LenProperties DEF IsSeq
<1>2. 1 \in DOMAIN o.sigs
  BY <1>1, LenProperties, EmptySeq DEF IsSeq
<1>3. key # <<>> /\ CritOK(sig) /\ CryptoOK(sig, key[1], p)
  <2>1. ~(Len(o.sigs) > 1)
    BY DEF DetachedVerify
  <2> QED
    BY <1>1, <2>1 DEF DetachedVerify
<1> QED
  BY <1>2, <1>3 DEF MultiAccepts

\* VerifyMulti answers 0 or the index of a signature it accepted.
LEMMA VerifyMultiSound ==
    ASSUME NEW o, IsSeq(o.sigs), NEW p, NEW vk
    PROVE  LET i == DetachedVerifyMulti(o, p, vk)
           IN  i = 0 \/ (i # 0 /\ i \in DOMAIN o.sigs /\ MultiAccepts(o.sigs[i], p, vk))
<1> DEFINE good == {i \in DOMAIN o.sigs : MultiAccepts(o.sigs[i], p, vk)}
<1>1. good \subseteq Nat \ {0}
  BY LenProperties DEF IsSeq
<1>2. CASE good = {}
  BY <1>2 DEF DetachedVerifyMulti
<1>3. CASE good # {}
  <2>1. \E i \in good : \A j \in good : i <= j
    BY Zenon, <1>1, <1>3, LeastNatural
  <2>2. DetachedVerifyMulti(o, p, vk) = CHOOSE i \in good : \A j \in good : i <= j
    BY <1>3 DEF DetachedVerifyMulti
  <2>3. DetachedVerifyMulti(o, p, vk) \in good
    BY <2>1, <2>2
  <2> QED
    BY <1>1, <2>3
<1> QED
  BY <1>2, <1>3

(***************************************************************************)
(* Shape: TypeOK made inductive.                                           *)
(***************************************************************************)
RawFields == {"protected", "header", "signature"}

IsMsg(m) ==
    /\ DOMAIN m = {"form", "payload", "flat", "sigs"}
    /\ m.payload \in Payload \cup {NoPayload}
    /\ DOMAIN m.flat = RawFields
    /\ IsSeq(m.sigs)
    /\ \A i \in DOMAIN m.sigs : DOMAIN m.sigs[i] = RawFields

IsObj(o) ==
    /\ o.payload \in Payload
    /\ IsSeq(o.sigs)
    /\ \A i \in DOMAIN o.sigs :
          DOMAIN o.sigs[i] = {"protected", "header", "original", "signature",
                              "Header", "Protected", "Unprotected"}

Shape == TypeOK /\ IsMsg(msg) /\ IsObj(obj)

\* The empty object and message have their shape.
LEMMA EmptyShape == IsObj(NoObj) /\ IsMsg(NoMsg) /\ IsSeq(<<>>)
<1>1. IsSeq(<<>>) /\ DOMAIN <<>> = {}
  BY EmptySeq DEF IsSeq
<1> QED
  BY <1>1, PayloadAssumption DEF IsObj, NoObj, IsMsg, NoMsg, RawSig, RawFields

\* A one-element list is a sequence.
LEMMA SingletonIsSeq == ASSUME NEW x PROVE IsSeq(<<x>>) /\ DOMAIN <<x>> = {1} /\ <<x>>[1] = x
BY DEF IsSeq

\* Sign, the serializers and the parsers build well-shaped values.
LEMMA SignShape ==
    ASSUME NEW conf \in SignerConf, NEW p \in Payload
    PROVE  IsObj(SignObject(conf, p))
<1> DEFINE o == SignObject(conf, p)
<1>1. IsSeq(conf.recipients)
  BY ProducerAssumption DEF IsSeq
<1>2. o.sigs = [i \in DOMAIN conf.recipients |-> SignOne(conf, conf.recipients[i], p)]
  BY DEF SignObject
<1>3. IsSeq(o.sigs)
  BY <1>1, <1>2, MapIsSeq
<1>4. \A i \in DOMAIN o.sigs : o.sigs[i] = SignOne(conf, conf.recipients[i], p)
  BY <1>2
<1>5. o.payload = p
  BY DEF SignObject
<1>6. \A r : DOMAIN SignOne(conf, r, p) = {"protected", "header", "original", "signature",
                                           "Header", "Protected", "Unprotected"}
  BY DEF SignOne
<1> QED
  BY <1>3, <1>4, <1>5, <1>6 DEF IsObj

\* CompactSerialize and FullSerialize return messages.
LEMMA SerializeShape ==
    ASSUME NEW o, IsObj(o)
    PROVE  IsMsg(FullSerialize(o)) /\ \A d \in BOOLEAN : IsMsg(CompactSerialize(o, d))
<1>1. \A d \in BOOLEAN : IsMsg(CompactSerialize(o, d))
  BY EmptyShape, PayloadAssumption DEF IsMsg, IsObj, CompactSerialize, RawFields
<1> DEFINE m == FullSerialize(o)
<1>2. IsSeq(m.sigs) /\ \A i \in DOMAIN m.sigs : DOMAIN m.sigs[i] = RawFields
  <2>1. CASE Len(o.sigs) = 1
    <3>1. m.sigs = <<>>
      BY <2>1 DEF FullSerialize
    <3> QED
      BY <3>1, EmptyShape
  <2>2. CASE Len(o.sigs) # 1
    <3>1. m.sigs = [i \in DOMAIN o.sigs |-> RawOf(o.sigs[i])]
      BY <2>2 DEF FullSerialize
    <3>2. IsSeq(m.sigs)
      BY <3>1, MapIsSeq DEF IsObj
    <3> QED
      BY <3>1, <3>2 DEF RawOf, RawFields
  <2> QED
    BY <2>1, <2>2
<1>3. DOMAIN m.flat = RawFields
  BY DEF FullSerialize, RawOf, RawSig, RawFields
<1>4. DOMAIN m = {"form", "payload", "flat", "sigs"} /\ m.payload \in Payload \cup {NoPayload}
  BY DEF FullSerialize, IsObj
<1> QED
  BY Zenon, <1>1, <1>2, <1>3, <1>4 DEF IsMsg
\* The signatures that sanitized returns are complete.
LEMMA ParseShape ==
    ASSUME NEW m, IsMsg(m)
    PROVE  /\ IsSeq(SanitizedSigs(m))
           /\ \A i \in DOMAIN SanitizedSigs(m) :
                 \E raw, seen : /\ SanitizedSigs(m)[i] = ParseSig(raw, seen)
                               /\ \/ m.sigs = <<>> /\ raw = m.flat
                                  \/ m.sigs # <<>> /\ i \in DOMAIN m.sigs /\ raw = m.sigs[i]
<1> DEFINE t == SanitizedSigs(m)
<1>1. CASE m.sigs = <<>>
  <2>1. t = <<ParseSig(m.flat, m.flat.header)>>
    BY <1>1 DEF SanitizedSigs
  <2> QED
    BY <1>1, <2>1, SingletonIsSeq
<1>2. CASE m.sigs # <<>>
  <2>1. t = [i \in DOMAIN m.sigs |-> ParseSig(m.sigs[i], NoHeader)]
    BY <1>2 DEF SanitizedSigs
  <2>2. IsSeq(t)
    BY <2>1, MapIsSeq DEF IsMsg
  <2>3. \A i \in DOMAIN t : i \in DOMAIN m.sigs /\ t[i] = ParseSig(m.sigs[i], NoHeader)
    BY <2>1
  <2> QED
    BY <1>2, <2>2, <2>3
<1> QED
  BY <1>1, <1>2

\* Both parsers return objects.
LEMMA ParseObjShape ==
    ASSUME NEW m, IsMsg(m), NEW p \in Payload
    PROVE  IsObj([payload |-> p, sigs |-> SanitizedSigs(m)])
<1>1. \A raw, seen : DOMAIN ParseSig(raw, seen) =
                       {"protected", "header", "original", "signature",
                        "Header", "Protected", "Unprotected"}
  BY DEF ParseSig
<1> QED
  BY <1>1, ParseShape DEF IsObj

\* What happens to a message on its way keeps its shape.
LEMMA TransitShape ==
    ASSUME Shape, NEW h, NEW p \in Payload
    PROVE  /\ IsMsg([msg EXCEPT !.flat.header = h])
           /\ IsMsg([msg EXCEPT !.flat.protected = h])
           /\ IsMsg([msg EXCEPT !.payload = p])
           /\ \A i \in DOMAIN msg.sigs : /\ IsMsg([msg EXCEPT !.sigs[i].header = h])
                                       /\ IsMsg([msg EXCEPT !.sigs[i].protected = h])
<1>1. IsMsg(msg)
  BY DEF Shape
<1>2. /\ IsMsg([msg EXCEPT !.flat.header = h])
      /\ IsMsg([msg EXCEPT !.flat.protected = h])
      /\ IsMsg([msg EXCEPT !.payload = p])
  BY <1>1 DEF IsMsg, RawFields
<1>3. ASSUME NEW i \in DOMAIN msg.sigs, NEW k \in RawFields
      PROVE  IsMsg([msg EXCEPT !.sigs[i][k] = h])
  <2> DEFINE m == [msg EXCEPT !.sigs[i][k] = h]
  <2>1. m.sigs = [msg.sigs EXCEPT ![i][k] = h]
    BY <1>1 DEF IsMsg
  <2>2. DOMAIN m.sigs = DOMAIN msg.sigs
    BY <2>1
  <2>3. m.sigs = [j \in DOMAIN msg.sigs |-> m.sigs[j]]
    BY <2>1
  <2>4. IsSeq(m.sigs)
    BY <1>1, <2>3, MapIsSeq DEF IsMsg
  <2>5. \A j \in DOMAIN m.sigs : DOMAIN m.sigs[j] = RawFields
    BY <1>1, <2>1 DEF IsMsg
  <2>6. m.flat = msg.flat /\ m.payload = msg.payload /\ DOMAIN m = DOMAIN msg
    BY <1>1 DEF IsMsg
  <2> QED
    BY <1>1, <2>4, <2>5, <2>6 DEF IsMsg
<1>4. ASSUME NEW i \in DOMAIN msg.sigs
      PROVE  IsMsg([msg EXCEPT !.sigs[i].header = h]) /\ IsMsg([msg EXCEPT !.sigs[i].protected = h])
  <2>1. "header" \in RawFields /\ "protected" \in RawFields
    BY DEF RawFields
  <2> QED
    BY Zenon, <1>3, <2>1
<1> QED
  BY <1>2, <1>4
\* Every operation keeps the shape of objects and messages.
LEMMA ShapeStep ==
    Shape /\ [Next]_vars => Shape'
<1> SUFFICES ASSUME Shape, [Next]_vars PROVE Shape'
  OBVIOUS
<1> USE DEF Shape
<1>0. NoObj.sigs = <<>> /\ DOMAIN NoObj.sigs = {} /\ NoResult.index = 0 /\ NoResult.outcome # "ok"
  BY EmptySeq DEF NoObj, NoResult
<1>1. ASSUME NEW conf \in SignerConf, NEW p \in Payload, Sign(conf, p) PROVE Shape'
  BY <1>1, <1>0, SignShape DEF Sign, TypeOK, IsObj
<1>2. ASSUME NEW f \in Foreign, ForeignSign(f) PROVE Shape'
  <2>1. IsMsg(msg')
    <3>1. IsSeq(f.sigs) /\ f.payload \in Payload
      BY Zenon, ProducerAssumption DEF IsSeq
    <3>2. \A s, p : DOMAIN ForeignRaw(s, p) = RawFields
      BY DEF ForeignRaw, RawFields
    <3>3. CASE Len(f.sigs) = 1
      BY <1>2, <3>1, <3>2, <3>3, EmptyShape DEF ForeignSign, IsMsg, NoMsg
    <3>4. CASE Len(f.sigs) # 1
      <4>1. msg' = [NoMsg EXCEPT !.payload = f.payload,
                        !.sigs = [i \in DOMAIN f.sigs |-> ForeignRaw(f.sigs[i], f.payload)]]
        BY <1>2, <3>4 DEF ForeignSign
      <4>2. msg'.sigs = [i \in DOMAIN f.sigs |-> ForeignRaw(f.sigs[i], f.payload)]
        BY <4>1 DEF NoMsg
      <4>3. IsSeq(msg'.sigs)
        BY Zenon, <3>1, <4>2, MapIsSeq
      <4> QED
        BY <3>1, <3>2, <4>1, <4>2, <4>3, EmptyShape DEF IsMsg, NoMsg
    <3> QED
      BY <3>3, <3>4
  <2> QED
    BY <1>2, <2>1 DEF ForeignSign, TypeOK
<1>3. ASSUME NEW m, NEW o, IsMsg(m), Send(m, o) PROVE Shape'
  BY <1>3, <1>0, EmptyShape DEF Send, TypeOK
<1>4. CASE SendCompact \/ SendDetached \/ SendFull
  BY Zenon, <1>3, <1>4, SerializeShape DEF SendCompact, SendDetached, SendFull
<1>5. ASSUME NEW m, NEW how, IsMsg(m), InTransit(m, how) PROVE Shape'
  BY <1>5 DEF InTransit, TypeOK
<1>6. CASE \E h \in AddedHeader : AddHeader(h)
  BY Zenon, <1>5, <1>6, TransitShape, PayloadAssumption DEF AddHeader
<1>7. CASE \E p \in Payload : DamagePayload(p)
  BY Zenon, <1>5, <1>7, TransitShape DEF DamagePayload
<1>8. CASE \E b \in OtherBytes : DamageProtected(b)
  BY Zenon, <1>5, <1>8, TransitShape, PayloadAssumption DEF DamageProtected
<1>9. ASSUME NEW ok, NEW o, NEW a, NEW how, ok => IsObj(o), Accept(ok, o, a, how) PROVE Shape'
  <2>1. IsObj(obj') /\ IsMsg(msg') /\ result = NoResult /\ UNCHANGED result
    BY <1>9, EmptyShape DEF Accept, TypeOK
  <2> QED
    BY <1>0, <1>9, <2>1 DEF Accept, TypeOK, IsObj
<1>10. CASE \E a \in AllowLists : ParseSigned(a)
  <2>1. PICK a \in AllowLists : Accept(SanitizedOK(msg, a), Parse(msg), a, {})
    BY <1>10 DEF ParseSigned
  <2>2. SanitizedOK(msg, a) => ParsedPayload(msg) \in Payload
    BY PayloadAssumption DEF SanitizedOK, ParsedPayload, IsMsg
  <2>3. SanitizedOK(msg, a) => IsObj(Parse(msg))
    BY <2>2, ParseObjShape DEF Parse
  <2> QED
    BY <1>9, <2>1, <2>3
<1>11. CASE \E a \in AllowLists, p \in Payload : ParseDetachedMsg(a, p)
  BY Zenon, <1>9, <1>11, ParseObjShape DEF ParseDetachedMsg, ParseDetached
<1>12. ASSUME NEW vk \in VerKeys, Verify(vk) PROVE Shape'
  <2> DEFINE out == DetachedVerify(obj, obj.payload, vk)
  <2>1. out = "ok" => 1 \in DOMAIN obj.sigs
    BY VerifySound DEF IsObj
  <2>2. result'.outcome = out /\ result'.index = (IF out = "ok" THEN 1 ELSE 0)
    BY Zenon, <1>12 DEF Verify
  <2> QED
    BY <1>12, <2>1, <2>2 DEF Verify, TypeOK
<1>13. ASSUME NEW vk \in VerKeys, VerifyMulti(vk) PROVE Shape'
  <2> DEFINE i == DetachedVerifyMulti(obj, obj.payload, vk)
  <2>1. i = 0 \/ (i # 0 /\ i \in DOMAIN obj.sigs)
    BY VerifyMultiSound DEF IsObj
  <2>2. result'.index = i /\ result'.outcome = (IF i = 0 THEN "crypto" ELSE "ok")
    BY <1>13 DEF VerifyMulti
  <2> QED
    BY Zenon, <1>13, <2>1, <2>2 DEF VerifyMulti, TypeOK
<1>14. CASE UNCHANGED vars
  BY <1>14 DEF vars, TypeOK
<1> QED
  BY Zenon, <1>1, <1>2, <1>4, <1>6, <1>7, <1>8, <1>10, <1>11, <1>12, <1>13, <1>14 DEF Next

\* The life of a message keeps its shape: objects are complete whenever they can
\* be used, and a verifier that succeeds names a signature of the object.
THEOREM TypeCorrect == Spec => []TypeOK
<1>1. Init => Shape
  BY EmptyShape, EmptySeq DEF Init, Shape, TypeOK, NoObj, NoResult
<1> QED
  BY <1>1, ShapeStep, PTL DEF Spec, Shape
(***************************************************************************)
(* Every signature that is around was made by a key holder.                *)
(***************************************************************************)
AuthMsg(m, M) ==
    Authentic(m.flat.signature, M) /\ \A i \in DOMAIN m.sigs : Authentic(m.sigs[i].signature, M)
AuthObj(o, M) ==
    \A i \in DOMAIN o.sigs : Authentic(o.sigs[i].signature, M) /\ Consistent(o.sigs[i])

AuthInv == Shape /\ AuthMsg(msg, made) /\ AuthObj(obj, made) /\ VerifiedWasSigned

\* The empty object and message hold no signature that was not made.
LEMMA EmptyAuth == ASSUME NEW M PROVE AuthMsg(NoMsg, M) /\ AuthObj(NoObj, M)
<1>1. DOMAIN NoMsg.sigs = {} /\ DOMAIN NoObj.sigs = {}
  BY EmptySeq DEF NoMsg, NoObj
<1>2. Authentic(NoMsg.flat.signature, M)
  BY DEF NoMsg, RawSig, Authentic
<1> QED
  BY <1>1, <1>2 DEF AuthMsg, AuthObj

\* Serializing carries the signature values over.
LEMMA SerializeAuth ==
    ASSUME NEW o, IsObj(o), NEW M, AuthObj(o, M)
    PROVE  /\ AuthMsg(FullSerialize(o), M)
           /\ CompactOK(o) => \A d \in BOOLEAN : AuthMsg(CompactSerialize(o, d), M)
<1>1. Authentic(NoSig, M) /\ DOMAIN <<>> = {}
  BY EmptySeq DEF Authentic
<1>2. Len(o.sigs) = 1 => 1 \in DOMAIN o.sigs
  BY LenProperties DEF IsObj, IsSeq
<1>3. CompactOK(o) => \A d \in BOOLEAN : AuthMsg(CompactSerialize(o, d), M)
  BY Zenon, <1>1, <1>2 DEF CompactOK, CompactSerialize, AuthMsg, AuthObj
<1>4. CASE Len(o.sigs) = 1
  BY Zenon, <1>1, <1>2, <1>3, <1>4 DEF FullSerialize, AuthMsg, AuthObj, RawOf
<1>5. CASE Len(o.sigs) # 1
  <2> DEFINE m == FullSerialize(o)
  <2>1. m.sigs = [i \in DOMAIN o.sigs |-> RawOf(o.sigs[i])] /\ m.flat = RawSig
    BY Zenon, <1>5 DEF FullSerialize
  <2>2. \A i \in DOMAIN m.sigs : i \in DOMAIN o.sigs /\ m.sigs[i].signature = o.sigs[i].signature
    BY <2>1 DEF RawOf
  <2>3. m.flat.signature = NoSig
    BY <2>1 DEF RawSig
  <2> QED
    BY <1>1, <1>3, <2>2, <2>3 DEF AuthMsg, AuthObj
<1> QED
  BY <1>4, <1>5

\* Parsing carries the signature values over and keeps the bytes of the header.
LEMMA ParseAuth ==
    ASSUME NEW m, IsMsg(m), NEW M, AuthMsg(m, M), NEW p
    PROVE  AuthObj([payload |-> p, sigs |-> SanitizedSigs(m)], M)
<1>1. ASSUME NEW i \in DOMAIN SanitizedSigs(m)
      PROVE  Authentic(SanitizedSigs(m)[i].signature, M) /\ Consistent(SanitizedSigs(m)[i])
  <2>1. PICK raw, seen : /\ SanitizedSigs(m)[i] = ParseSig(raw, seen)
                         /\ Authentic(raw.signature, M)
    BY SMTT(20), ParseShape DEF AuthMsg
  <2>2. Consistent(ParseSig(raw, seen))
    BY Zenon DEF Consistent, ParseSig, HeaderPtr, Kind, Absent
  <2>3. ParseSig(raw, seen).signature = raw.signature
    BY Zenon DEF ParseSig
  <2> QED
    BY Zenon, <2>1, <2>2, <2>3
<1> QED
  BY Zenon, <1>1 DEF AuthObj

\* A signature made by SignPayload over an intent's header and payload.
LEMMA SignedIsAuthentic ==
    ASSUME NEW M, NEW key, NEW alg, NEW bytes, NEW p \in Payload,
           Intent(key, alg, HeaderPtr(bytes), p) \in M
    PROVE  Authentic(SignPayload(key, alg, <<bytes, PayloadText(HeaderOf(bytes), p)>>), M)
<1> DEFINE m == Intent(key, alg, HeaderPtr(bytes), p)
<1>1. /\ m.key = key.id /\ m.alg = alg /\ m.payload = p
      /\ m.header = HeaderPtr(bytes)
  BY Zenon DEF Intent
<1> QED
  BY <1>1 DEF Authentic, SignPayload

\* What a verifier accepts, a key holder meant.
LEMMA AcceptedWasSigned ==
    ASSUME AuthInv, NEW vk, NEW i \in DOMAIN obj.sigs, MultiAccepts(obj.sigs[i], obj.payload, vk)
    PROVE  \E m \in made : /\ m.key = TryJWKS(vk, obj.sigs[i].Header)[1].id
                           /\ m.alg = SigAlg(obj.sigs[i])
                           /\ m.header = obj.sigs[i].protected
                           /\ Raw[m.payload] = Raw[obj.payload]
<1> DEFINE sig == obj.sigs[i]
           key == TryJWKS(vk, sig.Header)[1]
<1>1. CryptoOK(sig, key, obj.payload)
  BY Zenon DEF MultiAccepts
<1>2. Authentic(sig.signature, made) /\ Consistent(sig) /\ obj.payload \in Payload
  BY DEF AuthInv, AuthObj, Shape, IsObj
<1> QED
  BY <1>1, <1>2, CryptoMeansSigned
\* No operation but signing brings a new signature into a message or an object.
LEMMA AuthInvStep ==
    AuthInv /\ [Next]_vars => AuthInv'
<1> SUFFICES ASSUME AuthInv, [Next]_vars PROVE AuthInv'
  OBVIOUS
<1>s. Shape /\ Shape'
  BY ShapeStep DEF AuthInv
<1>t. TypeOK /\ IsMsg(msg) /\ IsObj(obj)
  BY <1>s DEF Shape
<1>n. NoResult.outcome # "ok"
  BY Zenon DEF NoResult
<1>0. ASSUME AuthMsg(msg', made'), AuthObj(obj', made'), result' = NoResult PROVE AuthInv'
  BY <1>0, <1>s, <1>n DEF AuthInv, VerifiedWasSigned
<1>1. ASSUME NEW conf \in SignerConf, NEW p \in Payload, Sign(conf, p) PROVE AuthInv'
  <2>1. result' = NoResult /\ msg' = NoMsg
    BY Zenon, <1>1, <1>t DEF Sign, TypeOK
  <2>2. CASE ~SignOK(conf)
    BY Zenon, <1>0, <1>1, <1>t, <2>1, <2>2, EmptyAuth DEF Sign, TypeOK
  <2>3. CASE SignOK(conf)
    <3>1. /\ obj' = SignObject(conf, p)
          /\ made' = {Intent(conf.recipients[i].key, conf.recipients[i].alg,
                             <<ProtectedFor(conf, conf.recipients[i])>>, p) :
                         i \in DOMAIN conf.recipients}
      BY <1>1, <2>3 DEF Sign
    <3>2. ASSUME NEW i \in DOMAIN obj'.sigs
          PROVE  Authentic(obj'.sigs[i].signature, made') /\ Consistent(obj'.sigs[i])
      <4> DEFINE r == conf.recipients[i]
                 h == ProtectedFor(conf, r)
                 b == Canonical(h)
      <4>1. i \in DOMAIN conf.recipients /\ obj'.sigs[i] = SignOne(conf, r, p)
        BY <3>1 DEF SignObject
      <4>2. HeaderPtr(b) = <<h>> /\ HeaderOf(b) = h
        BY DEF HeaderPtr, HeaderOf, Canonical, Kind
      <4>3. Intent(r.key, r.alg, HeaderPtr(b), p) \in made'
        BY <3>1, <4>1, <4>2
      <4>4. obj'.sigs[i].signature = SignPayload(r.key, r.alg, <<b, PayloadText(HeaderOf(b), p)>>)
        <5>1. \A x : x = SignOne(conf, r, p) =>
                 x.signature = SignPayload(r.key, r.alg, <<b, PayloadText(h, p)>>)
          BY DEF SignOne
        <5> QED
          BY Zenon, <4>1, <4>2, <5>1
      <4>5. Consistent(obj'.sigs[i])
        BY <4>1 DEF SignOne, Consistent
      <4> HIDE DEF b, r
      <4> QED
        BY <4>3, <4>4, <4>5, SignedIsAuthentic
    <3>3. AuthObj(obj', made')
      BY <3>2 DEF AuthObj
    <3> QED
      BY Zenon, <1>0, <2>1, <3>3, EmptyAuth
  <2> QED
    BY Zenon, <2>2, <2>3
<1>2. ASSUME NEW f \in Foreign, ForeignSign(f) PROVE AuthInv'
  <2>1. result' = NoResult /\ obj' = NoObj
    BY <1>2, <1>t DEF ForeignSign, TypeOK
  <2>2. f.payload \in Payload /\ IsSeq(f.sigs)
    BY Zenon, ProducerAssumption DEF IsSeq
  <2>3. ASSUME NEW i \in DOMAIN f.sigs
        PROVE  Authentic(ForeignRaw(f.sigs[i], f.payload).signature, made')
    <3> DEFINE s == f.sigs[i]
    <3>1. Intent(s.key, s.alg, HeaderPtr(s.bytes), f.payload) \in made'
      BY <1>2, <2>3 DEF ForeignSign
    <3>2. ForeignRaw(s, f.payload).signature =
              SignPayload(s.key, s.alg, <<s.bytes, PayloadText(HeaderOf(s.bytes), f.payload)>>)
      BY DEF ForeignRaw
    <3> QED
      BY <2>2, <3>1, <3>2, SignedIsAuthentic
  <2>4. AuthMsg(msg', made')
    <3>1. Authentic(NoSig, made') /\ DOMAIN <<>> = {}
      BY EmptySeq DEF Authentic
    <3>2. CASE Len(f.sigs) = 1
      <4>1. 1 \in DOMAIN f.sigs
        BY <2>2, <3>2, LenProperties DEF IsSeq
      <4>2. msg'.flat = ForeignRaw(f.sigs[1], f.payload) /\ msg'.sigs = <<>>
        BY Zenon, <1>2, <3>2 DEF ForeignSign, NoMsg
      <4> QED
        BY <2>3, <3>1, <4>1, <4>2 DEF AuthMsg
    <3>3. CASE Len(f.sigs) # 1
      <4>1. /\ msg'.flat = RawSig
            /\ msg'.sigs = [i \in DOMAIN f.sigs |-> ForeignRaw(f.sigs[i], f.payload)]
        BY <1>2, <3>3 DEF ForeignSign, NoMsg
      <4>2. msg'.flat.signature = NoSig
        BY <4>1 DEF RawSig
      <4> QED
        BY <2>3, <3>1, <4>1, <4>2 DEF AuthMsg
    <3> QED
      BY <3>2, <3>3
  <2> QED
    BY <1>0, <2>1, <2>4, EmptyAuth
<1>3. ASSUME NEW m, NEW o, AuthMsg(m, made), Send(m, o) PROVE AuthInv'
  BY <1>0, <1>3, EmptyAuth DEF Send
<1>4. CASE SendCompact \/ SendDetached \/ SendFull
  BY Zenon, <1>3, <1>4, <1>t, SerializeAuth DEF SendCompact, SendDetached, SendFull, AuthInv
<1>5. ASSUME NEW m, NEW how, AuthMsg(m, made), InTransit(m, how) PROVE AuthInv'
  <2>1. result' = NoResult /\ obj' = NoObj /\ made' = made /\ msg' = m
    BY <1>5, <1>t DEF InTransit, TypeOK
  <2> QED
    BY Zenon, <1>0, <1>5, <2>1, EmptyAuth
<1>6. CASE \/ \E h \in AddedHeader : AddHeader(h)
           \/ \E p \in Payload : DamagePayload(p)
           \/ \E b \in OtherBytes : DamageProtected(b)
  <2>1. AuthMsg(msg, made)
    BY DEF AuthInv
  <2>2. ASSUME NEW h
        PROVE  /\ AuthMsg([msg EXCEPT !.flat.header = h], made)
               /\ AuthMsg([msg EXCEPT !.flat.protected = h], made)
               /\ AuthMsg([msg EXCEPT !.payload = h], made)
    BY <1>t, <2>1 DEF AuthMsg, IsMsg, RawFields
  <2>3. ASSUME NEW h, NEW i \in DOMAIN msg.sigs, NEW k \in {"header", "protected"}
        PROVE  AuthMsg([msg EXCEPT !.sigs[i][k] = h], made)
    <3> DEFINE m == [msg EXCEPT !.sigs[i][k] = h]
    <3>1. m.flat = msg.flat /\ m.sigs = [msg.sigs EXCEPT ![i][k] = h]
      BY <1>t DEF IsMsg
    <3>2. \A j \in DOMAIN m.sigs : j \in DOMAIN msg.sigs /\ m.sigs[j].signature = msg.sigs[j].signature
      BY <1>t, <3>1 DEF IsMsg, RawFields
    <3> QED
      BY <2>1, <3>1, <3>2 DEF AuthMsg
  <2>4. ASSUME NEW h, NEW i \in DOMAIN msg.sigs
        PROVE  /\ AuthMsg([msg EXCEPT !.sigs[i].header = h], made)
               /\ AuthMsg([msg EXCEPT !.sigs[i].protected = h], made)
    BY <2>3
  <2> QED
    BY Zenon, <1>5, <1>6, <2>2, <2>4 DEF AddHeader, DamagePayload, DamageProtected
<1>7. ASSUME NEW ok, NEW o, NEW a, NEW how, ok => AuthObj(o, made), Accept(ok, o, a, how)
      PROVE  AuthInv'
  <2>1. result' = NoResult /\ msg' = NoMsg /\ made' = made
    BY <1>7, <1>t DEF Accept, TypeOK
  <2>2. AuthObj(obj', made')
    BY <1>7, <2>1, EmptyAuth DEF Accept
  <2> QED
    BY Zenon, <1>0, <2>1, <2>2, EmptyAuth
<1>8. CASE \/ \E a \in AllowLists : ParseSigned(a)
           \/ \E a \in AllowLists, p \in Payload : ParseDetachedMsg(a, p)
  <2>1. \A p : AuthObj([payload |-> p, sigs |-> SanitizedSigs(msg)], made)
    BY <1>t, ParseAuth DEF AuthInv
  <2> QED
    BY Zenon, <1>7, <1>8, <2>1 DEF ParseSigned, ParseDetachedMsg, Parse, ParseDetached
<1>9. ASSUME NEW vk, result'.vk = vk, UNCHANGED <<msg, obj, made>>,
             result'.outcome = "ok" =>
                 /\ result'.index \in DOMAIN obj.sigs
                 /\ MultiAccepts(obj.sigs[result'.index], obj.payload, vk)
      PROVE  AuthInv'
  <2>1. VerifiedWasSigned'
    BY ZenonT(30), <1>9, AcceptedWasSigned DEF VerifiedWasSigned
  <2> QED
    BY Zenon, <1>s, <1>9, <2>1 DEF AuthInv
<1>10. ASSUME NEW vk \in VerKeys, Verify(vk) PROVE AuthInv'
  <2> DEFINE out == DetachedVerify(obj, obj.payload, vk)
  <2>1. /\ result'.outcome = out /\ result'.vk = vk
        /\ out = "ok" => result'.index = 1
        /\ UNCHANGED <<msg, obj, made>>
    BY <1>10 DEF Verify
  <2>2. out = "ok" => 1 \in DOMAIN obj.sigs /\ MultiAccepts(obj.sigs[1], obj.payload, vk)
    BY Zenon, <1>t, VerifySound DEF IsObj
  <2> QED
    BY Zenon, <1>9, <2>1, <2>2
<1>11. ASSUME NEW vk \in VerKeys, VerifyMulti(vk) PROVE AuthInv'
  <2> DEFINE i == DetachedVerifyMulti(obj, obj.payload, vk)
  <2>1. /\ result'.index = i /\ result'.vk = vk /\ result'.outcome = (IF i = 0 THEN "crypto" ELSE "ok")
        /\ UNCHANGED <<msg, obj, made>>
    BY <1>11 DEF VerifyMulti
  <2>2. i = 0 \/ (i # 0 /\ i \in DOMAIN obj.sigs /\ MultiAccepts(obj.sigs[i], obj.payload, vk))
    BY Zenon, <1>t, VerifyMultiSound DEF IsObj
  <2> QED
    BY Zenon, <1>9, <2>1, <2>2
<1>12. CASE UNCHANGED vars
  BY <1>12, <1>s DEF vars, AuthInv, VerifiedWasSigned
<1> QED
  BY <1>1, <1>2, <1>4, <1>6, <1>8, <1>10, <1>11, <1>12 DEF Next

\* Whatever Verify or VerifyMulti accepts was signed: the key holder meant this
\* payload, this protected header and this algorithm, for every set of keys,
\* messages, in-transit changes, allow-lists and orders of serializations.
THEOREM VerifiedWasSignedAlways == Spec => []VerifiedWasSigned
<1>1. Init => AuthInv
  BY EmptyShape, EmptyAuth, EmptySeq
     DEF Init, AuthInv, Shape, TypeOK, NoObj, NoResult, VerifiedWasSigned
<1> QED
  BY <1>1, AuthInvStep, PTL DEF Spec, AuthInv

(***************************************************************************)
(* The two verifiers.                                                      *)
(***************************************************************************)
\* With one signature, VerifyMulti answers 1 exactly when Verify answers "ok".
LEMMA VerifiersAgree ==
    ASSUME NEW o, IsSeq(o.sigs), Len(o.sigs) = 1, NEW p, NEW vk
    PROVE  DetachedVerify(o, p, vk) = "ok" <=> DetachedVerifyMulti(o, p, vk) = 1
<1>1. DOMAIN o.sigs = {1} /\ o.sigs # <<>> /\ ~(Len(o.sigs) > 1)
  BY LenProperties, EmptySeq DEF IsSeq
<1>2. DetachedVerify(o, p, vk) = "ok" => MultiAccepts(o.sigs[1], p, vk)
  BY VerifySound
<1>3. MultiAccepts(o.sigs[1], p, vk) => DetachedVerify(o, p, vk) = "ok"
  BY Zenon, <1>1 DEF MultiAccepts, DetachedVerify
<1>4. CASE MultiAccepts(o.sigs[1], p, vk)
  <2>1. {i \in DOMAIN o.sigs : MultiAccepts(o.sigs[i], p, vk)} = {1}
    BY <1>1, <1>4
  <2>2. \E i \in {1} : \A j \in {1} : i <= j
    OBVIOUS
  <2>3. DetachedVerifyMulti(o, p, vk) = 1
    BY Zenon, <2>1, <2>2 DEF DetachedVerifyMulti
  <2> QED
    BY Zenon, <1>3, <1>4, <2>3
<1>5. CASE ~MultiAccepts(o.sigs[1], p, vk)
  <2>1. {i \in DOMAIN o.sigs : MultiAccepts(o.sigs[i], p, vk)} = {}
    BY <1>1, <1>5
  <2>2. DetachedVerifyMulti(o, p, vk) = 0
    BY <2>1 DEF DetachedVerifyMulti
  <2> QED
    BY <1>2, <1>5, <2>2
<1> QED
  BY Zenon, <1>4, <1>5

\* Verify panics only on an object without signatures.
LEMMA PanicMeansNoSig ==
    ASSUME NEW o, NEW p, NEW vk, DetachedVerify(o, p, vk) = "panic"
    PROVE  o.sigs = <<>>
BY DEF DetachedVerify

HasSignature == Shape /\ (at = "parsed" => obj.sigs # <<>>)

\* A parsed object has a signature: sanitized makes one of the flattened form
\* when there is no signatures array.
LEMMA HasSignatureStep == HasSignature /\ [Next]_vars => HasSignature'
<1> SUFFICES ASSUME HasSignature, [Next]_vars PROVE HasSignature'
  OBVIOUS
<1>s. Shape' /\ IsMsg(msg)
  BY ShapeStep DEF HasSignature, Shape
<1>1. SanitizedSigs(msg) # <<>>
  <2>1. CASE msg.sigs = <<>>
    BY <2>1 DEF SanitizedSigs
  <2>2. CASE msg.sigs # <<>>
    <3>1. SanitizedSigs(msg) = [i \in DOMAIN msg.sigs |-> ParseSig(msg.sigs[i], NoHeader)]
      BY Zenon, <2>2 DEF SanitizedSigs
    <3>2. DOMAIN msg.sigs # {}
      BY <1>s, <2>2, LenProperties, EmptySeq DEF IsMsg, IsSeq
    <3>3. DOMAIN SanitizedSigs(msg) # {}
      BY <3>1, <3>2
    <3> QED
      BY <3>3, EmptySeq
  <2> QED
    BY <2>1, <2>2
<1>2. at' = "parsed" => obj'.sigs # <<>>
  <2>1. CASE \/ \E a \in AllowLists : ParseSigned(a)
             \/ \E a \in AllowLists, p \in Payload : ParseDetachedMsg(a, p)
    BY <1>1, <2>1 DEF ParseSigned, ParseDetachedMsg, Accept, Parse, ParseDetached
  <2>2. CASE \/ \E conf \in SignerConf, p \in Payload : Sign(conf, p)
             \/ \E f \in Foreign : ForeignSign(f)
             \/ SendCompact \/ SendDetached \/ SendFull
    BY <2>2 DEF Sign, ForeignSign, SendCompact, SendDetached, SendFull, Send
  <2>3. CASE \/ \E h \in AddedHeader : AddHeader(h)
             \/ \E p \in Payload : DamagePayload(p)
             \/ \E b \in OtherBytes : DamageProtected(b)
    BY Zenon, <2>3 DEF AddHeader, DamagePayload, DamageProtected, InTransit
  <2>4. CASE \/ \E vk \in VerKeys : Verify(vk) \/ VerifyMulti(vk)
             \/ UNCHANGED vars
    BY <2>4 DEF HasSignature, Verify, VerifyMulti, vars
  <2> QED
    BY Zenon, <2>1, <2>2, <2>3, <2>4 DEF Next
<1> QED
  BY <1>s, <1>2 DEF HasSignature

\* Verify and VerifyMulti agree on every object with one signature, and Verify
\* never indexes an empty list on an object that a parser returned.
THEOREM VerifiersAgreeAlways == Spec => []VerifyAgreesWithMulti
<1>1. Init => HasSignature
  BY EmptyShape, EmptySeq DEF Init, HasSignature, Shape, TypeOK, NoObj, NoResult
<1>2. HasSignature => VerifyAgreesWithMulti
  BY Zenon, VerifiersAgree, PanicMeansNoSig DEF HasSignature, Shape, IsObj, VerifyAgreesWithMulti
<1> QED
  BY <1>1, <1>2, HasSignatureStep, PTL DEF Spec

(***************************************************************************)
(* Provenance: what origin records about the message at hand.              *)
(***************************************************************************)
OriginFields == {"from", "conf", "payload", "touched"}

IsOrigin(o) == o = <<>> \/ (o = <<o[1]>> /\ o[1] \in [OriginFields -> {o[1][x] : x \in OriginFields}])

\* Noting what happened to a message leaves the rest of its history alone.
LEMMA TouchKeeps ==
    ASSUME NEW o, IsOrigin(o), NEW how
    PROVE  LET t == Touch(o, how)
           IN  /\ IsOrigin(t) /\ (t = <<>> <=> o = <<>>)
               /\ o # <<>> => /\ t[1].from = o[1].from /\ t[1].conf = o[1].conf
                              /\ t[1].payload = o[1].payload
                              /\ t[1].touched = o[1].touched \cup how
<1>1. CASE o = <<>>
  BY Zenon, <1>1 DEF Touch, IsOrigin
<1>2. CASE o # <<>>
  <2> DEFINE r == [o[1] EXCEPT !.touched = @ \cup how]
  <2>1. Touch(o, how) = <<r>>
    BY Zenon, <1>2 DEF Touch
  <2>2. DOMAIN o[1] = OriginFields
    BY <1>2 DEF IsOrigin
  <2>3. /\ DOMAIN r = OriginFields
        /\ r.from = o[1].from /\ r.conf = o[1].conf /\ r.payload = o[1].payload
        /\ r.touched = o[1].touched \cup how
    BY <2>2 DEF OriginFields
  <2>4. r \in [OriginFields -> {r[x] : x \in OriginFields}]
    <3>1. r = [x \in OriginFields |-> r[x]]
      BY <2>2
    <3> QED
      BY <3>1
  <2> HIDE DEF r
  <2>5. IsOrigin(<<r>>) /\ <<r>> # <<>> /\ <<r>>[1] = r
    BY <2>4 DEF IsOrigin
  <2> QED
    BY <1>2, <2>1, <2>3, <2>5
<1> QED
  BY <1>1, <1>2

ForeignMsg(f) ==
    IF Len(f.sigs) = 1
    THEN [NoMsg EXCEPT !.payload = f.payload, !.flat = ForeignRaw(f.sigs[1], f.payload)]
    ELSE [NoMsg EXCEPT !.payload = f.payload,
              !.sigs = [i \in DOMAIN f.sigs |-> ForeignRaw(f.sigs[i], f.payload)]]

ForeignInv ==
    /\ IsOrigin(origin)
    /\ at = "start" => origin = <<>>
    /\ at = "signed" => ~MadeBy("foreign")
    /\ MadeBy("foreign") /\ origin[1].touched = {} =>
          /\ origin[1].conf \in Foreign
          /\ at = "wire" => msg = ForeignMsg(origin[1].conf)
          /\ at = "parsed" => obj = Parse(ForeignMsg(origin[1].conf))

\* A message that nobody touched is the one the foreign producer made.
LEMMA ForeignInvStep == ForeignInv /\ [Next]_vars => ForeignInv'
<1> SUFFICES ASSUME ForeignInv, [Next]_vars PROVE ForeignInv'
  OBVIOUS
<1>o. IsOrigin(origin)
  BY DEF ForeignInv
<1>1. ASSUME NEW conf \in SignerConf, NEW p \in Payload, Sign(conf, p) PROVE ForeignInv'
  <2>1. CASE SignOK(conf)
    <3> DEFINE r == [from |-> "sign", conf |-> conf, payload |-> p, touched |-> {}]
    <3>1. origin' = <<r>> /\ at' = "signed"
      BY Zenon, <1>1, <2>1 DEF Sign
    <3>2. r.from # "foreign" /\ r \in [OriginFields -> {r[x] : x \in OriginFields}]
      BY DEF OriginFields
    <3> HIDE DEF r
    <3>3. IsOrigin(origin') /\ ~MadeBy("foreign")'
      BY <3>1, <3>2 DEF IsOrigin, MadeBy
    <3> QED
      BY Zenon, <3>1, <3>3 DEF ForeignInv
  <2>2. CASE ~SignOK(conf)
    <3>1. origin' = <<>> /\ at' = "failed"
      BY Zenon, <1>1, <2>2 DEF Sign, ForeignInv
    <3> QED
      BY Zenon, <3>1 DEF ForeignInv, MadeBy, IsOrigin
  <2> QED
    BY Zenon, <2>1, <2>2
<1>2. ASSUME NEW f \in Foreign, ForeignSign(f) PROVE ForeignInv'
  <2> DEFINE r == [from |-> "foreign", conf |-> f, payload |-> f.payload, touched |-> {}]
  <2>1. origin' = <<r>> /\ at' = "wire" /\ msg' = ForeignMsg(f)
    BY Zenon, <1>2 DEF ForeignSign, ForeignMsg
  <2>2. r.conf = f /\ r \in [OriginFields -> {r[x] : x \in OriginFields}]
    BY DEF OriginFields
  <2> HIDE DEF r
  <2>3. IsOrigin(origin') /\ origin'[1].conf = f
    BY <2>1, <2>2 DEF IsOrigin
  <2> QED
    BY <2>1, <2>3 DEF ForeignInv
<1>3. ASSUME NEW m, NEW o, IsOrigin(o),
             o = <<>> \/ at = "parsed" \/ (o # <<>> /\ o[1].from # "foreign"), Send(m, o)
      PROVE  ForeignInv'
  <2>1. at' = "wire"
    BY Zenon, <1>3 DEF Send
  <2>2. CASE at = "parsed"
    <3>1. origin' = Touch(o, {"resent"})
      BY Zenon, <1>3, <2>2 DEF Send
    <3>2. IsOrigin(origin') /\ (origin' # <<>> => origin'[1].touched # {})
      BY Zenon, <1>3, <3>1, TouchKeeps
    <3> QED
      BY <2>1, <3>2 DEF ForeignInv, MadeBy
  <2>3. CASE at # "parsed"
    <3>1. origin' = o
      BY <1>3, <2>3 DEF Send
    <3> QED
      BY <1>3, <2>1, <2>3, <3>1 DEF ForeignInv, MadeBy
  <2> QED
    BY <2>2, <2>3
<1>4. CASE SendCompact \/ SendDetached \/ SendFull
  <2>1. at \in {"signed", "parsed"}
    BY Zenon, <1>4 DEF SendCompact, SendDetached, SendFull, Send
  <2>2. origin = <<>> \/ at = "parsed" \/ (origin # <<>> /\ origin[1].from # "foreign")
    BY Zenon, <2>1 DEF ForeignInv, MadeBy
  <2> DEFINE t == Touch(origin, {"detached"})
  <2>3. IsOrigin(t) /\ (t = <<>> \/ at = "parsed" \/ (t # <<>> /\ t[1].from # "foreign"))
    BY <1>o, <2>2, TouchKeeps
  <2> HIDE DEF t
  <2>4. CASE SendDetached
    BY Zenon, <1>3, <2>3, <2>4 DEF SendDetached, t
  <2>5. CASE SendCompact \/ SendFull
    BY Zenon, <1>3, <1>o, <2>2, <2>5 DEF SendCompact, SendFull
  <2> QED
    BY <1>4, <2>4, <2>5
<1>5. ASSUME NEW m, NEW how \in {{"header"}, {"damage"}}, InTransit(m, how) PROVE ForeignInv'
  <2>1. origin' = Touch(origin, how) /\ at' = "wire" /\ how # {}
    BY Zenon, <1>5 DEF InTransit
  <2>2. IsOrigin(origin') /\ (origin' # <<>> => origin'[1].touched # {})
    BY <1>o, <2>1, TouchKeeps
  <2> QED
    BY Zenon, <2>1, <2>2 DEF ForeignInv, MadeBy
<1>6. CASE \/ \E h \in AddedHeader : AddHeader(h)
           \/ \E p \in Payload : DamagePayload(p)
           \/ \E b \in OtherBytes : DamageProtected(b)
  BY Zenon, <1>5, <1>6 DEF AddHeader, DamagePayload, DamageProtected
<1>7. ASSUME NEW ok, NEW o, NEW a, NEW how, Accept(ok, o, a, how),
             MadeBy("foreign") /\ origin[1].touched = {} /\ ok => o = Parse(msg)
      PROVE  ForeignInv'
  <2>1. CASE ok
    <3>1. UNCHANGED origin /\ at' = "parsed" /\ obj' = o /\ at = "wire"
      BY Zenon, <1>7, <2>1 DEF Accept
    <3> QED
      BY Zenon, <1>7, <2>1, <3>1 DEF ForeignInv, MadeBy
  <2>2. CASE ~ok
    <3>1. origin' = Touch(origin, how) /\ at' = "refused"
      BY <1>7, <2>2 DEF Accept
    <3>2. /\ IsOrigin(origin') /\ (origin' = <<>> <=> origin = <<>>)
          /\ origin # <<>> => /\ origin'[1].from = origin[1].from /\ origin'[1].conf = origin[1].conf
                              /\ origin'[1].touched = {} => origin[1].touched = {}
      BY ZenonT(30), <1>o, <3>1, TouchKeeps
    <3> QED
      BY Zenon, <3>1, <3>2 DEF ForeignInv, MadeBy
  <2> QED
    BY Zenon, <2>1, <2>2
<1>8. CASE \E a \in AllowLists : ParseSigned(a)
  BY <1>7, <1>8 DEF ParseSigned
<1>9. CASE \E a \in AllowLists, p \in Payload : ParseDetachedMsg(a, p)
  <2>1. PICK a \in AllowLists, p \in Payload :
            Accept(ParseDetachedOK(msg, p, a), ParseDetached(msg, p), a, {"misparsed"})
    BY <1>9 DEF ParseDetachedMsg
  <2>2. ASSUME NEW f PROVE ForeignMsg(f).form = "json"
    BY Zenon DEF ForeignMsg, NoMsg
  <2>3. MadeBy("foreign") /\ origin[1].touched = {} => msg.form = "json"
    BY <2>1, <2>2 DEF ForeignInv, Accept
  <2>4. MadeBy("foreign") /\ origin[1].touched = {} => ~ParseDetachedOK(msg, p, a)
    BY Zenon, <2>3 DEF ParseDetachedOK
  <2> QED
    BY <1>7, <2>1, <2>4
<1>10. CASE \/ \E vk \in VerKeys : Verify(vk) \/ VerifyMulti(vk)
            \/ UNCHANGED vars
  BY Zenon, <1>10 DEF ForeignInv, MadeBy, Verify, VerifyMulti, vars
<1> QED
  BY Zenon, <1>1, <1>2, <1>4, <1>6, <1>8, <1>9, <1>10 DEF Next

\* A foreign signature, parsed as it came in, is accepted with its own key.
LEMMA ForeignAccepted ==
    ASSUME NEW f \in Foreign, NEW i \in DOMAIN Parse(ForeignMsg(f)).sigs
    PROVE  LET o == Parse(ForeignMsg(f))
               s == f.sigs[i]
           IN  CritOK(o.sigs[i]) /\ SigAlg(o.sigs[i]) = s.alg /\ Kind(s.bytes) \in {"absent", "json"}
               => MultiAccepts(o.sigs[i], o.payload, <<"key", s.key>>)
<1> DEFINE m == ForeignMsg(f)
           o == Parse(m)
           s == f.sigs[i]
           sig == o.sigs[i]
<1>1. IsSeq(f.sigs) /\ f.sigs # <<>> /\ f.payload \in Payload
  BY Zenon, ProducerAssumption DEF IsSeq
<1>2. /\ o.payload \in Payload /\ Raw[o.payload] = Raw[f.payload]
      /\ B64[o.payload] = B64[f.payload]
  <2>1. m.payload = f.payload /\ m.form = "json"
    BY Zenon DEF ForeignMsg, NoMsg
  <2>2. o.payload = IF f.payload = EmptyBytes THEN NilBytes ELSE f.payload
    BY Zenon, <2>1 DEF Parse, ParsedPayload
  <2> QED
    BY <1>1, <2>2, PayloadAssumption
<1>3. i \in DOMAIN f.sigs /\ \E seen : sig = ParseSig(ForeignRaw(s, f.payload), seen)
  <2>1. o.sigs = SanitizedSigs(m)
    BY Zenon DEF Parse
  <2>2. CASE Len(f.sigs) = 1
    <3>1. m.sigs = <<>> /\ m.flat = ForeignRaw(f.sigs[1], f.payload)
      BY Zenon, <2>2 DEF ForeignMsg, NoMsg
    <3>2. o.sigs = <<ParseSig(m.flat, m.flat.header)>>
      BY Zenon, <2>1, <3>1 DEF SanitizedSigs
    <3>3. i = 1 /\ 1 \in DOMAIN f.sigs
      BY <1>1, <2>2, <3>2, LenProperties DEF IsSeq
    <3> QED
      BY <3>1, <3>2, <3>3
  <2>3. CASE Len(f.sigs) # 1
    <3>1. m.sigs = [j \in DOMAIN f.sigs |-> ForeignRaw(f.sigs[j], f.payload)]
      BY <2>3 DEF ForeignMsg, NoMsg
    <3>2. m.sigs # <<>>
      <4>1. DOMAIN f.sigs # {}
        BY <1>1, LenProperties, EmptySeq DEF IsSeq
      <4>2. DOMAIN m.sigs # {}
        BY Zenon, <3>1, <4>1
      <4> QED
        BY <4>2, EmptySeq
    <3>3. o.sigs = [j \in DOMAIN m.sigs |-> ParseSig(m.sigs[j], NoHeader)]
      BY <2>1, <3>2 DEF SanitizedSigs
    <3> QED
      BY <3>1, <3>3
  <2> QED
    BY <2>2, <2>3
<1> HIDE DEF sig, s, o
<1>4. PICK seen : sig = ParseSig(ForeignRaw(s, f.payload), seen)
  BY Zenon, <1>3
<1>5. /\ sig.protected = HeaderPtr(s.bytes) /\ sig.original = s.bytes
      /\ sig.signature = SignPayload(s.key, s.alg, <<s.bytes, PayloadText(HeaderOf(s.bytes), f.payload)>>)
  BY Zenon, <1>4 DEF ParseSig, ForeignRaw
<1>6. AuthData(sig, o.payload) = <<s.bytes, PayloadText(HeaderOf(s.bytes), o.payload)>>
  BY <1>5 DEF AuthData, BytesOf, HeaderPtr, Absent, Kind
<1>7. PayloadText(HeaderOf(s.bytes), o.payload) = PayloadText(HeaderOf(s.bytes), f.payload)
  BY <1>2 DEF PayloadText
<1>8. NewSignerOK(s.alg, s.key) /\ (s.key.type = "mac" => SizeOK(s.alg, s.key))
  BY Zenon, <1>3, ProducerAssumption DEF s
<1>9. TryJWKS(<<"key", s.key>>, sig.Header) = <<s.key>>
  BY Zenon DEF TryJWKS, Kind, Value
<1> SUFFICES ASSUME CritOK(sig), SigAlg(sig) = s.alg, Kind(s.bytes) \in {"absent", "json"}
             PROVE  MultiAccepts(sig, o.payload, <<"key", s.key>>)
  BY Zenon DEF sig, s, o
<1>10. CryptoOK(sig, s.key, o.payload)
  BY Zenon, <1>5, <1>6, <1>7, <1>8 DEF CryptoOK, AuthDataOK, VerifyPayload
<1> QED
  BY <1>9, <1>10 DEF MultiAccepts

\* A message of another implementation verifies as it came in, with the key it
\* was made with: computeAuthData keeps the bytes of its protected header.
THEOREM ForeignVerifiesAlways == Spec => []ForeignVerifies
<1>1. Init => ForeignInv
  BY Zenon DEF Init, ForeignInv, IsOrigin, MadeBy
<1>2. ForeignInv => ForeignVerifies
  <2> SUFFICES ASSUME ForeignInv, at = "parsed", MadeBy("foreign"), origin[1].touched = {},
                      NEW i \in DOMAIN obj.sigs,
                      CritOK(obj.sigs[i]), SigAlg(obj.sigs[i]) = origin[1].conf.sigs[i].alg,
                      Kind(origin[1].conf.sigs[i].bytes) \in {"absent", "json"}
               PROVE  MultiAccepts(obj.sigs[i], obj.payload, <<"key", origin[1].conf.sigs[i].key>>)
    BY Zenon DEF ForeignVerifies
  <2>1. origin[1].conf \in Foreign /\ obj = Parse(ForeignMsg(origin[1].conf))
    BY Zenon DEF ForeignInv
  <2> QED
    BY Zenon, <2>1, ForeignAccepted
<1> QED
  BY <1>1, <1>2, ForeignInvStep, PTL DEF Spec

(***************************************************************************)
(* The protected header Sign writes.                                       *)
(***************************************************************************)
OwnJwk(r) == JwkOf([id |-> r.key.id, public |-> TRUE])

\* What extra headers do not name comes from the signer: a parameter of the
\* nonce, of the key, or alg.
LEMMA SignerHeader ==
    ASSUME NEW conf, NEW r, NEW k, k \notin DOMAIN conf.extra
    PROVE  LET h == ProtectedFor(conf, r)
           IN  /\ k \in DOMAIN h => k \in {"alg", "jwk", "kid", "nonce"}
               /\ k = "alg" => k \in DOMAIN h /\ h[k] = Str(r.alg)
               /\ k = "nonce" /\ k \in DOMAIN h => h[k] = Str(conf.nonce)
               /\ k = "kid" /\ k \in DOMAIN h => h[k] = Str(r.kid)
               /\ k = "jwk" /\ k \in DOMAIN h => h[k] = OwnJwk(r)
<1> DEFINE a == [alg |-> Str(r.alg)]
           b == KeyHeader(conf, r)
           c == NonceHeader(conf)
           h == ProtectedFor(conf, r)
<1>1. DOMAIN a = {"alg"} /\ a["alg"] = Str(r.alg)
  OBVIOUS
<1>2. /\ DOMAIN b \subseteq {"jwk", "kid"}
      /\ "jwk" \in DOMAIN b => b["jwk"] = OwnJwk(r)
      /\ "kid" \in DOMAIN b => b["kid"] = Str(r.kid)
  <2>1. b \in {EmptyHeader, [jwk |-> OwnJwk(r)], [kid |-> Str(r.kid)]}
    BY DEF KeyHeader, OwnJwk
  <2> QED
    BY <2>1 DEF EmptyHeader
<1>3. DOMAIN c \subseteq {"nonce"} /\ ("nonce" \in DOMAIN c => c["nonce"] = Str(conf.nonce))
  BY Zenon DEF NonceHeader, EmptyHeader
<1> HIDE DEF a, b, c
<1>4. h = Override(Override(Override(a, b), c), conf.extra)
  BY Zenon DEF ProtectedFor, a, b, c
<1>5. /\ k \in DOMAIN h <=> k \in DOMAIN a \cup DOMAIN b \cup DOMAIN c
      /\ k \in DOMAIN c => h[k] = c[k]
      /\ k \in DOMAIN b \ DOMAIN c => h[k] = b[k]
      /\ k \in DOMAIN a \ (DOMAIN b \cup DOMAIN c) => h[k] = a[k]
  BY <1>4 DEF Override
<1> HIDE DEF h
<1> QED
  BY Zenon, <1>1, <1>2, <1>3, <1>5 DEF h

\* Extra headers overwrite.
LEMMA ExtraHeader ==
    ASSUME NEW conf, NEW r, NEW k \in DOMAIN conf.extra
    PROVE  k \in DOMAIN ProtectedFor(conf, r) /\ ProtectedFor(conf, r)[k] = conf.extra[k]
BY Zenon DEF ProtectedFor, Override

\* With a kid for a public key, and no other way to name the key, kid is written.
LEMMA KidWritten ==
    ASSUME NEW conf, NEW r, "kid" \notin DOMAIN conf.extra, r.key.type # "mac",
           ~conf.embedJWK, r.kid # ""
    PROVE  "kid" \in DOMAIN ProtectedFor(conf, r)
<1>1. KeyHeader(conf, r) = [kid |-> Str(r.kid)]
  BY Zenon DEF KeyHeader
<1> QED
  BY Zenon, <1>1 DEF ProtectedFor, Override

\* A header that a sound configuration produces passes every check of the parser
\* and of the verifier.
LEMMA SoundHeader ==
    ASSUME NEW conf, NEW r, Sound(conf)
    PROVE  LET h == ProtectedFor(conf, r)
           IN  /\ GetString(h, "alg") = r.alg
               /\ SanitizeOK(h)
               /\ CheckSupportedCritical(h)
               /\ Present(h, "jwk") => Value(h["jwk"]).public
<1> DEFINE h == ProtectedFor(conf, r)
<1>0. "alg" \notin DOMAIN conf.extra
  BY Zenon DEF Sound
<1>1. "alg" \in DOMAIN h /\ h["alg"] = Str(r.alg)
  BY Zenon, <1>0, SignerHeader
<1>2. GetString(h, "alg") = r.alg
  BY <1>1 DEF GetString, Str, Kind, Value
<1>3. ASSUME NEW k \in DOMAIN h \cap DOMAIN TypedKeys PROVE Kind(h[k]) \in {"null", TypedKeys[k]}
  <2>1. CASE k \in DOMAIN conf.extra
    BY Zenon, <1>3, <2>1, ExtraHeader DEF Sound, SanitizeOK
  <2>2. CASE k \notin DOMAIN conf.extra
    <3>1. k \in {"alg", "jwk", "kid", "nonce"}
      BY Zenon, <1>3 DEF TypedKeys
    <3>2. \/ k = "alg" /\ h[k] = Str(r.alg)
          \/ k = "nonce" /\ h[k] = Str(conf.nonce)
          \/ k = "kid" /\ h[k] = Str(r.kid)
          \/ k = "jwk" /\ h[k] = OwnJwk(r)
      BY Zenon, <1>3, <2>2, <3>1, SignerHeader
    <3> QED
      BY <3>2 DEF TypedKeys, Kind, Str, OwnJwk, JwkOf
  <2> QED
    BY Zenon, <2>1, <2>2
<1>4. CheckSupportedCritical(h)
  <2>1. CASE "crit" \in DOMAIN conf.extra
    <3>1. "crit" \in DOMAIN h /\ h["crit"] = conf.extra["crit"]
      BY <2>1, ExtraHeader
    <3> QED
      BY Zenon, <2>1, <3>1 DEF Sound, CheckSupportedCritical, CriticalOK, GetCritical, Present
  <2>2. CASE "crit" \notin DOMAIN conf.extra
    <3>1. "crit" \notin DOMAIN h
      BY SMTT(20), <2>2, SignerHeader
    <3> QED
      BY Zenon, <3>1 DEF CheckSupportedCritical, CriticalOK, GetCritical, Present
  <2> QED
    BY Zenon, <2>1, <2>2
<1>5. Present(h, "jwk") => Value(h["jwk"]).public
  <2>1. CASE "jwk" \in DOMAIN conf.extra
    <3>1. "jwk" \in DOMAIN h /\ h["jwk"] = conf.extra["jwk"]
      BY <2>1, ExtraHeader
    <3> QED
      BY Zenon, <2>1, <3>1 DEF Sound, Present
  <2>2. CASE "jwk" \notin DOMAIN conf.extra
    <3>1. "jwk" \in DOMAIN h => h["jwk"] = OwnJwk(r)
      BY <2>2, SignerHeader
    <3>2. Value(OwnJwk(r)).public
      BY DEF Value, OwnJwk, JwkOf
    <3> QED
      BY Zenon, <3>1, <3>2 DEF Present
  <2> QED
    BY Zenon, <2>1, <2>2
<1> QED
  BY <1>2, <1>3, <1>4, <1>5 DEF SanitizeOK

(***************************************************************************)
(* The signatures of a signer, on the wire and in an object.               *)
(***************************************************************************)
OwnHeader(conf, i) == ProtectedFor(conf, conf.recipients[i])
OwnSig(conf, p, i) ==
    SignPayload(conf.recipients[i].key, conf.recipients[i].alg,
                <<Canonical(OwnHeader(conf, i)), PayloadText(OwnHeader(conf, i), p)>>)

RawFrom(raw, conf, p, i) ==
    raw.protected = Canonical(OwnHeader(conf, i)) /\ raw.signature = OwnSig(conf, p, i)
SigFrom(sig, conf, p, i) ==
    /\ sig.protected = <<OwnHeader(conf, i)>>
    /\ sig.original \in {Absent, Canonical(OwnHeader(conf, i))}
    /\ sig.signature = OwnSig(conf, p, i)

SentFrom(m, conf, p) ==
    conf.recipients # <<>> =>
        IF Len(conf.recipients) = 1 THEN m.sigs = <<>> /\ RawFrom(m.flat, conf, p, 1)
        ELSE /\ m.sigs # <<>> /\ DOMAIN m.sigs = DOMAIN conf.recipients
             /\ \A i \in DOMAIN m.sigs : RawFrom(m.sigs[i], conf, p, i)
HeldFrom(o, conf, p) ==
    conf.recipients # <<>> =>
        /\ DOMAIN o.sigs = DOMAIN conf.recipients
        /\ \A i \in DOMAIN o.sigs : SigFrom(o.sigs[i], conf, p, i)

\* No header but the protected ones.
BareMsg(m) == m.flat.header = NoHeader /\ \A i \in DOMAIN m.sigs : m.sigs[i].header = NoHeader
BareObj(o) == \A i \in DOMAIN o.sigs : o.sigs[i].header = NoHeader

\* A list of recipients and a list of signatures with the same indices.
LEMMA SameLen ==
    ASSUME NEW s, IsSeq(s), NEW t, IsSeq(t), DOMAIN s = DOMAIN t
    PROVE  Len(s) = Len(t) /\ (s = <<>> <=> t = <<>>)
<1>1. DOMAIN s = 1..Len(s) /\ Len(s) \in Nat
  BY LenProperties DEF IsSeq
<1>2. DOMAIN t = 1..Len(t) /\ Len(t) \in Nat
  BY LenProperties DEF IsSeq
<1>3. Len(s) = Len(t)
  <2>1. 1..Len(s) = 1..Len(t)
    BY Zenon, <1>1, <1>2
  <2>2. ASSUME Len(s) < Len(t) PROVE FALSE
    <3>1. Len(t) \in 1..Len(t) /\ Len(t) \notin 1..Len(s)
      BY <1>1, <1>2, <2>2
    <3> QED
      BY Zenon, <2>1, <3>1
  <2>3. ASSUME Len(t) < Len(s) PROVE FALSE
    <3>1. Len(s) \in 1..Len(s) /\ Len(s) \notin 1..Len(t)
      BY <1>1, <1>2, <2>3
    <3> QED
      BY <2>1, <3>1
  <2> DEFINE m == Len(s)
             n == Len(t)
  <2>4. m \in Nat /\ n \in Nat /\ ~(m < n) /\ ~(n < m)
    BY <1>1, <1>2, <2>2, <2>3
  <2> HIDE DEF m, n
  <2>5. m = n
    BY <2>4
  <2> QED
    BY <2>5 DEF m, n
<1> QED
  BY <1>3, EmptySeq DEF IsSeq

\* A list of length one has one index.
LEMMA OneIndex ==
    ASSUME NEW s, IsSeq(s)
    PROVE  (Len(s) = 1 <=> DOMAIN s = {1}) /\ (s # <<>> => DOMAIN s # {})
<1>1. DOMAIN s = 1..Len(s) /\ Len(s) \in Nat
  BY Zenon, LenProperties DEF IsSeq
<1> QED
  BY <1>1, EmptySeq DEF IsSeq

\* What Sign returns.
LEMMA SignHolds ==
    ASSUME NEW conf, NEW p
    PROVE  HeldFrom(SignObject(conf, p), conf, p) /\ BareObj(SignObject(conf, p))
<1> DEFINE o == SignObject(conf, p)
<1>1. o.sigs = [i \in DOMAIN conf.recipients |-> SignOne(conf, conf.recipients[i], p)]
  BY Zenon DEF SignObject
<1>2. ASSUME NEW i \in DOMAIN conf.recipients
      PROVE  SigFrom(SignOne(conf, conf.recipients[i], p), conf, p, i) /\ SignOne(conf, conf.recipients[i], p).header = NoHeader
  BY DEF SigFrom, SignOne, OwnSig, OwnHeader
<1> QED
  BY <1>1, <1>2 DEF HeldFrom, BareObj

\* Both serializers carry a signer's signatures, in order.
LEMMA SerializeSends ==
    ASSUME NEW conf, IsSeq(conf.recipients), NEW p, NEW o, IsSeq(o.sigs), HeldFrom(o, conf, p)
    PROVE  /\ SentFrom(FullSerialize(o), conf, p)
           /\ BareObj(o) => BareMsg(FullSerialize(o))
           /\ CompactOK(o) => \A d \in BOOLEAN : /\ SentFrom(CompactSerialize(o, d), conf, p)
                                                /\ BareMsg(CompactSerialize(o, d))
<1>1. ASSUME NEW h PROVE BytesOf(<<h>>) = Canonical(h)
  BY ZenonT(30) DEF BytesOf, NoHeader
<1>2. ASSUME conf.recipients # <<>>
      PROVE  /\ Len(o.sigs) = Len(conf.recipients) /\ DOMAIN o.sigs = DOMAIN conf.recipients
             /\ o.sigs # <<>> /\ DOMAIN o.sigs # {}
             /\ \A i \in DOMAIN o.sigs : RawFrom(RawOf(o.sigs[i]), conf, p, i)
  <2>1. DOMAIN o.sigs = DOMAIN conf.recipients /\ \A i \in DOMAIN o.sigs : SigFrom(o.sigs[i], conf, p, i)
    BY Zenon, <1>2 DEF HeldFrom
  <2>2. Len(o.sigs) = Len(conf.recipients) /\ o.sigs # <<>> /\ DOMAIN o.sigs # {}
    BY <1>2, <2>1, SameLen, OneIndex
  <2>3. \A i \in DOMAIN o.sigs : RawFrom(RawOf(o.sigs[i]), conf, p, i)
    BY Zenon, <1>1, <2>1 DEF SigFrom, RawFrom, RawOf
  <2> QED
    BY Zenon, <2>1, <2>2, <2>3
<1>3. CompactOK(o) => \A d \in BOOLEAN : BareMsg(CompactSerialize(o, d))
  BY SMTT(20), EmptySeq DEF CompactSerialize, BareMsg
<1>4. ASSUME CompactOK(o), NEW d \in BOOLEAN, conf.recipients # <<>>
      PROVE  SentFrom(CompactSerialize(o, d), conf, p)
  <2> DEFINE m == CompactSerialize(o, d)
  <2>1. Len(o.sigs) = 1 /\ 1 \in DOMAIN o.sigs /\ Len(conf.recipients) = 1
    BY Zenon, <1>2, <1>4, OneIndex DEF CompactOK
  <2>2. m.sigs = <<>> /\ m.flat.protected = BytesOf(o.sigs[1].protected)
        /\ m.flat.signature = o.sigs[1].signature
    BY Zenon DEF CompactSerialize
  <2>3. RawFrom(RawOf(o.sigs[1]), conf, p, 1)
    BY Zenon, <1>2, <1>4, <2>1
  <2>4. RawFrom(m.flat, conf, p, 1)
    BY <2>2, <2>3 DEF RawFrom, RawOf
  <2> QED
    BY Zenon, <2>1, <2>2, <2>4 DEF SentFrom
<1>5. CASE Len(o.sigs) = 1
  <2> DEFINE m == FullSerialize(o)
  <2>1. m.sigs = <<>> /\ m.flat = RawOf(o.sigs[1]) /\ 1 \in DOMAIN o.sigs
    BY Zenon, <1>5, OneIndex DEF FullSerialize
  <2>2. SentFrom(m, conf, p)
    BY Zenon, <1>2, <1>5, <2>1 DEF SentFrom
  <2>3. BareObj(o) => BareMsg(m)
    BY <2>1, EmptySeq DEF BareObj, BareMsg, RawOf
  <2> QED
    BY Zenon, <1>3, <1>4, <2>2, <2>3 DEF SentFrom
<1>6. CASE Len(o.sigs) # 1
  <2> DEFINE m == FullSerialize(o)
  <2>1. m.sigs = [i \in DOMAIN o.sigs |-> RawOf(o.sigs[i])] /\ m.flat = RawSig
    BY Zenon, <1>6 DEF FullSerialize
  <2>2. BareObj(o) => BareMsg(m)
    BY SMTT(20), <2>1 DEF BareObj, BareMsg, RawOf, RawSig
  <2>3. ASSUME conf.recipients # <<>> PROVE SentFrom(m, conf, p)
    <3>1. /\ DOMAIN m.sigs = DOMAIN conf.recipients /\ Len(conf.recipients) # 1
          /\ \A i \in DOMAIN m.sigs : RawFrom(m.sigs[i], conf, p, i)
      BY Zenon, <1>2, <1>6, <2>1, <2>3
    <3>2. DOMAIN m.sigs # {}
      BY Zenon, <1>2, <2>1, <2>3
    <3>3. m.sigs # <<>>
      BY SMTT(20), <3>2, EmptySeq
    <3> QED
      BY Zenon, <3>1, <3>3 DEF SentFrom
  <2> QED
    BY Zenon, <1>3, <1>4, <2>2, <2>3 DEF SentFrom
<1> QED
  BY Zenon, <1>5, <1>6

\* A signature without an unprotected header.
Bare(x) == x.header = NoHeader

\* The parsers add no unprotected header.
LEMMA ParsedBare ==
    ASSUME NEW raw, NEW seen, Bare(raw)
    PROVE  Bare(ParseSig(raw, seen))
  BY DEF Bare, ParseSig

\* The parsers find a signer's signatures where it put them.
LEMMA ParseHolds ==
    ASSUME NEW conf, IsSeq(conf.recipients), NEW p, NEW m, SentFrom(m, conf, p), NEW q
    PROVE  LET o == [payload |-> q, sigs |-> SanitizedSigs(m)]
           IN  HeldFrom(o, conf, p) /\ (BareMsg(m) => BareObj(o))
<1> DEFINE t == SanitizedSigs(m)
<1>1. ASSUME NEW raw, NEW seen
      PROVE  /\ ParseSig(raw, seen).header = raw.header
             /\ \A i : RawFrom(raw, conf, p, i) => SigFrom(ParseSig(raw, seen), conf, p, i)
  <2>1. \A h : HeaderPtr(Canonical(h)) = <<h>>
    BY Zenon DEF HeaderPtr, Canonical, Kind
  <2> QED
    BY <2>1 DEF RawFrom, SigFrom, ParseSig
<1>2. CASE m.sigs = <<>>
  <2>1. t = <<ParseSig(m.flat, m.flat.header)>> /\ DOMAIN t = {1}
    BY Zenon, <1>2, SingletonIsSeq DEF SanitizedSigs
  <2>2. BareMsg(m) => \A i \in DOMAIN t : t[i].header = NoHeader
    <3> HIDE DEF t
    <3>1. t[1] = ParseSig(m.flat, m.flat.header)
      BY Zenon, <2>1, SingletonIsSeq
    <3>2. BareMsg(m) => Bare(ParseSig(m.flat, m.flat.header))
      BY Zenon, ParsedBare DEF BareMsg, Bare
    <3> QED
      BY Zenon, <2>1, <3>1, <3>2 DEF Bare
  <2>3. conf.recipients # <<>> => DOMAIN conf.recipients = {1} /\ SigFrom(t[1], conf, p, 1)
    BY <1>1, <1>2, <2>1, OneIndex DEF SentFrom
  <2> QED
    BY Zenon, <2>1, <2>2, <2>3 DEF HeldFrom, BareObj
<1>3. CASE m.sigs # <<>>
  <2>1. t = [i \in DOMAIN m.sigs |-> ParseSig(m.sigs[i], NoHeader)]
    BY Zenon, <1>3 DEF SanitizedSigs
  <2>2. BareMsg(m) => \A i \in DOMAIN t : t[i].header = NoHeader
    <3> HIDE DEF t
    <3>1. \A i \in DOMAIN t : i \in DOMAIN m.sigs /\ t[i] = ParseSig(m.sigs[i], NoHeader)
      BY Zenon, <2>1
    <3>2. BareMsg(m) => \A i \in DOMAIN m.sigs : Bare(ParseSig(m.sigs[i], NoHeader))
      BY Zenon, ParsedBare DEF BareMsg, Bare
    <3> QED
      BY Zenon, <3>1, <3>2 DEF Bare
  <2>3. conf.recipients # <<>> =>
            DOMAIN t = DOMAIN conf.recipients /\ \A i \in DOMAIN t : SigFrom(t[i], conf, p, i)
    BY <1>1, <1>3, <2>1 DEF SentFrom
  <2> QED
    BY Zenon, <2>1, <2>2, <2>3 DEF HeldFrom, BareObj
<1> QED
  BY Zenon, <1>2, <1>3

\* Merging the signer's header into an empty one gives it back.
LEMMA OwnMerged ==
    ASSUME NEW conf, NEW i
    PROVE  MergedHeaders(<<OwnHeader(conf, i)>>, NoHeader) = OwnHeader(conf, i)
<1> DEFINE h == OwnHeader(conf, i)
<1>1. h = [k \in DOMAIN h |-> h[k]]
  BY Zenon DEF OwnHeader, ProtectedFor, Override
<1> HIDE DEF h
<1>2. Merge(EmptyHeader, h) = [k \in DOMAIN h |-> h[k]]
  BY Zenon DEF Merge, EmptyHeader, IsSet, Present
<1>3. MergedHeaders(<<h>>, NoHeader) = Merge(EmptyHeader, h)
  BY Zenon DEF MergedHeaders, MergePtr, NoHeader
<1> QED
  BY <1>1, <1>2, <1>3 DEF h

\* A parser refuses a message of a sound signer only for its algorithms.
LEMMA ParseTakes ==
    ASSUME NEW conf, IsSeq(conf.recipients), conf.recipients # <<>>, Sound(conf), NEW p,
           NEW m, SentFrom(m, conf, p), BareMsg(m), m.payload # NoPayload,
           NEW a, \A i \in DOMAIN conf.recipients : conf.recipients[i].alg \in a
    PROVE  SanitizedOK(m, a)
<1>1. a # {}
  BY OneIndex
<1>2. ASSUME NEW raw, NEW i \in DOMAIN conf.recipients, RawFrom(raw, conf, p, i), raw.header = NoHeader
      PROVE  ParseSigOK(raw, a, NoHeader)
  <2> DEFINE h == OwnHeader(conf, i)
  <2>1. Kind(Canonical(h)) = "json" /\ HeaderPtr(Canonical(h)) = <<h>>
    BY Zenon DEF HeaderPtr, Canonical, Kind
  <2>2. Kind(raw.protected) = "json" /\ HeaderPtr(raw.protected) = <<h>>
    BY Zenon, <1>2, <2>1 DEF RawFrom
  <2>3. MergedHeaders(HeaderPtr(raw.protected), NoHeader) = h
    BY Zenon, <2>2, OwnMerged
  <2>4. /\ GetString(h, "alg") = conf.recipients[i].alg /\ SanitizeOK(h)
        /\ Present(h, "jwk") => Value(h["jwk"]).public
    BY Zenon, SoundHeader DEF OwnHeader
  <2>5. SanitizePtrOK(NoHeader) /\ SanitizePtrOK(<<h>>)
    BY Zenon, <2>4 DEF SanitizePtrOK
  <2> HIDE DEF h
  <2>6. GetString(h, "alg") \in a
    BY Zenon, <2>4
  <2> QED
    BY Zenon, <1>2, <2>2, <2>3, <2>4, <2>5, <2>6 DEF ParseSigOK
<1>3. CASE Len(conf.recipients) = 1
  <2>1. m.sigs = <<>> /\ RawFrom(m.flat, conf, p, 1) /\ 1 \in DOMAIN conf.recipients
    BY <1>3, OneIndex DEF SentFrom
  <2>2. m.flat.header = NoHeader
    BY Zenon DEF BareMsg
  <2>3. ParseSigOK(m.flat, a, m.flat.header)
    BY Zenon, <1>2, <2>1, <2>2
  <2> QED
    BY Zenon, <1>1, <2>1, <2>3 DEF SanitizedOK
<1>4. CASE Len(conf.recipients) # 1
  <2>1. /\ m.sigs # <<>> /\ DOMAIN m.sigs = DOMAIN conf.recipients
        /\ \A i \in DOMAIN m.sigs : RawFrom(m.sigs[i], conf, p, i) /\ m.sigs[i].header = NoHeader
    BY Zenon, <1>4 DEF SentFrom, BareMsg
  <2>2. \A i \in DOMAIN m.sigs : ParseSigOK(m.sigs[i], a, NoHeader)
    BY Zenon, <1>2, <2>1
  <2> QED
    BY Zenon, <1>1, <2>1, <2>2 DEF SanitizedOK
<1> QED
  BY Zenon, <1>3, <1>4

\* A verifier accepts a sound signer's signature with its key, whatever the
\* unprotected header says about anything but crit.
LEMMA OwnVerifies ==
    ASSUME NEW conf, Sound(conf), SignOK(conf), NewMultiSignerOK(conf),
           NEW i \in DOMAIN conf.recipients,
           NEW p \in Payload, NEW q \in Payload, Raw[q] = Raw[p],
           NEW sig, SigFrom(sig, conf, p, i),
           sig.header = NoHeader \/ CheckNoCritical(sig.header[1]),
           NEW vk, TryJWKS(vk, sig.Header) = <<conf.recipients[i].key>>
    PROVE  MultiAccepts(sig, q, vk)
<1> DEFINE h == OwnHeader(conf, i)
           r == conf.recipients[i]
<1>1. GetString(h, "alg") = r.alg /\ CheckSupportedCritical(h)
  BY Zenon, SoundHeader DEF OwnHeader
<1>2. sig.protected = <<h>> /\ sig.original \in {Absent, Canonical(h)}
  BY ZenonT(30) DEF SigFrom
<1>3. CritOK(sig)
  BY <1>1, <1>2 DEF CritOK
<1>4. NewSignerOK(r.alg, r.key) /\ SizeOK(r.alg, r.key) /\ r.alg # ""
  <2>1. NewSignerOK(r.alg, r.key) /\ SizeOK(r.alg, r.key)
    BY Zenon DEF NewMultiSignerOK, SignOK
  <2>2. "" \notin DOMAIN SignatureAlgorithm
    BY Zenon DEF SignatureAlgorithm
  <2> QED
    BY Zenon, <2>1, <2>2 DEF NewSignerOK
<1>5. SigAlg(sig) = r.alg
  <2>1. GetString(MergedHeaders(<<h>>, NoHeader), "alg") = r.alg
    BY <1>1, OwnMerged
  <2>2. GetString(MergedHeaders(<<h>>, sig.header), "alg") = r.alg
    BY Zenon, <1>4, <2>1, ProtectedStringWins
  <2> QED
    BY ZenonT(30), <1>2, <2>2 DEF SigAlg
<1>6. /\ Kind(Absent) = "absent" /\ Kind(Canonical(h)) = "json" /\ Canonical(h) # Absent
      /\ BytesOf(<<h>>) = Canonical(h) /\ HeaderOf(Canonical(h)) = h
  BY Zenon DEF Absent, Canonical, Kind, BytesOf, HeaderOf, NoHeader
<1> HIDE DEF h, r
<1>7. AuthDataOK(sig)
  BY Zenon, <1>2, <1>6 DEF AuthDataOK
<1>8. AuthData(sig, q) = <<Canonical(h), PayloadText(h, q)>>
  BY Zenon, <1>2, <1>6 DEF AuthData
<1>9. PayloadText(h, q) = PayloadText(h, p)
  BY ZenonT(30), PayloadAssumption DEF PayloadText
<1>10. sig.signature = SignPayload(r.key, r.alg, <<Canonical(h), PayloadText(h, p)>>)
  BY DEF SigFrom, OwnSig, h, r
<1>11. CryptoOK(sig, r.key, q)
  BY Zenon, <1>4, <1>5, <1>7, <1>8, <1>9, <1>10 DEF CryptoOK, VerifyPayload
<1> QED
  BY <1>3, <1>11 DEF MultiAccepts, r

\* A parsed signature is looked up in a JWK Set by the kid its signer was given.
LEMMA OwnFound ==
    ASSUME NEW conf, NEW i, NEW p, NEW sig, SigFrom(sig, conf, p, i), NEW a, ParsedFrom(sig, a),
           NEW vk \in SetsWith(conf, conf.recipients[i])
    PROVE  TryJWKS(vk, sig.Header) = <<conf.recipients[i].key>>
<1> DEFINE h == OwnHeader(conf, i)
           r == conf.recipients[i]
<1>1. /\ Kind(vk) = "jwks" /\ r.kid # "" /\ r.key.type # "mac"
      /\ ~conf.embedJWK /\ "kid" \notin DOMAIN conf.extra
      /\ KeysOf(Value(vk), r.kid) # <<>> /\ KeysOf(Value(vk), r.kid)[1].key = r.key
  BY Zenon DEF SetsWith
<1>2. "kid" \in DOMAIN h /\ h["kid"] = Str(r.kid)
  BY ZenonT(30), <1>1, KidWritten, SignerHeader DEF OwnHeader
<1>3. GetString(h, "kid") = r.kid
  BY <1>2 DEF GetString, Str, Kind, Value
<1>4. \E raw, seen : sig = ParseSig(raw, seen)
  BY DEF ParsedFrom
<1>5. PICK raw, seen : sig = ParseSig(raw, seen)
  BY <1>4
<1>6. HeaderPtr(raw.protected) = <<h>>
  BY <1>5 DEF ParseSig, SigFrom
<1>7. sig.Header.kid = GetString(MergedHeaders(<<h>>, seen), "kid")
  BY Zenon, <1>5, <1>6 DEF ParseSig, Sanitized
<1>8. GetString(MergedHeaders(<<h>>, NoHeader), "kid") = r.kid
  BY <1>3, OwnMerged
<1>9. sig.Header.kid = r.kid
  BY Zenon, <1>1, <1>7, <1>8, ProtectedStringWins
<1> HIDE DEF h, r
<1>10. Kind(vk) # "key"
  BY Zenon, <1>1
<1> QED
  BY Zenon, <1>1, <1>9, <1>10 DEF TryJWKS, r

(***************************************************************************)
(* What becomes of a message that Sign made.                               *)
(***************************************************************************)
Undamaged == MadeBy("sign") /\ "damage" \notin origin[1].touched

SignerInv ==
    MadeBy("sign") =>
        /\ origin[1].conf \in SignerConf /\ origin[1].payload \in Payload
        /\ SignOK(origin[1].conf) /\ NewMultiSignerOK(origin[1].conf)

CarriedInv ==
    Undamaged =>
        /\ at = "wire" => SentFrom(msg, origin[1].conf, origin[1].payload)
        /\ at \in {"signed", "parsed"} => HeldFrom(obj, origin[1].conf, origin[1].payload)

PayloadInv ==
    Undamaged /\ Carried(origin[1]) =>
        /\ at = "wire" => msg.payload = origin[1].payload
        /\ at \in {"signed", "parsed"} => obj.payload = origin[1].payload

BareInv ==
    MadeBy("sign") /\ origin[1].touched \subseteq {"resent", "detached"} =>
        /\ at = "wire" => BareMsg(msg)
        /\ at \in {"signed", "parsed"} => BareObj(obj)

RefusedInv ==
    /\ MadeBy("sign") /\ Sound(origin[1].conf) /\ origin[1].touched \subseteq {"resent"}
    /\ at = "refused" /\ Carried(origin[1]) /\ origin[1].conf.recipients # <<>>
    => \E i \in DOMAIN origin[1].conf.recipients : origin[1].conf.recipients[i].alg \notin allow

SignInv ==
    /\ Shape /\ ParsedInv /\ ForeignInv
    /\ SignerInv /\ CarriedInv /\ PayloadInv /\ BareInv /\ RefusedInv

\* A payload that travels is neither nil nor empty.
LEMMA CarriedIsFull ==
    ASSUME NEW o, Carried(o)
    PROVE  o.payload # NilBytes /\ o.payload # EmptyBytes
BY PayloadAssumption DEF Carried

\* Sign starts the history of a message.
LEMMA SignStep ==
    ASSUME SignInv, NEW conf \in SignerConf, NEW p \in Payload, Sign(conf, p)
    PROVE  SignerInv' /\ CarriedInv' /\ PayloadInv' /\ BareInv' /\ RefusedInv'
<1>1. CASE SignOK(conf)
  <2> DEFINE r == [from |-> "sign", conf |-> conf, payload |-> p, touched |-> {}]
  <2>1. origin' = <<r>> /\ at' = "signed" /\ obj' = SignObject(conf, p) /\ NewMultiSignerOK(conf)
    BY Zenon, <1>1 DEF Sign
  <2>2. r.conf = conf /\ r.payload = p
    OBVIOUS
  <2> HIDE DEF r
  <2>3. origin'[1].conf = conf /\ origin'[1].payload = p /\ obj'.payload = p
    BY Zenon, <2>1, <2>2 DEF SignObject
  <2>4. HeldFrom(obj', conf, p) /\ BareObj(obj')
    BY SMTT(20), <2>1, SignHolds
  <2>5. SignerInv'
    BY Zenon, <1>1, <2>1, <2>3 DEF SignerInv
  <2> QED
    BY <2>1, <2>3, <2>4, <2>5 DEF CarriedInv, PayloadInv, BareInv, RefusedInv
<1>2. CASE ~SignOK(conf)
  <2>1. origin' = <<>>
    BY Zenon, <1>2 DEF Sign, SignInv, ForeignInv
  <2> QED
    BY Zenon, <2>1 DEF SignerInv, CarriedInv, PayloadInv, BareInv, RefusedInv, Undamaged, MadeBy
<1> QED
  BY <1>1, <1>2

Later(o, t) ==
    /\ (t = <<>> <=> o = <<>>)
    /\ o # <<>> => /\ t[1].from = o[1].from /\ t[1].conf = o[1].conf /\ t[1].payload = o[1].payload
                   /\ o[1].touched \subseteq t[1].touched

\* A later history of the same message has the same producer.
LEMMA LaterKeeps ==
    ASSUME Later(origin, origin')
    PROVE  /\ MadeBy("sign")' => /\ MadeBy("sign") /\ origin'[1].conf = origin[1].conf
                                 /\ origin'[1].payload = origin[1].payload
                                 /\ origin[1].touched \subseteq origin'[1].touched
           /\ Undamaged' => Undamaged
           /\ MadeBy("sign")' /\ Carried(origin'[1]) => Carried(origin[1])
           /\ SignerInv => SignerInv'
<1>1. MadeBy("sign")' => /\ MadeBy("sign") /\ origin'[1].conf = origin[1].conf
                         /\ origin'[1].payload = origin[1].payload
                         /\ origin[1].touched \subseteq origin'[1].touched
  BY DEF Later, MadeBy
<1>2. Undamaged' => Undamaged
  BY Zenon, <1>1 DEF Undamaged
<1>3. MadeBy("sign")' /\ Carried(origin'[1]) => Carried(origin[1])
  BY <1>1 DEF Carried
<1> QED
  BY Zenon, <1>1, <1>2, <1>3 DEF SignerInv

\* A serializer that carries signatures, headers and payload.
LEMMA SendStep ==
    ASSUME SignInv, NEW m, NEW o, Send(m, o), IsOrigin(o), Later(origin, o),
           \A conf, p : IsSeq(conf.recipients) /\ HeldFrom(obj, conf, p) => SentFrom(m, conf, p),
           BareObj(obj) => BareMsg(m),
           (o # <<>> => "detached" \notin o[1].touched) /\ obj.payload # NilBytes => m.payload = obj.payload
    PROVE  SignerInv' /\ CarriedInv' /\ PayloadInv' /\ BareInv' /\ RefusedInv'
<1>1. at \in {"signed", "parsed"} /\ at' = "wire" /\ msg' = m
      /\ origin' = IF at = "parsed" THEN Touch(o, {"resent"}) ELSE o
  BY Zenon DEF Send
<1>2. Later(o, origin')
  <2>1. Later(o, Touch(o, {"resent"}))
    BY ZenonT(30), TouchKeeps DEF Later
  <2> QED
    BY Zenon, <1>1, <2>1 DEF Later
<1>3. Later(origin, origin')
  BY Zenon, <1>2 DEF Later
<1>i. SignerInv /\ CarriedInv /\ PayloadInv /\ BareInv
  BY Zenon DEF SignInv
<1>4. ASSUME Undamaged' PROVE SentFrom(m, origin'[1].conf, origin'[1].payload)
  <2>1. Undamaged /\ MadeBy("sign")' /\ MadeBy("sign")
    BY ZenonT(30), <1>3, <1>4, LaterKeeps DEF Undamaged
  <2>2. origin'[1].conf = origin[1].conf /\ origin'[1].payload = origin[1].payload
    BY ZenonT(30), <1>3, <2>1, LaterKeeps
  <2>3. HeldFrom(obj, origin[1].conf, origin[1].payload)
    BY Zenon, <1>1, <1>i, <2>1 DEF CarriedInv
  <2>4. IsSeq(origin[1].conf.recipients)
    BY Zenon, <1>i, <2>1, ProducerAssumption DEF SignerInv, IsSeq
  <2> QED
    BY <2>2, <2>3, <2>4
<1>5. ASSUME Undamaged', Carried(origin'[1]) PROVE m.payload = origin'[1].payload
  <2>1. Undamaged /\ MadeBy("sign")' /\ Carried(origin[1]) /\ origin'[1].payload = origin[1].payload
    BY Zenon, <1>3, <1>5, LaterKeeps DEF Undamaged
  <2>2. obj.payload = origin[1].payload
    BY Zenon, <1>1, <1>i, <2>1 DEF PayloadInv
  <2>3. obj.payload # NilBytes
    BY Zenon, <2>1, <2>2, CarriedIsFull
  <2>4. o # <<>> => "detached" \notin o[1].touched
    BY Zenon, <1>2, <1>5 DEF Later, Carried
  <2> QED
    BY Zenon, <2>1, <2>2, <2>3, <2>4
<1>6. ASSUME MadeBy("sign")', origin'[1].touched \subseteq {"resent", "detached"} PROVE BareMsg(m)
  <2>1. MadeBy("sign") /\ origin[1].touched \subseteq {"resent", "detached"}
    BY ZenonT(30), <1>3, <1>6, LaterKeeps
  <2> QED
    BY <1>1, <1>i, <2>1 DEF BareInv
<1>7. SignerInv'
  BY ZenonT(30), <1>3, <1>i, LaterKeeps
<1> QED
  BY Zenon, <1>1, <1>4, <1>5, <1>6, <1>7 DEF CarriedInv, PayloadInv, BareInv, RefusedInv

\* Damage ends what is promised; an added header leaves signatures alone.
LEMMA TransitStep ==
    ASSUME SignInv, NEW m, NEW how \in {{"header"}, {"damage"}}, InTransit(m, how),
           how = {"header"} =>
               /\ m.payload = msg.payload
               /\ \A conf, p : SentFrom(msg, conf, p) => SentFrom(m, conf, p)
    PROVE  SignerInv' /\ CarriedInv' /\ PayloadInv' /\ BareInv' /\ RefusedInv'
<1>1. at = "wire" /\ at' = "wire" /\ msg' = m /\ origin' = Touch(origin, how)
  BY Zenon DEF InTransit
<1>i. SignerInv /\ CarriedInv /\ PayloadInv /\ IsOrigin(origin)
  BY Zenon DEF SignInv, ForeignInv
<1>2. Later(origin, origin') /\ (origin' # <<>> => how \subseteq origin'[1].touched)
  BY SMTT(20), <1>1, <1>i, TouchKeeps DEF Later
<1>3. ~(MadeBy("sign")' /\ origin'[1].touched \subseteq {"resent", "detached"})
  BY Zenon, <1>2 DEF MadeBy
<1>4. Undamaged' => how = {"header"}
  BY SMTT(20), <1>2 DEF Undamaged, MadeBy
<1>5. ASSUME Undamaged' PROVE SentFrom(m, origin'[1].conf, origin'[1].payload)
  <2>1. Undamaged /\ origin'[1].conf = origin[1].conf /\ origin'[1].payload = origin[1].payload
    BY Zenon, <1>2, <1>5, LaterKeeps DEF Undamaged
  <2>2. SentFrom(msg, origin[1].conf, origin[1].payload)
    BY Zenon, <1>1, <1>i, <2>1 DEF CarriedInv
  <2> QED
    BY Zenon, <1>4, <1>5, <2>1, <2>2
<1>6. ASSUME Undamaged', Carried(origin'[1]) PROVE m.payload = origin'[1].payload
  <2>1. Undamaged /\ Carried(origin[1]) /\ origin'[1].payload = origin[1].payload
    BY Zenon, <1>2, <1>6, LaterKeeps DEF Undamaged
  <2> QED
    BY Zenon, <1>1, <1>4, <1>6, <1>i, <2>1 DEF PayloadInv
<1>7. SignerInv'
  BY Zenon, <1>2, <1>i, LaterKeeps
<1> QED
  BY Zenon, <1>1, <1>3, <1>5, <1>6, <1>7 DEF CarriedInv, PayloadInv, BareInv, RefusedInv

\* A parser finds the signer's signatures; ParseSigned refuses them only for
\* their algorithms.
LEMMA AcceptStep ==
    ASSUME SignInv, NEW ok \in BOOLEAN, NEW q, NEW a, NEW how,
           Accept(ok, [payload |-> q, sigs |-> SanitizedSigs(msg)], a, how),
           ok /\ msg.payload \notin {NilBytes, EmptyBytes} => q = msg.payload,
           ok \/ how = {"misparsed"} \/ (how = {} /\ ~SanitizedOK(msg, a))
    PROVE  SignerInv' /\ CarriedInv' /\ PayloadInv' /\ BareInv' /\ RefusedInv'
<1>1. at = "wire" /\ allow' = a /\ at' = IF ok THEN "parsed" ELSE "refused"
  BY Zenon DEF Accept
<1>i. /\ SignerInv /\ CarriedInv /\ PayloadInv /\ BareInv /\ IsOrigin(origin)
      /\ NoPayload \notin Payload
  BY Zenon, ProducerAssumption DEF SignInv, ForeignInv
<1>s. MadeBy("sign") => IsSeq(origin[1].conf.recipients)
  BY <1>i, ProducerAssumption DEF SignerInv, IsSeq
<1>2. CASE ok
  <2> DEFINE o == [payload |-> q, sigs |-> SanitizedSigs(msg)]
  <2>1. UNCHANGED origin /\ at' = "parsed" /\ obj' = o
    BY Zenon, <1>2 DEF Accept
  <2>2. obj'.payload = q
    BY SMTT(20), <2>1
  <2>3. ASSUME Undamaged PROVE HeldFrom(obj', origin[1].conf, origin[1].payload)
    <3>1. SentFrom(msg, origin[1].conf, origin[1].payload) /\ IsSeq(origin[1].conf.recipients)
      BY Zenon, <1>1, <1>i, <1>s, <2>3 DEF CarriedInv, Undamaged
    <3> QED
      BY Zenon, <2>1, <3>1, ParseHolds
  <2>4. ASSUME Undamaged, Carried(origin[1]) PROVE obj'.payload = origin[1].payload
    <3>1. msg.payload = origin[1].payload
      BY Zenon, <1>1, <1>i, <2>4 DEF PayloadInv
    <3> QED
      BY Zenon, <1>2, <2>2, <2>4, <3>1, CarriedIsFull
  <2>5. ASSUME MadeBy("sign"), origin[1].touched \subseteq {"resent", "detached"} PROVE BareObj(obj')
    <3>1. Undamaged /\ BareMsg(msg)
      BY Zenon, <1>1, <1>i, <2>5 DEF Undamaged, BareInv
    <3>2. SentFrom(msg, origin[1].conf, origin[1].payload) /\ IsSeq(origin[1].conf.recipients)
      BY Zenon, <1>1, <1>i, <1>s, <2>5, <3>1 DEF CarriedInv
    <3> QED
      BY Zenon, <2>1, <3>1, <3>2, ParseHolds
  <2>6. /\ MadeBy("sign")' = MadeBy("sign") /\ Undamaged' = Undamaged
        /\ Carried(origin[1])' = Carried(origin[1]) /\ SignerInv'
    BY Zenon, <1>i, <2>1 DEF MadeBy, Undamaged, Carried, SignerInv
  <2> HIDE DEF o
  <2> QED
    BY Zenon, <2>1, <2>3, <2>4, <2>5, <2>6 DEF CarriedInv, PayloadInv, BareInv, RefusedInv
<1>3. CASE ~ok
  <2>1. origin' = Touch(origin, how) /\ at' = "refused"
    BY Zenon, <1>3 DEF Accept
  <2>2. Later(origin, origin') /\ (origin' # <<>> => how \subseteq origin'[1].touched)
    BY <1>i, <2>1, TouchKeeps DEF Later
  <2>3. SignerInv'
    BY Zenon, <1>i, <2>2, LaterKeeps
  <2>4. RefusedInv'
    <3> SUFFICES ASSUME MadeBy("sign")', Sound(origin'[1].conf),
                        origin'[1].touched \subseteq {"resent"},
                        Carried(origin'[1]), origin'[1].conf.recipients # <<>>,
                        \A i \in DOMAIN origin'[1].conf.recipients : origin'[1].conf.recipients[i].alg \in allow'
                 PROVE  FALSE
      BY Zenon DEF RefusedInv
    <3>1. how = {} /\ ~SanitizedOK(msg, a)
      BY Zenon, <1>3, <2>2 DEF MadeBy
    <3> DEFINE conf == origin[1].conf
    <3>2. /\ MadeBy("sign") /\ origin'[1].conf = conf /\ origin[1].touched \subseteq {"resent"}
          /\ Carried(origin[1])
      BY ZenonT(30), <2>2, LaterKeeps
    <3>3. Undamaged
      BY <3>2 DEF Undamaged
    <3>4. /\ SentFrom(msg, conf, origin[1].payload) /\ BareMsg(msg) /\ msg.payload = origin[1].payload
          /\ origin[1].payload \in Payload /\ IsSeq(conf.recipients)
      BY Zenon, <1>1, <1>i, <1>s, <3>2, <3>3 DEF CarriedInv, PayloadInv, BareInv, SignerInv
    <3>5. msg.payload # NoPayload
      BY Zenon, <1>i, <3>4
    <3>6. \A i \in DOMAIN conf.recipients : conf.recipients[i].alg \in a
      BY Zenon, <1>1, <3>2
    <3>7. Sound(conf) /\ conf.recipients # <<>>
      BY <3>2
    <3> HIDE DEF conf
    <3>8. SanitizedOK(msg, a)
      BY Zenon, <3>4, <3>5, <3>6, <3>7, ParseTakes
    <3> QED
      BY Zenon, <3>1, <3>8
  <2> QED
    BY <2>1, <2>3, <2>4 DEF CarriedInv, PayloadInv, BareInv
<1> QED
  BY <1>2, <1>3

\* Adding an unprotected header touches neither signatures nor protected bytes.
LEMMA AddedHeaderSends ==
    ASSUME IsMsg(msg), NEW h
    PROVE  /\ LET m == [msg EXCEPT !.flat.header = h]
              IN  /\ m.payload = msg.payload
                  /\ \A conf, p : SentFrom(msg, conf, p) => SentFrom(m, conf, p)
           /\ \A i \in DOMAIN msg.sigs :
                 LET m == [msg EXCEPT !.sigs[i].header = h]
                 IN  /\ m.payload = msg.payload
                     /\ \A conf, p : SentFrom(msg, conf, p) => SentFrom(m, conf, p)
<1>1. LET m == [msg EXCEPT !.flat.header = h]
      IN  /\ m.payload = msg.payload
          /\ \A conf, p : SentFrom(msg, conf, p) => SentFrom(m, conf, p)
  <2> DEFINE m == [msg EXCEPT !.flat.header = h]
  <2>1. /\ m.payload = msg.payload /\ m.sigs = msg.sigs
        /\ m.flat.protected = msg.flat.protected /\ m.flat.signature = msg.flat.signature
    BY Zenon DEF IsMsg, RawFields
  <2> HIDE DEF m
  <2>2. \A conf, p : SentFrom(msg, conf, p) => SentFrom(m, conf, p)
    BY <2>1 DEF SentFrom, RawFrom
  <2> QED
    BY <2>1, <2>2 DEF m
<1>2. ASSUME NEW i \in DOMAIN msg.sigs
      PROVE  LET m == [msg EXCEPT !.sigs[i].header = h]
             IN  /\ m.payload = msg.payload
                 /\ \A conf, p : SentFrom(msg, conf, p) => SentFrom(m, conf, p)
  <2> DEFINE m == [msg EXCEPT !.sigs[i].header = h]
  <2>1. m.payload = msg.payload /\ m.flat = msg.flat /\ m.sigs = [msg.sigs EXCEPT ![i].header = h]
    BY DEF IsMsg
  <2>2. DOMAIN m.sigs = DOMAIN msg.sigs
    BY <2>1
  <2>3. ASSUME NEW j \in DOMAIN msg.sigs
        PROVE  m.sigs[j].protected = msg.sigs[j].protected /\ m.sigs[j].signature = msg.sigs[j].signature
    BY <2>1 DEF IsMsg, RawFields
  <2>4. msg.sigs # <<>> /\ m.sigs # <<>>
    BY SMTT(20), <2>2, EmptySeq
  <2> HIDE DEF m
  <2>5. \A conf, p : SentFrom(msg, conf, p) => SentFrom(m, conf, p)
    BY Zenon, <2>2, <2>3, <2>4 DEF SentFrom, RawFrom
  <2> QED
    BY <2>1, <2>5 DEF m
<1> QED
  BY <1>1, <1>2

\* Every step keeps what origin promises about a message of Sign.
LEMMA SignInvStep == SignInv /\ [Next]_vars => SignInv'
<1> SUFFICES ASSUME SignInv, [Next]_vars PROVE SignInv'
  OBVIOUS
<1> DEFINE Rest == SignerInv /\ CarriedInv /\ PayloadInv /\ BareInv /\ RefusedInv
<1>s. Shape' /\ ParsedInv' /\ ForeignInv'
  BY ShapeStep, ParsedInvStep, ForeignInvStep DEF SignInv
<1> SUFFICES Rest'
  BY ZenonT(30), <1>s DEF SignInv
<1>t. IsMsg(msg) /\ IsObj(obj) /\ IsSeq(obj.sigs) /\ IsOrigin(origin) /\ Rest
  BY DEF SignInv, Shape, IsObj, ForeignInv
<1>l. Later(origin, origin)
  BY ZenonT(30) DEF Later
<1>d. LET t == Touch(origin, {"detached"})
      IN  IsOrigin(t) /\ Later(origin, t) /\ (t # <<>> => "detached" \in t[1].touched)
  BY <1>t, TouchKeeps DEF Later
<1>1. CASE \E conf \in SignerConf, p \in Payload : Sign(conf, p)
  BY ZenonT(30), <1>1, SignStep
<1>2. CASE \E f \in Foreign : ForeignSign(f)
  <2>1. PICK f \in Foreign : ForeignSign(f)
    BY <1>2
  <2>2. origin'[1].from = "foreign"
    BY <2>1 DEF ForeignSign
  <2>3. ~MadeBy("sign")'
    BY SMTT(20), <2>2 DEF MadeBy
  <2> QED
    BY <2>3 DEF SignerInv, CarriedInv, PayloadInv, BareInv, RefusedInv, Undamaged
<1>3. CASE SendFull
  <2> DEFINE m == FullSerialize(obj)
  <2>1. Send(m, origin)
    BY Zenon, <1>3 DEF SendFull
  <2>2. \A conf, p : IsSeq(conf.recipients) /\ HeldFrom(obj, conf, p) => SentFrom(m, conf, p)
    BY ZenonT(30), <1>t, SerializeSends
  <2>3. BareObj(obj) => BareMsg(m)
    <3>1. HeldFrom(obj, [recipients |-> <<>>], 0) /\ IsSeq([recipients |-> <<>>].recipients)
      BY Zenon, EmptyShape DEF HeldFrom
    <3> QED
      BY <1>t, <3>1, SerializeSends
  <2>4. obj.payload # NilBytes => m.payload = obj.payload
    BY DEF FullSerialize
  <2> HIDE DEF m
  <2> QED
    BY Zenon, <1>l, <1>t, <2>1, <2>2, <2>3, <2>4, SendStep
<1>4. ASSUME NEW d \in BOOLEAN, NEW o, CompactOK(obj), Send(CompactSerialize(obj, d), o),
             IsOrigin(o), Later(origin, o), d => o = <<>> \/ "detached" \in o[1].touched
      PROVE  Rest'
  <2> DEFINE m == CompactSerialize(obj, d)
  <2>1. \A conf, p : IsSeq(conf.recipients) /\ HeldFrom(obj, conf, p) => SentFrom(m, conf, p)
    BY ZenonT(30), <1>4, <1>t, SerializeSends
  <2>2. BareMsg(m)
    <3>1. HeldFrom(obj, [recipients |-> <<>>], 0) /\ IsSeq([recipients |-> <<>>].recipients)
      BY Zenon, EmptyShape DEF HeldFrom
    <3> QED
      BY Zenon, <1>4, <1>t, <3>1, SerializeSends
  <2>3. ~d /\ obj.payload # NilBytes => m.payload = obj.payload
    BY DEF CompactSerialize
  <2>4. CASE o # <<>>
    <3>1. (o # <<>> => "detached" \notin o[1].touched) /\ obj.payload # NilBytes => m.payload = obj.payload
      BY ZenonT(30), <1>4, <2>3, <2>4
    <3> HIDE DEF m
    <3> QED
      BY Zenon, <1>4, <2>1, <2>2, <3>1, SendStep DEF m
  <2>5. CASE o = <<>>
    <3>1. origin' = <<>>
      BY <1>4, <2>5 DEF Send, Touch
    <3> QED
      BY <3>1 DEF SignerInv, CarriedInv, PayloadInv, BareInv, RefusedInv, Undamaged, MadeBy
  <2> QED
    BY Zenon, <2>4, <2>5
<1>5. CASE SendCompact
  BY Zenon, <1>4, <1>5, <1>l, <1>t DEF SendCompact
<1>6. CASE SendDetached
  BY Zenon, <1>4, <1>6, <1>d DEF SendDetached
<1>7. CASE \E h \in AddedHeader : AddHeader(h)
  <2>1. PICK h \in AddedHeader : AddHeader(h)
    BY <1>7
  <2>2. CASE InTransit([msg EXCEPT !.flat.header = <<h>>], {"header"})
    <3> DEFINE m == [msg EXCEPT !.flat.header = <<h>>]
    <3>1. m.payload = msg.payload /\ \A conf, p : SentFrom(msg, conf, p) => SentFrom(m, conf, p)
      BY <1>t, AddedHeaderSends
    <3>2. InTransit(m, {"header"})
      BY Zenon, <2>2
    <3> HIDE DEF m
    <3> QED
      BY <3>1, <3>2, TransitStep
  <2>3. ASSUME NEW i \in DOMAIN msg.sigs, InTransit([msg EXCEPT !.sigs[i].header = <<h>>], {"header"})
        PROVE  Rest'
    <3> DEFINE m == [msg EXCEPT !.sigs[i].header = <<h>>]
    <3>1. m.payload = msg.payload /\ \A conf, p : SentFrom(msg, conf, p) => SentFrom(m, conf, p)
      BY Zenon, <1>t, AddedHeaderSends
    <3>2. InTransit(m, {"header"})
      BY Zenon, <2>3
    <3> HIDE DEF m
    <3> QED
      BY <3>1, <3>2, TransitStep
  <2> QED
    BY Zenon, <2>1, <2>2, <2>3 DEF AddHeader
<1>8. CASE \/ \E p \in Payload : DamagePayload(p)
           \/ \E b \in OtherBytes : DamageProtected(b)
  <2>1. PICK m : InTransit(m, {"damage"})
    BY Zenon, <1>8 DEF DamagePayload, DamageProtected
  <2>2. {"damage"} # {"header"}
    BY SMTT(20)
  <2> QED
    BY <2>1, <2>2, TransitStep
<1>9. CASE \E a \in AllowLists : ParseSigned(a)
  <2>1. PICK a \in AllowLists : Accept(SanitizedOK(msg, a), Parse(msg), a, {})
    BY <1>9 DEF ParseSigned
  <2> DEFINE ok == SanitizedOK(msg, a)
             q == ParsedPayload(msg)
  <2>2. ok \in BOOLEAN /\ (msg.payload \notin {NilBytes, EmptyBytes} => q = msg.payload)
    BY Zenon DEF SanitizedOK, ParsedPayload
  <2>3. Accept(ok, [payload |-> q, sigs |-> SanitizedSigs(msg)], a, {})
    BY <2>1 DEF Parse
  <2> HIDE DEF q
  <2> QED
    BY Zenon, <2>2, <2>3, AcceptStep
<1>10. CASE \E a \in AllowLists, p \in Payload : ParseDetachedMsg(a, p)
  <2>1. PICK a \in AllowLists, p \in Payload :
            Accept(ParseDetachedOK(msg, p, a), ParseDetached(msg, p), a, {"misparsed"})
    BY <1>10 DEF ParseDetachedMsg
  <2> DEFINE ok == ParseDetachedOK(msg, p, a)
  <2>2. ok \in BOOLEAN /\ (ok => msg.payload = EmptyBytes)
    BY Zenon DEF ParseDetachedOK
  <2>3. Accept(ok, [payload |-> p, sigs |-> SanitizedSigs(msg)], a, {"misparsed"})
    BY <2>1 DEF ParseDetached
  <2> QED
    BY Zenon, <2>2, <2>3, AcceptStep
<1>11. CASE \/ \E vk \in VerKeys : Verify(vk) \/ VerifyMulti(vk)
            \/ UNCHANGED vars
  <2>1. UNCHANGED <<at, msg, obj, allow, origin>>
    BY Zenon, <1>11 DEF Verify, VerifyMulti, vars
  <2> QED
    BY Zenon, <1>t, <2>1 DEF SignerInv, CarriedInv, PayloadInv, BareInv, RefusedInv, Undamaged, MadeBy, Carried
<1> QED
  BY Zenon, <1>1, <1>2, <1>3, <1>5, <1>6, <1>7, <1>8, <1>9, <1>10, <1>11 DEF Next

\* What Sign made verifies with each of its keys, given as a key or through a JWK
\* Set, after any number of serializations, parses and added headers, and is
\* refused only for its algorithms, for every configuration of the signer.
THEOREM RoundTripAlways == Spec => []RoundTrip
<1>1. Init => SignInv
  <2> SUFFICES ASSUME Init PROVE SignInv
    BY Zenon
  <2>1. Shape
    BY SMTT(20), EmptyShape, EmptySeq DEF Init, Shape, TypeOK, NoObj, NoResult
  <2>2. ParsedInv /\ ForeignInv /\ ~MadeBy("sign")
    BY DEF Init, ParsedInv, ForeignInv, IsOrigin, MadeBy
  <2> QED
    BY Zenon, <2>1, <2>2 DEF SignInv, SignerInv, CarriedInv, PayloadInv, BareInv, RefusedInv, Undamaged
<1>2. SignInv => RoundTrip
  <2> SUFFICES ASSUME SignInv, MadeBy("sign"), Sound(origin[1].conf), "damage" \notin origin[1].touched
               PROVE  RoundTrip
    BY Zenon DEF RoundTrip
  <2> DEFINE o == origin[1]
             conf == o.conf
             rs == conf.recipients
             own(i) == {<<"key", rs[i].key>>} \cup
                       (IF at = "parsed" THEN SetsWith(conf, rs[i]) ELSE {})
  <2>u. Undamaged
    BY Zenon DEF Undamaged
  <2>1. at = "refused" /\ o.touched \subseteq {"resent"} /\ Carried(o) /\ rs # <<>> =>
            \E i \in DOMAIN rs : rs[i].alg \notin allow
    BY Zenon DEF SignInv, RefusedInv
  <2>2. at = "parsed" /\ Carried(o) => obj.payload = o.payload
    BY <2>u DEF SignInv, PayloadInv
  <2>3. ASSUME at \in {"signed", "parsed"}, Raw[obj.payload] = Raw[o.payload],
               NEW i \in DOMAIN rs,
               obj.sigs[i].header = NoHeader \/ CheckNoCritical(obj.sigs[i].header[1]),
               NEW vk \in own(i)
        PROVE  MultiAccepts(obj.sigs[i], obj.payload, vk)
    <3>1. rs # <<>>
      BY <2>3, EmptySeq
    <3>2. HeldFrom(obj, conf, o.payload)
      BY Zenon, <2>u, <2>3 DEF SignInv, CarriedInv
    <3>3. i \in DOMAIN obj.sigs /\ SigFrom(obj.sigs[i], conf, o.payload, i)
      BY Zenon, <2>3, <3>1, <3>2 DEF HeldFrom
    <3>4. o.payload \in Payload /\ SignOK(conf) /\ NewMultiSignerOK(conf) /\ obj.payload \in Payload
      BY Zenon DEF SignInv, SignerInv, Shape, IsObj
    <3>5. TryJWKS(vk, obj.sigs[i].Header) = <<rs[i].key>>
      <4>1. CASE vk = <<"key", rs[i].key>>
        BY Zenon, <4>1 DEF TryJWKS, Kind, Value
      <4>2. CASE at = "parsed" /\ vk \in SetsWith(conf, rs[i])
        <5>1. ParsedFrom(obj.sigs[i], allow)
          BY <3>3, <4>2 DEF SignInv, ParsedInv
        <5> QED
          BY ZenonT(30), <3>3, <4>2, <5>1, OwnFound
      <4> QED
        BY Zenon, <2>3, <4>1, <4>2
    <3> QED
      BY Zenon, <2>3, <3>3, <3>4, <3>5, OwnVerifies
  <2> QED
    BY ZenonT(30), <2>1, <2>2, <2>3 DEF RoundTrip
<1> QED
  BY <1>1, <1>2, SignInvStep, PTL DEF Spec

=============================================================================
