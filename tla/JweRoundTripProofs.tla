------------------------- MODULE JweRoundTripProofs --------------------------
(***************************************************************************)
(* What a producer sealed opens with the keys it was sealed for, whatever  *)
(* became of the message in between, for every set of keys, encrypter      *)
(* configurations, foreign messages, headers, plaintexts and allow-lists.  *)
(* JweSealingProofs says it of the message as Encrypt makes it; here the   *)
(* message travels, and an invariant says what the way leaves of it.       *)
(***************************************************************************)
EXTENDS JweSealingProofs

(***************************************************************************)
(* On the way: serializing, parsing, and added headers.                    *)
(***************************************************************************)
\* A list of one recipient.
LEMMA OneHas ==
    ASSUME NEW e, NEW names, DOMAIN e.recipients = {1},
           NEW header, Small(header, names), NEW ek, ek = OwnInfo(e, 1).encryptedKey
    PROVE  HasRecipients(<<[header |-> header, encryptedKey |-> ek]>>, e, names)
<1> DEFINE x == [header |-> header, encryptedKey |-> ek]
<1>1. x.header = header /\ x.encryptedKey = ek
  OBVIOUS
<1>2. IsSeq(<<x>>) /\ DOMAIN <<x>> = {1} /\ <<x>>[1] = x
  BY ShortSeqs
<1> HIDE DEF x
<1>3. \A i \in DOMAIN <<x>> : <<x>>[i].encryptedKey = OwnInfo(e, i).encryptedKey
  BY <1>1, <1>2
<1>4. Small(<<x>>[1].header, names)
  BY Zenon, <1>1, <1>2
<1> QED
  BY Zenon, <1>2, <1>3, <1>4 DEF HasRecipients, x

\* Both serializations carry what the object holds.
LEMMA SerializeCarries ==
    ASSUME NEW e, IsSeq(e.recipients), e.recipients # <<>>, NEW parts, NEW names,
           NEW o, ObjFrom(o, e, parts, names)
    PROVE  /\ CompactOK(o) => MsgFrom(CompactSerialize(o), e, parts, names)
           /\ MsgFrom(FullSerialize(o), e, parts, names)
           /\ FullSerialize(o).aad = o.aad /\ CompactSerialize(o).aad = NilBytes
<1> DEFINE P == OwnProtected(e)
           r == o.recipients[1]
<1>1. /\ o.protected = <<P>> /\ o.parts = parts
      /\ Small(o.unprotected, names) /\ HasRecipients(o.recipients, e, names)
  BY Zenon DEF ObjFrom
<1>2. /\ IsSeq(o.recipients) /\ DOMAIN o.recipients = DOMAIN e.recipients
      /\ \A i \in DOMAIN o.recipients : o.recipients[i].encryptedKey = OwnInfo(e, i).encryptedKey
      /\ DOMAIN e.recipients = {1} => Small(r.header, names)
  BY Zenon, <1>1 DEF HasRecipients
<1>3. /\ 1 \in DOMAIN o.recipients /\ o.recipients # <<>> /\ Len(o.recipients) \in Nat
      /\ Len(o.recipients) = 1 <=> DOMAIN e.recipients = {1}
      /\ Len(o.recipients) # 0
  <2> DEFINE rs == o.recipients
  <2>1. 1 \in DOMAIN e.recipients
    BY Indices
  <2> HIDE DEF rs
  <2>2. IsSeq(rs) /\ 1 \in DOMAIN rs
    BY Zenon, <1>2, <2>1 DEF rs
  <2>3. Len(rs) \in Nat /\ DOMAIN rs = 1..Len(rs) /\ (rs = <<>> <=> DOMAIN rs = {})
    BY <2>2, Indices
  <2>4. Len(rs) = 1 <=> DOMAIN rs = {1}
    BY Zenon, <2>2, OneIndex
  <2>5. Len(rs) # 0 /\ rs # <<>>
    BY <2>2, <2>3
  <2> QED
    BY Zenon, <1>2, <2>2, <2>3, <2>4, <2>5 DEF rs
<1>4. BytesOf(o.protected) = Canonical(P)
  BY <1>1 DEF BytesOf, NoHeader
<1>5. Small(NoHeader, names)
  BY DEF Small
<1>6. r.encryptedKey = OwnInfo(e, 1).encryptedKey
  BY Zenon, <1>2, <1>3
<1>7. ASSUME CompactOK(o) PROVE MsgFrom(CompactSerialize(o), e, parts, names)
  <2> DEFINE m == CompactSerialize(o)
  <2>1. /\ m.form # "broken" /\ m.protected = BytesOf(o.protected) /\ m.unprotected = NoHeader
        /\ m.header = NoHeader /\ m.recipients = <<>> /\ m.encryptedKey = r.encryptedKey
        /\ m.parts = o.parts
    BY DEF CompactSerialize
  <2>2. DOMAIN e.recipients = {1}
    BY <1>3, <1>7 DEF CompactOK
  <2> HIDE DEF m
  <2>3. RawRecipients(m) = <<[header |-> NoHeader, encryptedKey |-> r.encryptedKey]>>
    BY Zenon, <2>1 DEF RawRecipients
  <2>4. HasRecipients(RawRecipients(m), e, names)
    BY Zenon, <1>5, <1>6, <2>2, <2>3, OneHas
  <2> QED
    BY Zenon, <1>1, <1>4, <1>5, <2>1, <2>2, <2>4 DEF MsgFrom, m
<1>8. MsgFrom(FullSerialize(o), e, parts, names)
  <2> DEFINE m == FullSerialize(o)
             many == Len(o.recipients) > 1
  <2>1. /\ m.form # "broken" /\ m.protected = BytesOf(o.protected) /\ m.unprotected = o.unprotected
        /\ m.header = (IF many THEN NoHeader ELSE r.header)
        /\ m.recipients = (IF many THEN o.recipients ELSE <<>>)
        /\ m.encryptedKey = r.encryptedKey /\ m.parts = o.parts
    BY DEF FullSerialize
  <2>2. many <=> DOMAIN e.recipients # {1}
    <3>1. \A n \in Nat : n # 0 => (n > 1 <=> n # 1)
      OBVIOUS
    <3> QED
      BY Zenon, <1>3, <3>1
  <2> HIDE DEF m, many
  <2>3. CASE many
    <3>1. m.header = NoHeader /\ m.recipients = o.recipients
      BY Zenon, <2>1, <2>3
    <3>2. RawRecipients(m) = o.recipients
      BY Zenon, <1>3, <3>1 DEF RawRecipients
    <3> QED
      BY Zenon, <1>1, <1>3, <1>4, <1>5, <2>1, <2>2, <2>3, <3>1, <3>2 DEF MsgFrom, m
  <2>4. CASE ~many
    <3>1. m.header = r.header /\ m.recipients = <<>>
      BY Zenon, <2>1, <2>4
    <3>2. RawRecipients(m) = <<[header |-> r.header, encryptedKey |-> r.encryptedKey]>>
      BY Zenon, <2>1, <3>1 DEF RawRecipients
    <3>3. HasRecipients(RawRecipients(m), e, names)
      <4> HIDE DEF r
      <4> QED
        BY SMTT(20), <1>2, <1>6, <2>2, <2>4, <3>2, OneHas
    <3> QED
      BY Zenon, <1>1, <1>2, <1>4, <2>1, <2>2, <2>4, <3>1, <3>3 DEF MsgFrom, m
  <2> QED
    BY Zenon, <2>3, <2>4
<1>9. FullSerialize(o).aad = o.aad /\ CompactSerialize(o).aad = NilBytes
  BY DEF FullSerialize, CompactSerialize
<1> QED
  BY Zenon, <1>7, <1>8, <1>9

\* The parser finds what the message carries.
LEMMA ParseCarries ==
    ASSUME NEW e, NEW parts, NEW names, NEW m, MsgFrom(m, e, parts, names)
    PROVE  ObjFrom(Parse(m), e, parts, names)
<1> DEFINE o == Parse(m)
           P == OwnProtected(e)
<1>1. /\ o.protected = HeaderPtr(m.protected) /\ o.unprotected = m.unprotected
      /\ o.recipients = RawRecipients(m) /\ o.original = m.protected /\ o.parts = m.parts
  BY Zenon DEF Parse
<1>2. HeaderPtr(Canonical(P)) = <<P>>
  BY DEF HeaderPtr, Canonical, Kind
<1> HIDE DEF o
<1> QED
  BY Zenon, <1>1, <1>2 DEF MsgFrom, ObjFrom, o

LEMMA ParsedHeader ==
    ASSUME NEW m
    PROVE  Parse(m).Header = Sanitized(GlobalHeaders(Parse(m))) /\ Parse(m).aad = ParsedAad(m)
<1> DEFINE hs == [protected |-> HeaderPtr(m.protected), unprotected |-> m.unprotected]
<1>1. /\ Parse(m).Header = Sanitized(GlobalHeaders(hs)) /\ Parse(m).aad = ParsedAad(m)
      /\ Parse(m).protected = hs.protected /\ Parse(m).unprotected = hs.unprotected
  BY Zenon DEF Parse
<1>2. GlobalHeaders(Parse(m)) = GlobalHeaders(hs)
  <2> HIDE DEF hs
  <2> QED
    BY Zenon, <1>1 DEF GlobalHeaders
<1> QED
  BY Zenon, <1>1, <1>2

\* Room for more names.
LEMMA MoreNames ==
    ASSUME NEW names, NEW more, names \subseteq more
    PROVE  /\ \A ptr : Small(ptr, names) => Small(ptr, more)
           /\ \A rs, e : HasRecipients(rs, e, names) => HasRecipients(rs, e, more)
<1>1. \A ptr : Small(ptr, names) => Small(ptr, more)
  BY Zenon DEF Small
<1> QED
  BY Zenon, <1>1 DEF HasRecipients

\* An added header leaves the protected one and the encrypted keys alone.
LEMMA AddedCarries ==
    ASSUME NEW e, NEW parts, NEW names, NEW m, IsMsg(m), MsgFrom(m, e, parts, names),
           NEW h, SanitizeOK(h)
    PROVE  /\ MsgFrom([m EXCEPT !.unprotected = <<h>>], e, parts, names \cup DOMAIN h)
           /\ MsgFrom([m EXCEPT !.header = <<h>>], e, parts, names \cup DOMAIN h)
<1> DEFINE more == names \cup DOMAIN h
<1>1. /\ m.form # "broken" /\ m.protected = Canonical(OwnProtected(e)) /\ m.parts = parts
      /\ Small(m.unprotected, names) /\ Small(m.header, names)
      /\ (m.recipients = <<>> <=> DOMAIN e.recipients = {1})
      /\ HasRecipients(RawRecipients(m), e, names)
  BY Zenon DEF MsgFrom
<1>2. Small(<<h>>, more)
  <2>1. <<h>>[1] = h
    OBVIOUS
  <2> QED
    BY Zenon, <2>1 DEF Small
<1>3. /\ \A ptr : Small(ptr, names) => Small(ptr, more)
      /\ \A rs : HasRecipients(rs, e, names) => HasRecipients(rs, e, more)
  <2>1. names \subseteq more
    OBVIOUS
  <2> HIDE DEF more
  <2> QED
    BY Zenon, <2>1, MoreNames
<1>4. MsgFrom([m EXCEPT !.unprotected = <<h>>], e, parts, more)
  <2> DEFINE n == [m EXCEPT !.unprotected = <<h>>]
  <2>1. /\ n.form = m.form /\ n.protected = m.protected /\ n.parts = m.parts /\ n.header = m.header
        /\ n.recipients = m.recipients /\ n.encryptedKey = m.encryptedKey /\ n.unprotected = <<h>>
    BY DEF IsMsg
  <2> HIDE DEF n, more
  <2>2. RawRecipients(n) = RawRecipients(m)
    BY Zenon, <2>1 DEF RawRecipients
  <2> QED
    BY Zenon, <1>1, <1>2, <1>3, <2>1, <2>2 DEF MsgFrom, n
<1>5. MsgFrom([m EXCEPT !.header = <<h>>], e, parts, more)
  <2> DEFINE n == [m EXCEPT !.header = <<h>>]
  <2>1. /\ n.form = m.form /\ n.protected = m.protected /\ n.parts = m.parts /\ n.header = <<h>>
        /\ n.recipients = m.recipients /\ n.encryptedKey = m.encryptedKey /\ n.unprotected = m.unprotected
    BY DEF IsMsg
  <2> HIDE DEF n, more
  <2>2. HasRecipients(RawRecipients(n), e, more)
    <3>1. CASE m.recipients # <<>>
      <4>1. RawRecipients(n) = RawRecipients(m)
        BY Zenon, <2>1, <3>1 DEF RawRecipients
      <4> QED
        BY Zenon, <1>1, <1>3, <4>1
    <3>2. CASE m.recipients = <<>>
      <4> DEFINE x == [header |-> m.header, encryptedKey |-> m.encryptedKey]
      <4>1. RawRecipients(m) = <<x>> /\ RawRecipients(n) = <<[header |-> <<h>>, encryptedKey |-> m.encryptedKey]>>
        BY Zenon, <2>1, <3>2 DEF RawRecipients
      <4>2. DOMAIN e.recipients = {1}
        BY Zenon, <1>1, <3>2
      <4>3. m.encryptedKey = OwnInfo(e, 1).encryptedKey
        <5>1. x.encryptedKey = m.encryptedKey
          OBVIOUS
        <5> HIDE DEF x
        <5>2. DOMAIN <<x>> = {1} /\ <<x>>[1] = x
          OBVIOUS
        <5>3. 1 \in DOMAIN <<x>>
          BY <5>2
        <5>4. <<x>>[1].encryptedKey = OwnInfo(e, 1).encryptedKey
          BY Zenon, <1>1, <4>1, <5>3 DEF HasRecipients
        <5> QED
          BY Zenon, <5>1, <5>2, <5>4
      <4> QED
        BY Zenon, <1>2, <4>1, <4>2, <4>3, OneHas
    <3> QED
      BY Zenon, <3>1, <3>2
  <2> QED
    BY Zenon, <1>1, <1>2, <1>3, <2>1, <2>2 DEF MsgFrom, n
<1> QED
  BY Zenon, <1>4, <1>5

\* A non-empty string of the protected header is what the joined headers say.
LEMMA ProtectedString ==
    ASSUME NEW o, NEW P, o.protected = <<P>>, NEW r, NEW k, GetString(P, k) # EmptyBytes
    PROVE  /\ GetString(GlobalHeaders(o), k) = GetString(P, k)
           /\ GetString(RecipientHeaders(o, r), k) = GetString(P, k)
<1>1. MergePtr(EmptyHeader, o.protected) = Merge(EmptyHeader, P)
  BY Zenon, MergeHeader
<1>2. DOMAIN EmptyHeader = {} /\ ~IsSet(EmptyHeader, k)
  BY Zenon DEF EmptyHeader, IsSet, Present
<1>3. Agree(Merge(EmptyHeader, P), P, k)
  BY Zenon, <1>2 DEF Agree, Merge
<1>4. GetString(Merge(EmptyHeader, P), k) = GetString(P, k)
  BY Zenon, <1>3, AgreeReads
<1>5. GetString(GlobalHeaders(o), k) = GetString(P, k)
  BY ZenonT(30), <1>1, <1>4, StringSurvives DEF GlobalHeaders, EmptyBytes
<1> QED
  BY Zenon, <1>5, StringSurvives DEF RecipientHeaders, EmptyBytes

\* An only recipient is found in a JWK Set by its kid.
LEMMA OwnFound ==
    ASSUME NEW e, NEW conf, Encrypts(e, conf), DOMAIN conf.recipients = {1},
           "kid" \notin DOMAIN e.extra, KeyIDOf(conf.recipients[1]) # EmptyBytes,
           NEW parts, NEW names, NEW o, ObjFrom(o, e, parts, names),
           o.Header = Sanitized(GlobalHeaders(o)), NEW vk, Kind(vk) = "jwks"
    PROVE  LET entries == KeysOf(Value(vk), KeyIDOf(conf.recipients[1]))
           IN  entries # <<>> => TryJWKS(vk, o.Header) = <<entries[1].key>>
<1> DEFINE P == OwnProtected(e)
           R == OwnHeader(e, 1)
           C == Common(e)
           id == KeyIDOf(conf.recipients[1])
<1>1. /\ IsSeq(e.recipients) /\ DOMAIN e.recipients = {1} /\ Encryptable(e.recipients[1])
      /\ e.recipients[1] = KeyInfo(conf.recipients[1])
  BY Zenon DEF Encrypts, MadeOf, Ready
<1>k. \A x : KeyInfo(x).keyID = KeyIDOf(x)
  BY Zenon DEF KeyInfo
<1>2. "kid" \in DOMAIN R /\ R["kid"] = Str(id)
  <2>1. e.recipients[1].keyID = id
    BY Zenon, <1>1, <1>k
  <2> HIDE DEF id
  <2>2. id # ""
    BY Zenon DEF id, EmptyBytes
  <2> QED
    BY Zenon, <1>1, <2>1, <2>2, OwnKid
<1>3. Agree(P, Merge(C, R), "kid")
  BY Zenon, <1>1, ProtectedAgrees
<1>4. "kid" \notin DOMAIN C
  BY CommonIs
<1> HIDE DEF P, R, C
<1>5. Agree(P, Override(C, R), "kid")
  BY Zenon, <1>3, <1>4, AgreeDisjoint, AgreeTrans
<1>6. "kid" \in DOMAIN Override(C, R) /\ Override(C, R)["kid"] = Str(id)
  BY Zenon, <1>2 DEF Override
<1>s. \A s : Kind(Str(s)) = "str" /\ Value(Str(s)) = s
  BY DEF Str, Kind, Value
<1>7. GetString(Override(C, R), "kid") = id
  BY Zenon, <1>6, <1>s DEF GetString
<1>8. GetString(P, "kid") = id
  BY Zenon, <1>5, <1>7, AgreeReads
<1>9. o.protected = <<P>>
  BY Zenon DEF ObjFrom, P
<1>10. GetString(GlobalHeaders(o), "kid") = id
  BY Zenon, <1>8, <1>9, ProtectedString
<1>11. o.Header.kid = id
  <2>1. \A h : Sanitized(h).kid = GetString(h, "kid")
    BY Zenon DEF Sanitized
  <2> QED
    BY Zenon, <1>10, <2>1
<1>12. Kind(vk) # "key"
  OBVIOUS
<1> HIDE DEF id
<1> QED
  BY Zenon, <1>11, <1>12 DEF TryJWKS, id, EmptyBytes

\* The algorithms that the parser reads are the ones that Encrypt used.
LEMMA OwnNames ==
    ASSUME NEW e, NEW conf, Encrypts(e, conf), NEW parts, NEW names, Plainly(e, names),
           NEW o, ObjFrom(o, e, parts, names), NEW i \in DOMAIN conf.recipients
    PROVE  /\ GetString(RecipientHeaders(o, o.recipients[i]), "enc") = conf.enc
           /\ GetString(RecipientHeaders(o, o.recipients[i]), "alg") = conf.recipients[i].alg
           /\ SanitizeOK(GlobalHeaders(o))
BY OwnReads

\* What the parser reads in the protected header is what it reads in the joined ones.
LEMMA ProtectedListed ==
    ASSUME NEW o, NEW P, o.protected = <<P>>, NEW r, NEW algs, NEW encs,
           GetString(RecipientHeaders(o, r), "alg") \in algs,
           GetString(RecipientHeaders(o, r), "enc") \in encs
    PROVE  ValidateAlgEnc(P, algs, encs)
<1>1. /\ GetString(P, "alg") # EmptyBytes => GetString(RecipientHeaders(o, r), "alg") = GetString(P, "alg")
      /\ GetString(P, "enc") # EmptyBytes => GetString(RecipientHeaders(o, r), "enc") = GetString(P, "enc")
  BY ProtectedString
<1> QED
  BY Zenon, <1>1 DEF ValidateAlgEnc, Listed, EmptyBytes

\* The parser takes a message of Encrypt when its algorithms are listed.
LEMMA OwnAccepted ==
    ASSUME NEW e, NEW conf, Encrypts(e, conf), NEW parts, NEW names, Plainly(e, names),
           "nonce" \notin names, NEW m, MsgFrom(m, e, parts, names),
           NEW algs, NEW encs, conf.enc \in encs,
           \A i \in DOMAIN conf.recipients : conf.recipients[i].alg \in algs,
           EmptyBytes \notin algs \cup encs
    PROVE  SanitizedOK(m, algs, encs)
<1> DEFINE P == OwnProtected(e)
<1>o. PICK o : o = Parse(m)
  BY Zenon
<1>1. /\ IsSeq(e.recipients) /\ e.recipients # <<>> /\ DOMAIN e.recipients = DOMAIN conf.recipients
      /\ \A i \in DOMAIN e.recipients : Encryptable(e.recipients[i])
  BY Zenon DEF Encrypts, MadeOf, Ready
<1>2. ObjFrom(o, e, parts, names)
  BY Zenon, <1>o, ParseCarries
<1>3. /\ m.form # "broken" /\ m.protected = Canonical(P)
      /\ Small(m.unprotected, names) /\ Small(m.header, names)
      /\ (m.recipients = <<>> <=> DOMAIN e.recipients = {1})
      /\ HasRecipients(RawRecipients(m), e, names)
  BY Zenon DEF MsgFrom
<1>4. o.protected = <<P>> /\ o.unprotected = m.unprotected /\ HasRecipients(o.recipients, e, names)
  BY Zenon, <1>o, <1>2 DEF ObjFrom, Parse
<1>5. 1 \in DOMAIN conf.recipients /\ DOMAIN o.recipients = DOMAIN conf.recipients
  <2>1. 1 \in DOMAIN e.recipients
    BY Zenon, <1>1, Indices
  <2> QED
    BY Zenon, <1>1, <1>4, <2>1 DEF HasRecipients
<1>6. \A i \in DOMAIN conf.recipients :
         LET h == RecipientHeaders(o, o.recipients[i])
         IN  GetString(h, "enc") = conf.enc /\ GetString(h, "alg") = conf.recipients[i].alg
             /\ SanitizeOK(GlobalHeaders(o))
  BY <1>2, OwnNames
<1>7. SanitizeOK(GlobalHeaders(o))
  BY Zenon, <1>5, <1>6
<1>8. \A i \in DOMAIN o.recipients : RecipientOK(o, i, algs, encs)
  <2>1. \A x : x \in algs \/ x \in encs => x # ""
    BY Zenon DEF EmptyBytes
  <2> QED
    BY Zenon, <1>5, <1>6, <2>1 DEF RecipientOK, ValidateAlgEnc, Listed
<1>9. algs # {} /\ encs # {}
  BY Zenon, <1>5
<1>10. \A ptr : Small(ptr, names) => NoNonce(ptr)
  BY Zenon DEF Small, NoNonce, GetString
<1>11. \A i \in DOMAIN m.recipients : NoNonce(m.recipients[i].header)
  <2> SUFFICES ASSUME NEW i \in DOMAIN m.recipients PROVE NoNonce(m.recipients[i].header)
    BY Zenon
  <2>1. m.recipients # <<>>
    BY ShortSeqs
  <2>2. RawRecipients(m) = m.recipients /\ DOMAIN e.recipients # {1}
    BY Zenon, <1>3, <2>1 DEF RawRecipients
  <2>3. i \in DOMAIN e.recipients /\ m.recipients[i].header = <<OwnHeader(e, i)>>
    BY Zenon, <1>3, <2>2 DEF HasRecipients
  <2>4. "nonce" \notin DOMAIN OwnHeader(e, i)
    BY <1>1, <2>3, OwnHeaderDomain
  <2>5. <<OwnHeader(e, i)>>[1] = OwnHeader(e, i)
    OBVIOUS
  <2> QED
    BY Zenon, <2>3, <2>4, <2>5 DEF NoNonce, GetString
<1>12. UnprotectedOK(m)
  BY Zenon, <1>3, <1>10, <1>11 DEF UnprotectedOK
<1>13. Kind(m.protected) # "junk"
  BY <1>3 DEF Kind, Canonical
<1>14. ValidateAlgEnc(o.protected[1], algs, encs)
  <2>1. o.protected[1] = P
    BY <1>4
  <2>2. o.protected = <<P>>
    BY Zenon, <1>4
  <2>3. /\ GetString(RecipientHeaders(o, o.recipients[1]), "enc") \in encs
        /\ GetString(RecipientHeaders(o, o.recipients[1]), "alg") \in algs
    BY Zenon, <1>5, <1>6
  <2> HIDE DEF P
  <2> QED
    BY Zenon, <2>1, <2>2, <2>3, ProtectedListed
<1>15. o.unprotected # NoHeader => ValidateAlgEnc(o.unprotected[1], algs, encs)
  <2>1. "alg" \notin names /\ "enc" \notin names
    BY DEF Plainly, ReadByDecrypt
  <2> QED
    BY Zenon, <1>3, <1>4, <2>1 DEF Small, ValidateAlgEnc, Listed, GetString
<1> QED
  BY Zenon, <1>o, <1>3, <1>7, <1>8, <1>9, <1>12, <1>13, <1>14, <1>15 DEF SanitizedOK

(***************************************************************************)
(* Every state: what origin promises about the message.                    *)
(***************************************************************************)
IsOrigin(o) ==
    o = [from |-> o.from, conf |-> o.conf, plain |-> o.plain, aad |-> o.aad,
         touched |-> o.touched, added |-> o.added]

\* The history: where the message comes from, and the encrypter it was made with.
HistoryInv ==
    /\ at # "start" => IsOrigin(origin[1])
    /\ at \in {"start", "ready", "failed", "crashed"} => made = <<>>
    /\ at = "encrypted" => origin[1].from = "encrypt"
    /\ at = "ready" => /\ origin[1].from = "encrypt" /\ origin[1].added = {} /\ Ready(encrypter)
                       /\ origin[1].conf \in EncrypterConf
                       /\ encrypter.recipients # <<>> => MadeOf(encrypter, origin[1].conf)
    /\ MadeBy("encrypt") => /\ Encrypts(encrypter, origin[1].conf)
                            /\ origin[1].plain = PlainOf(origin[1].plain[2])

Own == OwnParts(encrypter, origin[1].plain[2], origin[1].aad)

\* What Encrypt made is on the wire and in the object until it is damaged.
CarriedInv ==
    Intact("encrypt") =>
        /\ at = "wire" => MsgFrom(msg, encrypter, Own, origin[1].added)
        /\ at \in {"encrypted", "parsed"} => ObjFrom(obj, encrypter, Own, origin[1].added)

\* The aad, which the compact form leaves out and the parser may lose.
Travels(o) == o.aad = NilBytes \/ (o.aad # EmptyBytes /\ "compact" \notin o.touched)

AadInv ==
    Intact("encrypt") =>
        /\ at = "wire" /\ Travels(origin[1]) => msg.aad = origin[1].aad
        /\ at \in {"encrypted", "parsed"} /\ AadKept(origin[1]) => obj.aad = origin[1].aad

HeaderInv == at = "parsed" => obj.Header = Sanitized(GlobalHeaders(obj))

RefusedInv ==
    Intact("encrypt") /\ Sound(origin[1]) /\ at = "refused" /\ "nonce" \notin origin[1].added =>
        LET conf == origin[1].conf
        IN  \/ conf.enc \notin allow.encs
            \/ \E i \in DOMAIN conf.recipients : conf.recipients[i].alg \notin allow.algs

\* A foreign message nobody touched is on the wire, or what the parser made of it.
UntouchedInv ==
    MadeBy("foreign") =>
        /\ origin[1].conf \in Foreign /\ origin[1].plain = PlainOf(origin[1].conf.plain)
        /\ origin[1].touched = {} =>
              /\ at = "wire" => msg = ForeignMsg(origin[1].conf)
              /\ at = "parsed" => obj = Parse(ForeignMsg(origin[1].conf))

LifeInv == Shape /\ HistoryInv /\ CarriedInv /\ AadInv /\ HeaderInv /\ RefusedInv /\ UntouchedInv

Rest == HistoryInv /\ CarriedInv /\ AadInv /\ HeaderInv /\ RefusedInv /\ UntouchedInv

\* What a step on the way may do to the history.
Later(o, t) ==
    /\ IsOrigin(t)
    /\ t.from = o.from /\ t.conf = o.conf /\ t.plain = o.plain /\ t.aad = o.aad
    /\ o.touched \subseteq t.touched /\ o.added \subseteq t.added

Touches(o, t, how, names) ==
    Later(o, t) /\ t.touched = o.touched \cup how /\ t.added = o.added \cup names

Touched(o, how, names) == [o EXCEPT !.touched = @ \cup how, !.added = @ \cup names]

LEMMA TouchKeeps ==
    ASSUME NEW o, IsOrigin(o), NEW how, NEW names
    PROVE  Touches(o, Touched(o, how, names), how, names)
<1>t. PICK t : t = Touched(o, how, names)
  BY Zenon
<1>1. /\ t.from = o.from /\ t.conf = o.conf /\ t.plain = o.plain /\ t.aad = o.aad
      /\ t.touched = o.touched \cup how /\ t.added = o.added \cup names /\ IsOrigin(t)
  BY Zenon, <1>t DEF IsOrigin, Touched
<1>2. Later(o, t)
  BY <1>1 DEF Later
<1> QED
  BY Zenon, <1>t, <1>1, <1>2 DEF Touches

\* What stays when a message is only touched.
LEMMA LaterKeeps ==
    ASSUME HistoryInv, at # "start", Later(origin[1], origin'[1]), made' = made, encrypter' = encrypter,
           at \notin {"ready", "failed", "crashed"}, at' \in {"wire", "parsed", "refused"}
    PROVE  /\ HistoryInv'
           /\ \A who : MadeBy(who)' = MadeBy(who)
           /\ Intact("encrypt")' => Intact("encrypt") /\ Own' = Own
           /\ Travels(origin'[1]) => Travels(origin[1])
<1>1. \A who : MadeBy(who)' = MadeBy(who)
  BY Zenon DEF MadeBy, Later
<1>2. Intact("encrypt")' => Intact("encrypt")
  BY Zenon, <1>1 DEF Intact, Later
<1>3. Own' = Own
  BY Zenon DEF Own, Later
<1>4. Travels(origin'[1]) => Travels(origin[1])
  BY Zenon DEF Travels, Later
<1>5. HistoryInv'
  <2>1. at' \notin {"start", "ready", "failed", "crashed", "encrypted"}
    OBVIOUS
  <2>2. MadeBy("encrypt")' => /\ Encrypts(encrypter, origin[1].conf)' /\ origin'[1].plain = PlainOf(origin'[1].plain[2])
    <3>1. MadeBy("encrypt") => Encrypts(encrypter, origin[1].conf) /\ origin[1].plain = PlainOf(origin[1].plain[2])
      BY Zenon DEF HistoryInv
    <3> QED
      BY Zenon, <1>1, <3>1 DEF Later
  <2> QED
    BY Zenon, <2>1, <2>2 DEF HistoryInv, Later
<1> QED
  BY Zenon, <1>1, <1>2, <1>3, <1>4, <1>5

\* Serializing.
LEMMA SendStep ==
    ASSUME LifeInv, NEW m, NEW how, Send(m, how),
           \A e, parts, names : IsSeq(e.recipients) /\ e.recipients # <<>> /\ ObjFrom(obj, e, parts, names) =>
               MsgFrom(m, e, parts, names),
           m.aad = obj.aad \/ ("compact" \in how /\ m.aad = NilBytes)
    PROVE  Rest'
<1> DEFINE all == how \cup IF at = "parsed" THEN {"resent"} ELSE {}
<1>1. /\ at \in {"encrypted", "parsed"} /\ at' = "wire" /\ msg' = m
      /\ origin' = <<Touched(origin[1], all, {})>>
      /\ made' = made /\ encrypter' = encrypter
  BY Zenon DEF Send, Touch, Touched
<1>i. HistoryInv /\ CarriedInv /\ AadInv /\ UntouchedInv /\ IsOrigin(origin[1]) /\ at # "start"
  BY Zenon, <1>1 DEF LifeInv, HistoryInv
<1>2. /\ Later(origin[1], origin'[1])
      /\ origin'[1].touched = origin[1].touched \cup all /\ origin'[1].added = origin[1].added \cup {}
  <2>1. origin'[1] = Touched(origin[1], all, {})
    BY Zenon, <1>1
  <2> HIDE DEF all
  <2>2. Touches(origin[1], origin'[1], all, {})
    BY Zenon, <1>i, <2>1, TouchKeeps
  <2> QED
    BY Zenon, <2>2 DEF Touches
<1>3. /\ HistoryInv' /\ \A who : MadeBy(who)' = MadeBy(who)
      /\ Intact("encrypt")' => Intact("encrypt") /\ Own' = Own
      /\ Travels(origin'[1]) => Travels(origin[1])
  BY Zenon, <1>1, <1>2, <1>i, LaterKeeps
<1>4. ASSUME Intact("encrypt")' PROVE MsgFrom(m, encrypter, Own, origin'[1].added)
  <2>1. ObjFrom(obj, encrypter, Own, origin[1].added)
    BY Zenon, <1>1, <1>3, <1>4, <1>i DEF CarriedInv
  <2>2. IsSeq(encrypter.recipients) /\ encrypter.recipients # <<>>
    BY Zenon, <1>3, <1>4, <1>i DEF Intact, HistoryInv, Encrypts
  <2>3. origin'[1].added = origin[1].added
    BY <1>2
  <2> QED
    BY Zenon, <2>1, <2>2, <2>3
<1>5. ASSUME Intact("encrypt")', Travels(origin'[1]) PROVE m.aad = origin'[1].aad
  <2>1. AadKept(origin[1]) /\ origin'[1].aad = origin[1].aad
    BY Zenon, <1>2, <1>3, <1>5 DEF AadKept, Travels, Later
  <2>2. obj.aad = origin[1].aad
    BY Zenon, <1>1, <1>3, <1>5, <1>i, <2>1 DEF AadInv
  <2>3. "compact" \in how => origin'[1].aad = NilBytes
    BY Zenon, <1>2, <1>5 DEF Travels
  <2> QED
    BY Zenon, <2>1, <2>2, <2>3
<1>6. UntouchedInv'
  <2> SUFFICES ASSUME MadeBy("foreign") PROVE UntouchedInv'
    BY Zenon, <1>3 DEF UntouchedInv
  <2>1. at = "parsed"
    BY Zenon, <1>1, <1>i DEF HistoryInv, MadeBy
  <2>2. origin'[1].touched # {}
    BY Zenon, <1>2, <2>1
  <2> QED
    BY Zenon, <1>2, <1>i, <2>2 DEF UntouchedInv, Later
<1>7. at' # "parsed" /\ at' # "refused" /\ at' \notin {"encrypted", "parsed"}
  BY <1>1
<1> QED
  BY Zenon, <1>1, <1>3, <1>4, <1>5, <1>6, <1>7 DEF Rest, CarriedInv, AadInv, HeaderInv, RefusedInv

\* Damage ends what is promised; an added header leaves it alone.
LEMMA TransitStep ==
    ASSUME LifeInv, NEW m, NEW how \in {{"header"}, {"damage"}}, NEW names, InTransit(m, how, names),
           how = {"header"} =>
               /\ m.aad = msg.aad
               /\ \A e, parts, some : MsgFrom(msg, e, parts, some) => MsgFrom(m, e, parts, some \cup names)
    PROVE  Rest'
<1>1. /\ at = "wire" /\ at' = "wire" /\ msg' = m /\ origin' = <<Touched(origin[1], how, names)>>
      /\ made' = made /\ encrypter' = encrypter
  BY Zenon DEF InTransit, Touch, Touched
<1>i. HistoryInv /\ CarriedInv /\ AadInv /\ UntouchedInv /\ IsOrigin(origin[1]) /\ at # "start"
  BY Zenon, <1>1 DEF LifeInv, HistoryInv
<1>2. /\ Later(origin[1], origin'[1])
      /\ origin'[1].touched = origin[1].touched \cup how /\ origin'[1].added = origin[1].added \cup names
  <2>1. origin'[1] = Touched(origin[1], how, names)
    BY <1>1
  <2>2. Touches(origin[1], origin'[1], how, names)
    BY Zenon, <1>i, <2>1, TouchKeeps
  <2> QED
    BY Zenon, <2>2 DEF Touches
<1>3. /\ HistoryInv' /\ \A who : MadeBy(who)' = MadeBy(who)
      /\ Intact("encrypt")' => Intact("encrypt") /\ Own' = Own
      /\ Travels(origin'[1]) => Travels(origin[1])
  BY Zenon, <1>1, <1>2, <1>i, LaterKeeps
<1>h. Intact("encrypt")' => how = {"header"}
  BY Zenon, <1>2 DEF Intact
<1>4. ASSUME Intact("encrypt")' PROVE MsgFrom(m, encrypter, Own, origin'[1].added)
  <2>1. MsgFrom(msg, encrypter, Own, origin[1].added)
    BY Zenon, <1>1, <1>3, <1>4, <1>i DEF CarriedInv
  <2>2. MsgFrom(m, encrypter, Own, origin[1].added \cup names)
    BY Zenon, <1>4, <1>h, <2>1
  <2> QED
    BY Zenon, <1>2, <2>2
<1>5. ASSUME Intact("encrypt")', Travels(origin'[1]) PROVE m.aad = origin'[1].aad
  <2>1. msg.aad = origin[1].aad
    BY Zenon, <1>1, <1>3, <1>5, <1>i DEF AadInv
  <2> QED
    BY Zenon, <1>2, <1>5, <1>h, <2>1 DEF Later
<1>6. UntouchedInv'
  <2>1. origin'[1].touched # {}
    BY Zenon, <1>2
  <2> QED
    BY Zenon, <1>2, <1>3, <1>i, <2>1 DEF UntouchedInv, Later
<1>7. at' # "parsed" /\ at' # "refused" /\ at' \notin {"encrypted", "parsed"}
  BY <1>1
<1> QED
  BY Zenon, <1>1, <1>3, <1>4, <1>5, <1>6, <1>7 DEF Rest, CarriedInv, AadInv, HeaderInv, RefusedInv

\* Parsing: the object holds what was on the wire, and a message that Encrypt made
\* is refused only for its algorithms.
LEMMA ParseStep ==
    ASSUME LifeInv, NEW a \in AllowLists, ParseEncrypted(a)
    PROVE  Rest'
<1> DEFINE ok == SanitizedOK(msg, a.algs, a.encs)
<1>1. /\ at = "wire" /\ at' = (IF ok THEN "parsed" ELSE "refused")
      /\ obj' = (IF ok THEN Parse(msg) ELSE NoObj)
      /\ allow' = a /\ made' = made /\ encrypter' = encrypter /\ origin' = origin
  BY Zenon DEF ParseEncrypted
<1> HIDE DEF ok
<1>i. HistoryInv /\ CarriedInv /\ AadInv /\ UntouchedInv /\ IsOrigin(origin[1]) /\ at # "start"
  BY Zenon, <1>1 DEF LifeInv, HistoryInv
<1>a. at' \in {"parsed", "refused"} /\ (at' = "parsed" => ok) /\ (at' = "refused" => ~ok)
      /\ (at' = "parsed" => obj' = Parse(msg))
  BY Zenon, <1>1
<1>2. Later(origin[1], origin'[1])
  BY Zenon, <1>1, <1>i DEF Later
<1>3. /\ HistoryInv' /\ \A who : MadeBy(who)' = MadeBy(who)
      /\ Intact("encrypt")' => Intact("encrypt") /\ Own' = Own
  BY Zenon, <1>1, <1>2, <1>a, <1>i, LaterKeeps
<1>4. ASSUME Intact("encrypt")', at' = "parsed" PROVE ObjFrom(obj', encrypter, Own, origin[1].added)
  <2>1. MsgFrom(msg, encrypter, Own, origin[1].added)
    BY Zenon, <1>1, <1>3, <1>4, <1>i DEF CarriedInv
  <2> QED
    BY Zenon, <1>4, <1>a, <2>1, ParseCarries
<1>5. ASSUME Intact("encrypt")', at' = "parsed", AadKept(origin[1])' PROVE obj'.aad = origin[1].aad
  <2>1. Travels(origin[1])
    BY Zenon, <1>1, <1>5 DEF AadKept, Travels
  <2>2. msg.aad = origin[1].aad
    BY Zenon, <1>1, <1>3, <1>5, <1>i, <2>1 DEF AadInv
  <2>3. origin[1].aad # EmptyBytes
    BY Zenon, <2>1 DEF Travels, NilBytes, EmptyBytes
  <2> QED
    BY Zenon, <1>5, <1>a, <2>2, <2>3, ParsedHeader DEF ParsedAad
<1>6. HeaderInv'
  BY Zenon, <1>a, ParsedHeader DEF HeaderInv
<1>7. UntouchedInv'
  <2>1. at' # "wire"
    BY Zenon, <1>a
  <2> QED
    BY Zenon, <1>1, <1>3, <1>a, <1>i, <2>1 DEF UntouchedInv
<1>8. RefusedInv'
  <2> DEFINE conf == origin[1].conf
             names == origin[1].added
  <2> SUFFICES ASSUME Intact("encrypt")', Sound(origin[1]), at' = "refused", "nonce" \notin names,
                      conf.enc \in a.encs, \A i \in DOMAIN conf.recipients : conf.recipients[i].alg \in a.algs
               PROVE  FALSE
    BY Zenon, <1>1 DEF RefusedInv, Sound
  <2>1. Encrypts(encrypter, conf)
    BY Zenon, <1>3, <1>i DEF Intact, HistoryInv
  <2>2. MsgFrom(msg, encrypter, Own, names)
    BY Zenon, <1>1, <1>3, <1>i DEF CarriedInv
  <2>3. encrypter.extra = conf.extra
    BY Zenon, <2>1 DEF Encrypts, MadeOf
  <2>4. Plainly(encrypter, names)
    BY Zenon, <2>3 DEF Sound, Plainly
  <2>5. EmptyBytes \notin a.algs \cup a.encs
    BY Zenon, InputAssumption DEF EmptyBytes
  <2> HIDE DEF conf, names
  <2>6. SanitizedOK(msg, a.algs, a.encs)
    BY Zenon, <2>1, <2>2, <2>4, <2>5, OwnAccepted
  <2> QED
    BY Zenon, <1>a, <2>6 DEF ok
<1>9. at' # "wire" /\ at' # "encrypted"
  BY <1>a
<1> QED
  BY Zenon, <1>1, <1>3, <1>4, <1>5, <1>6, <1>7, <1>8, <1>9 DEF Rest, CarriedInv, AadInv

\* A foreign message.
LEMMA ForeignStep ==
    ASSUME LifeInv, NEW f \in Foreign, ForeignEncrypt(f)
    PROVE  Rest'
<1>1. /\ at = "start" /\ at' = "wire" /\ msg' = ForeignMsg(f)
      /\ origin' = <<[from |-> "foreign", conf |-> f, plain |-> Sealed("", f.plain), aad |-> f.aad,
                      touched |-> {}, added |-> {}]>>
  BY Zenon DEF ForeignEncrypt
<1>2. /\ origin'[1].from = "foreign" /\ origin'[1].conf = f /\ origin'[1].plain = PlainOf(f.plain)
      /\ IsOrigin(origin'[1])
  BY Zenon, <1>1 DEF IsOrigin, PlainOf
<1>3. ~MadeBy("encrypt")' /\ ~Intact("encrypt")'
  BY Zenon, <1>2 DEF MadeBy, Intact
<1>4. at' \notin {"start", "ready", "failed", "crashed", "encrypted", "parsed", "refused"}
  BY Zenon, <1>1
<1> QED
  BY Zenon, <1>1, <1>2, <1>3, <1>4
     DEF Rest, HistoryInv, CarriedInv, AadInv, HeaderInv, RefusedInv, UntouchedInv

\* The history when Encrypt is given a plaintext and an aad.
Given(o, plain, aad) == [o EXCEPT !.plain = plain, !.aad = aad]

Gives(o, t, plain, aad) ==
    /\ IsOrigin(t) /\ t.from = o.from /\ t.added = o.added /\ t.conf = o.conf
    /\ t.plain = plain /\ t.aad = aad

LEMMA GivenKeeps ==
    ASSUME NEW o, IsOrigin(o), NEW plain, NEW aad
    PROVE  Gives(o, Given(o, plain, aad), plain, aad)
<1>t. PICK t : t = Given(o, plain, aad)
  BY Zenon
<1>1. /\ IsOrigin(t) /\ t.from = o.from /\ t.added = o.added /\ t.conf = o.conf
      /\ t.plain = plain /\ t.aad = aad
  BY Zenon, <1>t DEF IsOrigin, Given
<1> QED
  BY Zenon, <1>t, <1>1 DEF Gives

\* An encrypter with recipients is made of its configuration.
LEMMA ConstructedOf ==
    ASSUME NEW conf, IsSeq(conf.recipients)
    PROVE  /\ Len(conf.recipients) = 1 /\ NewEncrypter(conf).recipients # <<>> =>
                 MadeOf(NewEncrypter(conf), conf)
           /\ NewMultiEncrypter(conf).recipients # <<>> => MadeOf(NewMultiEncrypter(conf), conf)
<1> DEFINE r == conf.recipients[1]
<1>e. \A gen, rs : LET e == Encrypter(conf, gen, rs)
                   IN  /\ e.enc = conf.enc /\ e.zip = conf.zip /\ e.extra = conf.extra
                       /\ e.gen = gen /\ e.recipients = rs
  BY Zenon DEF Encrypter
<1>1. ASSUME Len(conf.recipients) = 1, NewEncrypter(conf).recipients # <<>>
      PROVE  MadeOf(NewEncrypter(conf), conf)
  <2>1. NewEncrypterOK(conf)
    BY Zenon, <1>1, ErrorMeansEmpty
  <2>2. DOMAIN conf.recipients = {1}
    BY Zenon, <1>1, Indices
  <2> DEFINE gen == CASE r.alg = DIRECT -> "static" [] r.alg = "ECDH_ES" -> "ec" [] OTHER -> "random"
             e == NewEncrypter(conf)
  <2>3. e = Encrypter(conf, gen, <<KeyInfo(r)>>)
    BY <2>1 DEF NewEncrypter
  <2>4. /\ e.enc = conf.enc /\ e.zip = conf.zip /\ e.extra = conf.extra /\ e.gen = gen
        /\ e.recipients = <<KeyInfo(r)>>
    <3> HIDE DEF gen, e
    <3> QED
      BY Zenon, <1>e, <2>3
  <2>5. DOMAIN e.recipients = {1} /\ e.recipients[1] = KeyInfo(r)
    BY Zenon, <2>4, ShortSeqs
  <2>6. /\ conf.enc \in DOMAIN ContentEncryption
        /\ r.alg = DIRECT => r.key.type = "oct" /\ r.key.size = ContentEncryption[conf.enc]
        /\ r.alg = "ECDH_ES" => r.key.type = "ec"
        /\ r.alg # DIRECT /\ r.alg # "ECDH_ES" => AddRecipientOK(r)
    BY Zenon, <2>1 DEF NewEncrypterOK, DIRECT
  <2>7. /\ r.alg = DIRECT => gen = "static"
        /\ r.alg = "ECDH_ES" => gen = "ec"
        /\ r.alg # DIRECT /\ r.alg # "ECDH_ES" => gen = "random"
    BY DEF DIRECT
  <2> HIDE DEF e, gen
  <2>8. \/ /\ e.gen = "static" /\ DOMAIN e.recipients = {1}
           /\ r.alg = DIRECT /\ r.key.type = "oct" /\ r.key.size = ContentEncryption[conf.enc]
        \/ /\ e.gen = "ec" /\ DOMAIN e.recipients = {1}
           /\ r.alg = "ECDH_ES" /\ r.key.type = "ec"
        \/ e.gen = "random" /\ \A i \in DOMAIN conf.recipients : AddRecipientOK(conf.recipients[i])
    <3>1. AddRecipientOK(r) => \A i \in DOMAIN conf.recipients : AddRecipientOK(conf.recipients[i])
      BY Zenon, <2>2
    <3> QED
      BY Zenon, <2>4, <2>5, <2>6, <2>7, <3>1
  <2>9. \A i \in DOMAIN e.recipients : e.recipients[i] = KeyInfo(conf.recipients[i])
    BY <2>5
  <2> QED
    BY Zenon, <2>2, <2>4, <2>5, <2>6, <2>8, <2>9 DEF MadeOf, e
<1>2. ASSUME NewMultiEncrypter(conf).recipients # <<>>
      PROVE  MadeOf(NewMultiEncrypter(conf), conf)
  <2>1. NewMultiEncrypterOK(conf)
    BY Zenon, <1>2, ErrorMeansEmpty
  <2> DEFINE e == NewMultiEncrypter(conf)
             infos == [i \in DOMAIN conf.recipients |-> KeyInfo(conf.recipients[i])]
  <2>2. e = Encrypter(conf, "random", infos)
    BY Zenon, <2>1 DEF NewMultiEncrypter
  <2>3. /\ e.enc = conf.enc /\ e.zip = conf.zip /\ e.extra = conf.extra /\ e.gen = "random"
        /\ e.recipients = infos
    <3> HIDE DEF infos, e
    <3> QED
      BY Zenon, <1>e, <2>2
  <2>4. DOMAIN infos = DOMAIN conf.recipients /\ \A i \in DOMAIN infos : infos[i] = KeyInfo(conf.recipients[i])
    BY Zenon
  <2>5. conf.enc \in DOMAIN ContentEncryption /\ \A i \in DOMAIN conf.recipients : AddRecipientOK(conf.recipients[i])
    BY Zenon, <2>1 DEF NewMultiEncrypterOK
  <2> HIDE DEF e, infos
  <2> QED
    BY Zenon, <2>3, <2>4, <2>5 DEF MadeOf, e
<1> QED
  BY Zenon, <1>1, <1>2

\* A constructor.
LEMMA ConstructStep ==
    ASSUME LifeInv, NEW conf \in EncrypterConf, New(conf) \/ NewMulti(conf)
    PROVE  Rest'
<1>1. /\ at = "start" /\ at' \in {"ready", "failed"} /\ made' = made
      /\ origin' = <<[from |-> "encrypt", conf |-> conf, plain |-> <<>>, aad |-> NilBytes,
                      touched |-> {}, added |-> {}]>>
      /\ \/ encrypter' = NewEncrypter(conf) /\ Len(conf.recipients) = 1
         \/ encrypter' = NewMultiEncrypter(conf)
  BY Zenon DEF New, NewMulti, Construct
<1>2. made' = <<>>
  BY <1>1 DEF LifeInv, HistoryInv
<1>3. /\ IsOrigin(origin'[1]) /\ origin'[1].from = "encrypt" /\ origin'[1].added = {}
      /\ origin'[1].conf = conf
  BY Zenon, <1>1 DEF IsOrigin
<1>4. IsSeq(conf.recipients) /\ (conf.zip # "" => "zip" \notin DOMAIN conf.extra)
  BY Zenon, ProducerAssumption DEF IsSeq
<1>5. Ready(encrypter')
  BY Zenon, <1>1, <1>4, ConstructedIsReady
<1>6. encrypter'.recipients # <<>> => MadeOf(encrypter', conf)
  BY Zenon, <1>1, <1>4, ConstructedOf
<1>7. ~MadeBy("encrypt")' /\ ~MadeBy("foreign")' /\ ~Intact("encrypt")'
  BY Zenon, <1>2 DEF MadeBy, Intact
<1>8. at' # "encrypted" /\ at' # "parsed"
  BY Zenon, <1>1
<1> QED
  BY Zenon, <1>2, <1>3, <1>5, <1>6, <1>7, <1>8
     DEF Rest, HistoryInv, CarriedInv, AadInv, HeaderInv, RefusedInv, UntouchedInv

\* EncryptWithAuthData.
LEMMA EncryptStep ==
    ASSUME LifeInv, NEW p, NEW aad, NEW r, NEW k, Encrypt(p, aad, r, k)
    PROVE  Rest'
<1> DEFINE e == encrypter
<1>1. /\ at = "ready" /\ at' \in {"crashed", "encrypted", "failed"} /\ encrypter' = encrypter
      /\ at' = "encrypted" => e.recipients # <<>> /\ EncryptOK(e)
      /\ at' = "encrypted" => obj' = EncryptObject(e, p, aad)
      /\ at' # "encrypted" => made' = <<>>
      /\ origin' = <<Given(origin[1], PlainOf(p), aad)>>
  BY Zenon DEF Encrypt, Given, PlainOf
<1>i. /\ IsOrigin(origin[1]) /\ origin[1].from = "encrypt" /\ origin[1].added = {} /\ Ready(e)
      /\ origin[1].conf \in EncrypterConf /\ IsSeq(e.recipients)
      /\ e.recipients # <<>> => MadeOf(e, origin[1].conf)
  BY <1>1 DEF LifeInv, HistoryInv, Shape
<1>2. /\ IsOrigin(origin'[1]) /\ origin'[1].from = "encrypt" /\ origin'[1].added = {}
      /\ origin'[1].conf = origin[1].conf /\ origin'[1].plain = PlainOf(p) /\ origin'[1].aad = aad
  <2>1. origin'[1] = Given(origin[1], PlainOf(p), aad)
    BY Zenon, <1>1
  <2>2. Gives(origin[1], origin'[1], PlainOf(p), aad)
    BY Zenon, <1>i, <2>1, GivenKeeps
  <2> QED
    BY Zenon, <1>i, <2>2 DEF Gives
<1>3. CASE at' # "encrypted"
  <2>1. at' \in {"crashed", "failed"} /\ made' = <<>>
    BY Zenon, <1>1, <1>3
  <2>2. ~MadeBy("encrypt")' /\ ~MadeBy("foreign")' /\ ~Intact("encrypt")'
    BY Zenon, <2>1 DEF MadeBy, Intact
  <2>3. at' # "encrypted" /\ at' # "parsed" /\ at' # "ready"
    BY Zenon, <2>1
  <2> QED
    BY Zenon, <1>2, <2>1, <2>2, <2>3
       DEF Rest, HistoryInv, CarriedInv, AadInv, HeaderInv, RefusedInv, UntouchedInv
<1>4. CASE at' = "encrypted"
  <2>1. Encrypts(e, origin[1].conf)
    BY Zenon, <1>1, <1>4, <1>i DEF Encrypts
  <2>2. ObjFrom(obj', e, OwnParts(e, p, aad), {}) /\ obj'.aad = aad
    <3>1. e.recipients # <<>> /\ obj' = EncryptObject(e, p, aad)
      BY Zenon, <1>1, <1>4
    <3> QED
      BY Zenon, <1>i, <3>1, EncryptedFrom
  <2>3. origin'[1].plain[2] = p /\ origin'[1].plain = PlainOf(origin'[1].plain[2])
    <3>1. \A z : Sealed(z, p)[2] = p
      BY DEF Sealed
    <3>2. PlainOf(p)[2] = p
      BY Zenon, <3>1 DEF PlainOf
    <3> QED
      BY Zenon, <1>2, <3>2
  <2>4. Own' = OwnParts(e, p, aad)
    BY Zenon, <1>1, <1>2, <2>3 DEF Own
  <2>5. ~MadeBy("foreign")'
    BY Zenon, <1>2 DEF MadeBy
  <2>6. at' \notin {"start", "ready", "failed", "crashed", "wire", "parsed", "refused"}
    BY Zenon, <1>4
  <2>7. HistoryInv'
    BY Zenon, <1>1, <1>2, <2>1, <2>3, <2>6 DEF HistoryInv
  <2> QED
    BY Zenon, <1>1, <1>2, <2>2, <2>4, <2>5, <2>6, <2>7
       DEF Rest, CarriedInv, AadInv, HeaderInv, RefusedInv, UntouchedInv
<1> QED
  BY Zenon, <1>3, <1>4

\* Every step keeps what origin promises about the message.
LEMMA LifeInvStep == LifeInv /\ [Next]_vars => LifeInv'
<1> SUFFICES ASSUME LifeInv, [Next]_vars PROVE LifeInv'
  OBVIOUS
<1>s. Shape'
  BY Zenon, ShapeStep DEF LifeInv
<1> SUFFICES Rest'
  BY Zenon, <1>s DEF LifeInv, Rest
<1>1. CASE \E conf \in EncrypterConf : New(conf) \/ NewMulti(conf)
  BY Zenon, <1>1, ConstructStep
<1>2. CASE \E p \in Plaintext, aad \in Aad, r, k \in BOOLEAN : Encrypt(p, aad, r, k)
  BY Zenon, <1>2, EncryptStep
<1>3. CASE \E f \in Foreign : ForeignEncrypt(f)
  BY Zenon, <1>3, ForeignStep
<1>4. CASE SendCompact
  <2>1. CompactOK(obj) /\ Send(CompactSerialize(obj), {"compact"})
    BY Zenon, <1>4 DEF SendCompact
  <2> DEFINE m == CompactSerialize(obj)
  <2>2. \A e, parts, names : IsSeq(e.recipients) /\ e.recipients # <<>> /\ ObjFrom(obj, e, parts, names) =>
            MsgFrom(m, e, parts, names)
    BY Zenon, <2>1, SerializeCarries
  <2>3. m.aad = NilBytes /\ "compact" \in {"compact"}
    BY DEF CompactSerialize
  <2> HIDE DEF m
  <2> QED
    BY Zenon, <2>1, <2>2, <2>3, SendStep DEF m
<1>5. CASE SendFull
  <2>1. Send(FullSerialize(obj), {})
    BY Zenon, <1>5 DEF SendFull
  <2> DEFINE m == FullSerialize(obj)
  <2>2. \A e, parts, names : IsSeq(e.recipients) /\ e.recipients # <<>> /\ ObjFrom(obj, e, parts, names) =>
            MsgFrom(m, e, parts, names)
    BY Zenon, SerializeCarries
  <2>3. m.aad = obj.aad
    BY DEF FullSerialize
  <2> HIDE DEF m
  <2> QED
    BY Zenon, <2>1, <2>2, <2>3, SendStep DEF m
<1>6. CASE \E h \in AddedHeader : AddHeader(h)
  <2>1. PICK h \in AddedHeader : AddHeader(h)
    BY Zenon, <1>6
  <2>2. SanitizeOK(h) /\ IsMsg(msg)
    BY Zenon, RoundTripAssumption DEF LifeInv, Shape
  <2> DEFINE u == [msg EXCEPT !.unprotected = <<h>>]
             n == [msg EXCEPT !.header = <<h>>]
  <2>3. /\ \A e, parts, some : MsgFrom(msg, e, parts, some) => MsgFrom(u, e, parts, some \cup DOMAIN h)
        /\ \A e, parts, some : MsgFrom(msg, e, parts, some) => MsgFrom(n, e, parts, some \cup DOMAIN h)
    BY Zenon, <2>2, AddedCarries
  <2>4. u.aad = msg.aad /\ n.aad = msg.aad
    BY <2>2 DEF IsMsg
  <2>5. InTransit(u, {"header"}, DOMAIN h) \/ InTransit(n, {"header"}, DOMAIN h)
    BY Zenon, <2>1 DEF AddHeader
  <2> HIDE DEF u, n
  <2> QED
    BY Zenon, <2>3, <2>4, <2>5, TransitStep
<1>7. CASE (\E b \in OtherBytes : DamageProtected(b)) \/ DamageBody
  <2>1. PICK m : InTransit(m, {"damage"}, {})
    BY Zenon, <1>7 DEF DamageProtected, DamageBody
  <2>2. {"damage"} # {"header"}
    OBVIOUS
  <2> QED
    BY Zenon, <2>1, <2>2, TransitStep
<1>8. CASE \E a \in AllowLists : ParseEncrypted(a)
  BY Zenon, <1>8, ParseStep
<1>9. CASE (\E vk \in DecKeys : DecryptOne(vk) \/ DecryptMany(vk)) \/ UNCHANGED vars
  <2>1. UNCHANGED <<at, encrypter, msg, obj, allow, made, origin>>
    BY Zenon, <1>9 DEF DecryptOne, DecryptMany, vars
  <2>2. HistoryInv /\ CarriedInv /\ AadInv /\ HeaderInv /\ RefusedInv /\ UntouchedInv
    BY Zenon DEF LifeInv
  <2>3. HistoryInv'
    BY Zenon, <2>1, <2>2 DEF HistoryInv, MadeBy
  <2>4. CarriedInv' /\ AadInv'
    BY Zenon, <2>1, <2>2 DEF CarriedInv, AadInv, AadKept, Intact, MadeBy, Own
  <2>5. HeaderInv' /\ RefusedInv' /\ UntouchedInv'
    BY Zenon, <2>1, <2>2 DEF HeaderInv, RefusedInv, UntouchedInv, Intact, MadeBy
  <2> QED
    BY Zenon, <2>3, <2>4, <2>5 DEF Rest
<1> QED
  BY Zenon, <1>1, <1>2, <1>3, <1>4, <1>5, <1>6, <1>7, <1>8, <1>9 DEF Next

LEMMA LifeAlways == Spec => []LifeInv
<1>1. Init => LifeInv
  <2> SUFFICES ASSUME Init PROVE LifeInv
    BY Zenon
  <2>1. Shape
    BY Zenon, ShortSeqs DEF Init, Shape, IsMsg, NoMsg, NoObj, NilEncrypter, Encrypter
  <2>2. at = "start" /\ made = <<>>
    BY DEF Init
  <2>3. ~MadeBy("encrypt") /\ ~MadeBy("foreign") /\ ~Intact("encrypt")
    BY Zenon, <2>2 DEF MadeBy, Intact
  <2>4. at # "encrypted" /\ at # "parsed" /\ at # "ready"
    BY <2>2
  <2> QED
    BY Zenon, <2>1, <2>2, <2>3, <2>4
       DEF LifeInv, HistoryInv, CarriedInv, AadInv, HeaderInv, RefusedInv, UntouchedInv
<1> QED
  BY <1>1, LifeInvStep, PTL DEF Spec

\* For every instance, a message of another implementation that nobody touched
\* opens with the key of each recipient, wherever it keeps its headers: the parser
\* keeps the original protected bytes for computeAuthData and Decrypt joins the
\* headers as the producer did.
THEOREM ForeignDecryptsAlways == Spec => []ForeignDecrypts
<1>1. LifeInv => ForeignDecrypts
  <2> SUFFICES ASSUME LifeInv, at = "parsed", Intact("foreign"), origin[1].touched = {}
               PROVE  ForeignDecrypts
    BY Zenon DEF ForeignDecrypts
  <2> DEFINE f == origin[1].conf
             hd(i) == RecipientHeaders(obj, obj.recipients[i])
  <2>1. f \in Foreign /\ origin[1].plain = Sealed("", f.plain) /\ obj = Parse(ForeignMsg(f))
    BY Zenon DEF LifeInv, UntouchedInv, Intact, PlainOf
  <2>2. ASSUME EncOf(obj) = f.enc, CheckNoCritical(GlobalHeaders(obj)), Inflates(f.zip, f.plain),
               NEW i \in DOMAIN f.recipients, GetString(hd(i), "alg") = f.recipients[i].alg,
               \A j \in {j \in 1..i : f.recipients[j].key.id = f.recipients[i].key.id} : SanitizeOK(hd(j))
        PROVE  LET ret == DecryptMulti(obj, <<"key", f.recipients[i].key>>)
               IN  ret.outcome = "ok" /\ ret.plaintext = Sealed("", f.plain)
    <3>1. \A j \in 1..i : f.recipients[j].key.id = f.recipients[i].key.id => SanitizeOK(hd(j))
      BY Zenon, <2>2
    <3> HIDE DEF f
    <3> QED
      BY Zenon, <2>1, <2>2, <3>1, ForeignOpens
  <2> QED
    BY Zenon, <2>1, <2>2 DEF ForeignDecrypts
<1> QED
  BY <1>1, LifeAlways, PTL

\* An object that holds what Encrypt made, within the limits of Decrypt.
Opening(e, conf, p, names, o) ==
    /\ Encrypts(e, conf) /\ Plainly(e, names)
    /\ conf.zip = "DEF" => Inflatable(p)
    /\ ObjFrom(o, e, OwnParts(e, p, o.aad), names)
    /\ \A i \in DOMAIN conf.recipients : Suits(conf.recipients[i])

OpensEach(conf, p, o) ==
    \A i \in DOMAIN conf.recipients :
        /\ \E g \in DOMAIN conf.recipients :
              /\ conf.recipients[g].key.id = conf.recipients[i].key.id
              /\ DecryptMulti(o, <<"key", conf.recipients[i].key>>) =
                     Return("ok", g, Sanitized(RecipientHeaders(o, o.recipients[g])), PlainOf(p))
        /\ DOMAIN conf.recipients = {1} =>
              \A vk : TryJWKS(vk, o.Header) = <<conf.recipients[i].key>> => Decrypt(o, vk).outcome = "ok"

\* It opens with the key of each recipient.
LEMMA OwnOpensEach ==
    ASSUME NEW e, NEW conf, NEW p, NEW names, NEW o, Opening(e, conf, p, names, o)
    PROVE  OpensEach(conf, p, o)
<1>1. /\ Encrypts(e, conf) /\ Plainly(e, names)
      /\ conf.zip = "DEF" => Inflatable(p)
      /\ ObjFrom(o, e, OwnParts(e, p, o.aad), names)
      /\ \A i \in DOMAIN conf.recipients : Suits(conf.recipients[i])
  BY ZenonT(30) DEF Opening
<1>2. \A i \in DOMAIN conf.recipients :
         /\ \E g \in DOMAIN conf.recipients :
               /\ conf.recipients[g].key.id = conf.recipients[i].key.id
               /\ DecryptMulti(o, <<"key", conf.recipients[i].key>>) =
                      Return("ok", g, Sanitized(RecipientHeaders(o, o.recipients[g])), PlainOf(p))
         /\ DOMAIN conf.recipients = {1} =>
               \A vk : TryJWKS(vk, o.Header) = <<conf.recipients[i].key>> => Decrypt(o, vk).outcome = "ok"
  BY SMTT(20), <1>1, OwnOpens
<1> QED
  BY Zenon, <1>2 DEF OpensEach

\* An only recipient is found in a JWK Set.
HasKid(e, conf) ==
    /\ DOMAIN conf.recipients = {1}
    /\ "kid" \notin DOMAIN e.extra /\ KeyIDOf(conf.recipients[1]) # EmptyBytes

FoundEach(conf, o) ==
    \A vk : LET entries == KeysOf(Value(vk), KeyIDOf(conf.recipients[1]))
            IN  Kind(vk) = "jwks" /\ entries # <<>> => TryJWKS(vk, o.Header) = <<entries[1].key>>

LEMMA OwnFoundIn ==
    ASSUME NEW e, NEW conf, NEW p, NEW names, NEW o, Opening(e, conf, p, names, o),
           o.Header = Sanitized(GlobalHeaders(o)), HasKid(e, conf)
    PROVE  FoundEach(conf, o)
<1>1. /\ Encrypts(e, conf) /\ ObjFrom(o, e, OwnParts(e, p, o.aad), names)
      /\ DOMAIN conf.recipients = {1}
      /\ "kid" \notin DOMAIN e.extra /\ KeyIDOf(conf.recipients[1]) # EmptyBytes
  BY Zenon DEF Opening, HasKid
<1> SUFFICES ASSUME NEW vk, Kind(vk) = "jwks"
             PROVE  LET entries == KeysOf(Value(vk), KeyIDOf(conf.recipients[1]))
                    IN  entries # <<>> => TryJWKS(vk, o.Header) = <<entries[1].key>>
  BY Zenon DEF FoundEach
<1> QED
  BY <1>1, OwnFound

\* For every instance, what Encrypt made is refused by the parser only for its
\* algorithms, and opens with the key of each recipient, straight away and after any
\* number of serializations, parses and added headers.
THEOREM RoundTripAlways == Spec => []RoundTrip
<1>1. LifeInv => RoundTrip
  <2> SUFFICES ASSUME LifeInv, Intact("encrypt"), Sound(origin[1]) PROVE RoundTrip
    BY Zenon DEF RoundTrip
  <2> DEFINE o == origin[1]
             conf == o.conf
             rs == conf.recipients
             names == o.added
             e == encrypter
             p == o.plain[2]
  <2>1. /\ Encrypts(e, conf) /\ o.plain = PlainOf(p)
        /\ at \in {"encrypted", "parsed"} => ObjFrom(obj, e, OwnParts(e, p, o.aad), names)
        /\ at \in {"encrypted", "parsed"} /\ AadKept(o) => obj.aad = o.aad
        /\ at = "parsed" => obj.Header = Sanitized(GlobalHeaders(obj))
    BY Zenon DEF LifeInv, HistoryInv, CarriedInv, AadInv, HeaderInv, Intact, Own
  <2>2. e.extra = conf.extra /\ conf \in EncrypterConf
    BY Zenon, <2>1 DEF Encrypts, MadeOf
  <2>3. Plainly(e, names)
    BY Zenon, <2>2 DEF Sound, Plainly
  <2>4. at = "refused" /\ "nonce" \notin names =>
            conf.enc \notin allow.encs \/ \E i \in DOMAIN rs : rs[i].alg \notin allow.algs
    BY Zenon DEF LifeInv, RefusedInv
  <2>5. ASSUME at \in {"encrypted", "parsed"}, Fits(o), AadKept(o)
        PROVE  (\A i \in DOMAIN rs : Opens(o, i)) /\ (at = "parsed" => FoundInSets(o))
    <3>1. /\ ObjFrom(obj, e, OwnParts(e, p, o.aad), names) /\ obj.aad = o.aad
          /\ conf.zip = "DEF" => Inflatable(p)
      BY Zenon, <2>1, <2>5 DEF Fits
    <3>2. \A i \in DOMAIN rs : Suits(rs[i])
      BY Zenon, <2>2, <2>5, RoundTripAssumption DEF Fits, Suits
    <3>3. \A i, j \in DOMAIN rs : rs[i].key.id = rs[j].key.id => rs[i].key = rs[j].key
      BY Zenon, <2>2, RoundTripAssumption
    <3>o. Opening(e, conf, p, names, obj)
      BY Zenon, <2>1, <2>3, <3>1, <3>2 DEF Opening
    <3>4. \A i \in DOMAIN rs :
             /\ \E g \in DOMAIN rs :
                   /\ rs[g].key.id = rs[i].key.id
                   /\ DecryptMulti(obj, <<"key", rs[i].key>>) =
                          Return("ok", g, Sanitized(RecipientHeaders(obj, obj.recipients[g])), PlainOf(p))
             /\ DOMAIN rs = {1} =>
                   \A vk : TryJWKS(vk, obj.Header) = <<rs[i].key>> => Decrypt(obj, vk).outcome = "ok"
      <4>1. OpensEach(conf, p, obj)
        BY Zenon, <3>o, OwnOpensEach
      <4> QED
        BY Zenon, <4>1 DEF OpensEach
    <3>5. ASSUME NEW i \in DOMAIN rs PROVE Opens(o, i)
      <4> DEFINE ret == DecryptMulti(obj, <<"key", rs[i].key>>)
                 hd(g) == RecipientHeaders(obj, obj.recipients[g])
      <4>1. PICK g \in DOMAIN rs :
               rs[g].key.id = rs[i].key.id /\ ret = Return("ok", g, Sanitized(hd(g)), PlainOf(p))
        BY ZenonT(30), <3>4
      <4>2. /\ GetString(hd(g), "alg") = rs[g].alg
            /\ "kid" \notin DOMAIN e.extra \cup names => GetString(hd(g), "kid") = KeyIDOf(rs[g])
        <5> HIDE DEF conf, e, p, names, o
        <5> QED
          BY SMTT(20), <2>1, <2>3, <3>1, OwnReads
      <4>3. \A h, x : /\ Return("ok", g, Sanitized(h), x).outcome = "ok"
                      /\ Return("ok", g, Sanitized(h), x).plaintext = x
                      /\ Return("ok", g, Sanitized(h), x).index = g
                      /\ Return("ok", g, Sanitized(h), x).header = Sanitized(h)
        BY Zenon DEF Return
      <4>4. \A h : Sanitized(h).alg = GetString(h, "alg") /\ Sanitized(h).kid = GetString(h, "kid")
        BY Zenon DEF Sanitized
      <4> HIDE DEF ret
      <4>5. /\ ret.outcome = "ok" /\ ret.plaintext = PlainOf(p) /\ ret.index = g
            /\ ret.header.alg = GetString(hd(g), "alg") /\ ret.header.kid = GetString(hd(g), "kid")
        BY Zenon, <4>1, <4>3, <4>4
      <4>6. rs[g].key = rs[i].key
        BY Zenon, <3>3, <4>1
      <4> HIDE DEF hd
      <4> QED
        BY Zenon, <2>1, <2>2, <4>2, <4>5, <4>6 DEF Opens, ret
    <3>6. ASSUME at = "parsed" PROVE FoundInSets(o)
      <4> DEFINE r == rs[1]
      <4> SUFFICES ASSUME Len(rs) = 1, "kid" \notin DOMAIN conf.extra, KeyIDOf(r) # "",
                          NEW vk \in {v \in DecKeys : Kind(v) = "jwks"},
                          KeysOf(Value(vk), KeyIDOf(r)) # <<>>,
                          KeysOf(Value(vk), KeyIDOf(r))[1].key = r.key
                   PROVE  Decrypt(obj, vk).outcome = "ok"
        BY Zenon DEF FoundInSets
      <4>1. DOMAIN rs = {1}
        <5>1. IsSeq(rs)
          BY Zenon, <2>2, ProducerAssumption DEF IsSeq
        <5> HIDE DEF rs
        <5> QED
          BY Zenon, <5>1, OneIndex
      <4>2. HasKid(e, conf) /\ Kind(vk) = "jwks" /\ 1 \in DOMAIN rs
        BY Zenon, <2>2, <4>1 DEF HasKid, EmptyBytes
      <4>3. obj.Header = Sanitized(GlobalHeaders(obj))
        BY Zenon, <2>1, <3>6
      <4>4. TryJWKS(vk, obj.Header) = <<r.key>>
        <5>1. FoundEach(conf, obj)
          BY Zenon, <3>o, <4>2, <4>3, OwnFoundIn
        <5> QED
          BY Zenon, <4>2, <5>1 DEF FoundEach
      <4> QED
        BY Zenon, <3>4, <4>1, <4>2, <4>4
    <3> QED
      BY Zenon, <3>5, <3>6
  <2> QED
    BY Zenon, <2>4, <2>5 DEF RoundTrip
<1> QED
  BY <1>1, LifeAlways, PTL

=============================================================================
