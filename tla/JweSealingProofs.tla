-------------------------- MODULE JweSealingProofs ---------------------------
(***************************************************************************)
(* What Encrypt seals: the headers it writes say how to open the message,  *)
(* and a message that carries those headers opens with the keys it was     *)
(* sealed for, for every set of keys, encrypter configurations, headers    *)
(* and plaintexts.  The lemmas of JweProofs say what parsing, merging and  *)
(* decrypting do.                                                          *)
(***************************************************************************)
EXTENDS JweProofs

(***************************************************************************)
(* Headers that agree on a parameter.                                      *)
(***************************************************************************)
Agree(h, g, k) == (k \in DOMAIN h <=> k \in DOMAIN g) /\ (k \in DOMAIN g => h[k] = g[k])

\* The getters see no difference between headers that agree.
LEMMA AgreeReads ==
    ASSUME NEW h, NEW g, NEW k, Agree(h, g, k)
    PROVE  /\ GetString(h, k) = GetString(g, k)
           /\ GetBuf(h, k) = GetBuf(g, k)
           /\ Present(h, k) <=> Present(g, k)
           /\ Present(g, k) => h[k] = g[k]
           /\ BufOK(h, k) <=> BufOK(g, k)
BY Zenon DEF Agree, GetString, GetBuf, Present, BufOK

\* Agreeing is transitive.
LEMMA AgreeTrans ==
    ASSUME NEW h, NEW g, NEW f, NEW k, Agree(h, g, k), Agree(g, f, k)
    PROVE  Agree(h, f, k)
BY Zenon DEF Agree

\* A header without the parameter changes nothing when it is merged in or assigned.
LEMMA AgreeWithout ==
    ASSUME NEW h, NEW s, NEW k, k \notin DOMAIN s
    PROVE  Agree(Merge(h, s), h, k) /\ Agree(Override(h, s), h, k)
<1>1. Agree(Override(h, s), h, k)
  BY Zenon DEF Agree, Override
<1>2. Agree(Merge(h, s), h, k)
  BY Zenon DEF Agree, Merge
<1> QED
  BY Zenon, <1>1, <1>2

\* Merging the same header into two that agree leaves them in agreement.
LEMMA AgreeMerged ==
    ASSUME NEW h, NEW g, NEW s, NEW k, Agree(h, g, k)
    PROVE  Agree(Merge(h, s), Merge(g, s), k)
<1>1. IsSet(h, k) <=> IsSet(g, k)
  BY Zenon DEF Agree, IsSet, Present
<1>2. \A f : /\ DOMAIN Merge(f, s) = DOMAIN f \cup DOMAIN s
             /\ k \in DOMAIN f \cup DOMAIN s =>
                  Merge(f, s)[k] = IF k \in DOMAIN s /\ ~IsSet(f, k) THEN s[k] ELSE f[k]
  BY Zenon DEF Merge
<1>3. k \in DOMAIN h \cup DOMAIN s <=> k \in DOMAIN g \cup DOMAIN s
  BY Zenon DEF Agree
<1>4. k \in DOMAIN h \cup DOMAIN s => Merge(h, s)[k] = Merge(g, s)[k]
  <2>1. k \notin DOMAIN s => (k \in DOMAIN h \cup DOMAIN s => k \in DOMAIN g /\ h[k] = g[k])
    BY Zenon DEF Agree
  <2>2. IsSet(h, k) => h[k] = g[k]
    BY Zenon DEF Agree, IsSet, Present
  <2>3. k \in DOMAIN h \cup DOMAIN s =>
            /\ Merge(h, s)[k] = IF k \in DOMAIN s /\ ~IsSet(h, k) THEN s[k] ELSE h[k]
            /\ Merge(g, s)[k] = IF k \in DOMAIN s /\ ~IsSet(g, k) THEN s[k] ELSE g[k]
    BY Zenon, <1>2, <1>3
  <2>4. CASE k \notin DOMAIN s
    BY Zenon, <2>1, <2>3, <2>4
  <2>5. CASE k \in DOMAIN s /\ IsSet(h, k)
    BY Zenon, <1>1, <2>2, <2>3, <2>5
  <2>6. CASE k \in DOMAIN s /\ ~IsSet(h, k)
    BY Zenon, <1>1, <2>3, <2>6
  <2> QED
    BY Zenon, <2>4, <2>5, <2>6
<1>5. DOMAIN Merge(h, s) = DOMAIN h \cup DOMAIN s /\ DOMAIN Merge(g, s) = DOMAIN g \cup DOMAIN s
  BY Zenon, <1>2
<1> QED
  BY Zenon, <1>3, <1>4, <1>5 DEF Agree

\* A merge does what an assignment does where only one of the headers has the
\* parameter.
LEMMA AgreeDisjoint ==
    ASSUME NEW h, NEW s, NEW k, k \notin DOMAIN h \/ k \notin DOMAIN s
    PROVE  Agree(Merge(h, s), Override(h, s), k)
<1>1. k \notin DOMAIN h => ~IsSet(h, k)
  BY Zenon DEF IsSet, Present
<1> QED
  BY Zenon, <1>1 DEF Agree, Merge, Override

\* What is assigned keeps the types of the parameters.
LEMMA OverrideSanitary ==
    ASSUME NEW f, NEW g, SanitizeOK(f), SanitizeOK(g)
    PROVE  SanitizeOK(Override(f, g))
BY Zenon DEF SanitizeOK, Override

\* Merging a header that is there is Merge.
LEMMA MergeHeader ==
    ASSUME NEW h, NEW s
    PROVE  MergePtr(h, <<s>>) = Merge(h, s)
<1>1. <<s>> # NoHeader /\ <<s>>[1] = s
  BY DEF NoHeader
<1> QED
  BY Zenon, <1>1 DEF MergePtr

(***************************************************************************)
(* The headers Encrypt writes.                                             *)
(***************************************************************************)
OwnInfo(e, i) == RecipientInfo(e.recipients[i], GenKey(e))
OwnHeader(e, i) == OwnInfo(e, i).header[1]
Common(e) == Merge([enc |-> Str(e.enc)], GenHeader(e))
Intended(e, i) == Override(Common(e), OwnHeader(e, i))

\* An encrypter that a constructor made from conf.
MadeOf(e, conf) ==
    LET r == conf.recipients[1]
    IN  /\ e.enc = conf.enc /\ e.zip = conf.zip /\ e.extra = conf.extra
        /\ conf.enc \in DOMAIN ContentEncryption
        /\ DOMAIN e.recipients = DOMAIN conf.recipients
        /\ \A i \in DOMAIN e.recipients : e.recipients[i] = KeyInfo(conf.recipients[i])
        /\ \/ /\ e.gen = "static" /\ DOMAIN e.recipients = {1}
              /\ r.alg = DIRECT /\ r.key.type = "oct" /\ r.key.size = ContentEncryption[conf.enc]
           \/ /\ e.gen = "ec" /\ DOMAIN e.recipients = {1}
              /\ r.alg = "ECDH_ES" /\ r.key.type = "ec"
           \/ e.gen = "random" /\ \A i \in DOMAIN conf.recipients : AddRecipientOK(conf.recipients[i])

\* The header of a recipient: the parameters of its algorithm, alg and kid.
LEMMA OwnHeaderIs ==
    ASSUME NEW e, NEW i
    PROVE  LET info == e.recipients[i]
               r == EncryptKey(info, GenKey(e))
               kid == IF info.keyID = "" THEN EmptyHeader ELSE [kid |-> Str(info.keyID)]
           IN  /\ OwnHeader(e, i) = Override(Override(r.header, [alg |-> Str(info.keyAlg)]), kid)
               /\ OwnInfo(e, i).header = <<OwnHeader(e, i)>>
               /\ OwnInfo(e, i).encryptedKey = r.encryptedKey
<1> DEFINE info == e.recipients[i]
           r == EncryptKey(info, GenKey(e))
           kid == IF info.keyID = "" THEN EmptyHeader ELSE [kid |-> Str(info.keyID)]
           h == Override(Override(r.header, [alg |-> Str(info.keyAlg)]), kid)
<1>1. OwnInfo(e, i) = [header |-> <<h>>, encryptedKey |-> r.encryptedKey]
  BY Zenon DEF OwnInfo, RecipientInfo
<1> HIDE DEF h, r
<1>2. OwnInfo(e, i).header = <<h>> /\ OwnInfo(e, i).encryptedKey = r.encryptedKey
  BY <1>1
<1>3. OwnHeader(e, i) = h
  BY <1>2 DEF OwnHeader
<1> QED
  BY Zenon, <1>2, <1>3 DEF h, r

\* What encryptKey writes into the header of a recipient, by algorithm.
LEMMA EncryptKeyHeader ==
    ASSUME NEW info, Encryptable(info), NEW cek
    PROVE  LET key == info.key
               r == EncryptKey(info, cek).header
           IN  /\ DOMAIN r \subseteq {"epk", "iv", "tag", "p2c", "p2s"}
               /\ "epk" \in DOMAIN r => key.type = "ec" /\ info.keyAlg \in DOMAIN EcdhKw
               /\ key.type = "ec" /\ info.keyAlg \in DOMAIN EcdhKw =>
                     "epk" \in DOMAIN r /\ r["epk"] = JwkOf(Epk(key))
               /\ key.type \in Symmetric /\ info.keyAlg \in GcmKw =>
                     /\ "iv" \in DOMAIN r /\ r["iv"] = GcmIV(key)
                     /\ "tag" \in DOMAIN r /\ r["tag"] = GcmTag(key, cek)
               /\ key.type \in Symmetric /\ info.keyAlg \in Pbes2Alg =>
                     /\ "p2c" \in DOMAIN r /\ r["p2c"] = Num(Count(info))
                     /\ "p2s" \in DOMAIN r /\ r["p2s"] = Buf(Salt(info))
<1> DEFINE key == info.key
           x == EncryptKey(info, cek)
           r == x.header
<1>t. key.type \in Symmetric => key.type \notin {"rsa", "ec", "opaque"}
  BY DEF Symmetric
<1>a. /\ DIRECT \notin GcmKw \cup Kw \cup Pbes2Alg /\ GcmKw \cap Kw = {}
      /\ GcmKw \cap Pbes2Alg = {} /\ Kw \cap Pbes2Alg = {}
      /\ "ECDH_ES" \notin GcmKw \cup Kw \cup Pbes2Alg
  BY DEF DIRECT, GcmKw, Kw, Pbes2Alg
<1>e. /\ DOMAIN EcdhKw \cap (GcmKw \cup Kw \cup Pbes2Alg) = {}
      /\ DIRECT \notin DOMAIN EcdhKw /\ "ECDH_ES" \notin DOMAIN EcdhKw
  BY DEF DIRECT, GcmKw, Kw, Pbes2Alg, EcdhKw
<1>n. DOMAIN EmptyHeader = {}
  BY Zenon DEF EmptyHeader
<1>1. CASE \/ key.type \in {"opaque", "rsa"}
           \/ key.type \in {"oct", "ec"} /\ info.keyAlg \in {DIRECT, "ECDH_ES"}
           \/ key.type \in Symmetric /\ info.keyAlg \in Kw
  <2>1. r = EmptyHeader
    <3>1. CASE key.type = "opaque"
      BY Zenon, <3>1, <1>t DEF EncryptKey
    <3>2. CASE key.type = "rsa"
      BY Zenon, <3>2, <1>t DEF EncryptKey
    <3>3. CASE key.type \in {"oct", "ec"} /\ info.keyAlg \in {DIRECT, "ECDH_ES"}
      BY Zenon, <3>3, <1>a, <1>e DEF EncryptKey
    <3>4. CASE key.type \in Symmetric /\ info.keyAlg \in Kw
      BY Zenon, <3>4, <1>t, <1>a, <1>e DEF EncryptKey
    <3> QED
      BY Zenon, <1>1, <3>1, <3>2, <3>3, <3>4
  <2>2. ~(key.type = "ec" /\ info.keyAlg \in DOMAIN EcdhKw)
        /\ ~(key.type \in Symmetric /\ info.keyAlg \in GcmKw \cup Pbes2Alg)
    BY Zenon, <1>1, <1>t, <1>a, <1>e
  <2> HIDE DEF r
  <2> QED
    BY Zenon, <1>n, <2>1, <2>2 DEF r
<1>2. CASE key.type = "ec" /\ info.keyAlg \in DOMAIN EcdhKw
  <2>1. r = [epk |-> JwkOf(Epk(key))]
    BY Zenon, <1>2, <1>t, <1>e DEF EncryptKey
  <2>2. DOMAIN r = {"epk"} /\ r["epk"] = JwkOf(Epk(key))
    BY <2>1
  <2> HIDE DEF r
  <2> QED
    BY <1>2, <1>t, <2>2 DEF r
<1>3. CASE key.type \in Symmetric /\ info.keyAlg \in GcmKw
  <2>1. r = [iv |-> GcmIV(key), tag |-> GcmTag(key, cek)]
    BY Zenon, <1>3, <1>t, <1>a, <1>e DEF EncryptKey
  <2>2. DOMAIN r = {"iv", "tag"} /\ r["iv"] = GcmIV(key) /\ r["tag"] = GcmTag(key, cek)
    BY <2>1
  <2> HIDE DEF r
  <2> QED
    BY Zenon, <1>3, <1>a, <1>t, <2>2 DEF r
<1>4. CASE key.type \in Symmetric /\ info.keyAlg \in Pbes2Alg
  <2>1. r = [p2c |-> Num(Count(info)), p2s |-> Buf(Salt(info))]
    BY Zenon, <1>4, <1>t, <1>a, <1>e DEF EncryptKey
  <2>2. DOMAIN r = {"p2c", "p2s"} /\ r["p2c"] = Num(Count(info)) /\ r["p2s"] = Buf(Salt(info))
    BY <2>1
  <2> HIDE DEF r
  <2> QED
    BY Zenon, <1>4, <1>a, <1>t, <2>2 DEF r
<1> QED
  BY Zenon, <1>1, <1>2, <1>3, <1>4 DEF Encryptable

\* The header of a recipient has alg, kid, and what encryptKey writes.
LEMMA OwnHeaderDomain ==
    ASSUME NEW e, NEW i, Encryptable(e.recipients[i])
    PROVE  LET info == e.recipients[i]
               key == info.key
               h == OwnHeader(e, i)
           IN  /\ "alg" \in DOMAIN h /\ h["alg"] = Str(info.keyAlg)
               /\ "kid" \in DOMAIN h <=> info.keyID # EmptyBytes
               /\ "kid" \in DOMAIN h => h["kid"] = Str(info.keyID)
               /\ DOMAIN h \subseteq {"alg", "kid", "epk", "iv", "tag", "p2c", "p2s"}
               /\ "epk" \in DOMAIN h => key.type = "ec" /\ info.keyAlg \in DOMAIN EcdhKw
               /\ key.type = "ec" /\ info.keyAlg \in DOMAIN EcdhKw =>
                     "epk" \in DOMAIN h /\ h["epk"] = JwkOf(Epk(key))
               /\ key.type \in Symmetric /\ info.keyAlg \in GcmKw =>
                     /\ "iv" \in DOMAIN h /\ h["iv"] = GcmIV(key)
                     /\ "tag" \in DOMAIN h /\ h["tag"] = GcmTag(key, GenKey(e))
               /\ key.type \in Symmetric /\ info.keyAlg \in Pbes2Alg =>
                     /\ "p2c" \in DOMAIN h /\ h["p2c"] = Num(Count(info))
                     /\ "p2s" \in DOMAIN h /\ h["p2s"] = Buf(Salt(info))
<1> DEFINE info == e.recipients[i]
           key == info.key
           h == OwnHeader(e, i)
           r == EncryptKey(info, GenKey(e)).header
           alg == [alg |-> Str(info.keyAlg)]
           kid == IF info.keyID = "" THEN EmptyHeader ELSE [kid |-> Str(info.keyID)]
<1>1. h = Override(Override(r, alg), kid)
  BY Zenon, OwnHeaderIs
<1>2. DOMAIN alg = {"alg"} /\ alg["alg"] = Str(info.keyAlg)
  BY Zenon
<1>3. /\ info.keyID = "" => DOMAIN kid = {}
      /\ info.keyID # "" => DOMAIN kid = {"kid"} /\ kid["kid"] = Str(info.keyID)
  BY Zenon DEF EmptyHeader
<1>4. /\ DOMAIN h = DOMAIN r \cup {"alg"} \cup DOMAIN kid
      /\ \A k \in DOMAIN h : h[k] = IF k \in DOMAIN kid THEN kid[k]
                                    ELSE IF k = "alg" THEN Str(info.keyAlg) ELSE r[k]
  <2> DEFINE ra == Override(r, alg)
  <2>1. DOMAIN ra = DOMAIN r \cup {"alg"} /\ \A k \in DOMAIN ra : ra[k] = IF k = "alg" THEN Str(info.keyAlg) ELSE r[k]
    <3> HIDE DEF r, alg
    <3> QED
      BY Zenon, <1>2 DEF Override
  <2>2. DOMAIN h = DOMAIN ra \cup DOMAIN kid /\ \A k \in DOMAIN h : h[k] = IF k \in DOMAIN kid THEN kid[k] ELSE ra[k]
    <3> HIDE DEF ra, kid, h
    <3> QED
      BY Zenon, <1>1 DEF Override, ra
  <2> HIDE DEF ra, kid, h, r
  <2> QED
    BY <2>1, <2>2
<1>5. /\ DOMAIN r \subseteq {"epk", "iv", "tag", "p2c", "p2s"}
      /\ "epk" \in DOMAIN r => key.type = "ec" /\ info.keyAlg \in DOMAIN EcdhKw
      /\ key.type = "ec" /\ info.keyAlg \in DOMAIN EcdhKw =>
            "epk" \in DOMAIN r /\ r["epk"] = JwkOf(Epk(key))
      /\ key.type \in Symmetric /\ info.keyAlg \in GcmKw =>
            /\ "iv" \in DOMAIN r /\ r["iv"] = GcmIV(key)
            /\ "tag" \in DOMAIN r /\ r["tag"] = GcmTag(key, GenKey(e))
      /\ key.type \in Symmetric /\ info.keyAlg \in Pbes2Alg =>
            /\ "p2c" \in DOMAIN r /\ r["p2c"] = Num(Count(info))
            /\ "p2s" \in DOMAIN r /\ r["p2s"] = Buf(Salt(info))
  BY EncryptKeyHeader
<1>6. "kid" \in DOMAIN h <=> info.keyID # EmptyBytes
  <2>1. "kid" \notin DOMAIN r \cup {"alg"}
    BY <1>5
  <2> HIDE DEF h, kid, r
  <2> QED
    BY Zenon, <1>3, <1>4, <2>1 DEF EmptyBytes
<1>7. "kid" \in DOMAIN h => h["kid"] = Str(info.keyID)
  <2>1. info.keyID # "" => "kid" \in DOMAIN kid /\ kid["kid"] = Str(info.keyID)
    BY Zenon, <1>3
  <2> HIDE DEF h, kid, r
  <2> QED
    BY Zenon, <1>4, <1>6, <2>1 DEF EmptyBytes
<1>8. DOMAIN kid \subseteq {"kid"}
  BY Zenon, <1>3
<1> HIDE DEF h, kid, r
<1>9. "alg" \in DOMAIN h /\ h["alg"] = Str(info.keyAlg)
  BY Zenon, <1>4, <1>8
<1>10. DOMAIN h \subseteq {"alg", "kid", "epk", "iv", "tag", "p2c", "p2s"}
  BY Zenon, <1>4, <1>5, <1>8
<1>11. \A k \in {"epk", "iv", "tag", "p2c", "p2s"} :
          (k \in DOMAIN h <=> k \in DOMAIN r) /\ (k \in DOMAIN r => h[k] = r[k])
  BY <1>4, <1>8
<1> QED
  BY Zenon, <1>5, <1>6, <1>7, <1>9, <1>10, <1>11 DEF h

LEMMA OwnKid ==
    ASSUME NEW e, NEW i, Encryptable(e.recipients[i])
    PROVE  /\ "kid" \in DOMAIN OwnHeader(e, i) <=> e.recipients[i].keyID # ""
           /\ "kid" \in DOMAIN OwnHeader(e, i) => OwnHeader(e, i)["kid"] = Str(e.recipients[i].keyID)
<1>1. "kid" \in DOMAIN OwnHeader(e, i) <=> e.recipients[i].keyID # EmptyBytes
  BY ZenonT(30), OwnHeaderDomain
<1>2. "kid" \in DOMAIN OwnHeader(e, i) => OwnHeader(e, i)["kid"] = Str(e.recipients[i].keyID)
  BY OwnHeaderDomain
<1> QED
  BY Zenon, <1>1, <1>2 DEF EmptyBytes

\* A sequence has one element when 1 is its only index.
LEMMA OneIndex ==
    ASSUME NEW s, IsSeq(s)
    PROVE  Len(s) = 1 <=> DOMAIN s = {1}
<1>1. Len(s) \in Nat /\ DOMAIN s = 1..Len(s)
  BY Indices
<1>2. ASSUME DOMAIN s = {1} PROVE Len(s) = 1
  <2>1. 1 \in 1..Len(s)
    BY <1>1, <1>2
  <2>2. Len(s) \in 1..Len(s)
    BY <1>1, <2>1
  <2> QED
    BY Zenon, <1>1, <1>2, <2>2
<1> QED
  BY <1>1, <1>2

\* What every recipient's headers share: enc, and epk when the content key is agreed on.
LEMMA CommonIs ==
    ASSUME NEW e
    PROVE  LET c == Common(e)
           IN  /\ "enc" \in DOMAIN c /\ c["enc"] = Str(e.enc)
               /\ DOMAIN c \subseteq {"enc", "epk"}
               /\ "epk" \in DOMAIN c <=> e.gen = "ec"
               /\ e.gen = "ec" => c["epk"] = JwkOf(Epk(e.recipients[1].key))
<1> DEFINE g == GenHeader(e)
           s == [enc |-> Str(e.enc)]
           c == Common(e)
<1>1. DOMAIN s = {"enc"} /\ s["enc"] = Str(e.enc)
  BY Zenon
<1>2. /\ DOMAIN g \subseteq {"epk"} /\ ("epk" \in DOMAIN g <=> e.gen = "ec")
      /\ e.gen = "ec" => g["epk"] = JwkOf(Epk(e.recipients[1].key))
  <2>1. CASE e.gen = "ec"
    <3>1. g = [epk |-> JwkOf(Epk(e.recipients[1].key))]
      BY Zenon, <2>1 DEF GenHeader
    <3> HIDE DEF g
    <3> QED
      BY <2>1, <3>1
  <2>2. CASE e.gen # "ec"
    <3>1. g = EmptyHeader /\ DOMAIN EmptyHeader = {}
      BY Zenon, <2>2 DEF GenHeader, EmptyHeader
    <3> HIDE DEF g
    <3> QED
      BY <2>2, <3>1
  <2> QED
    BY <2>1, <2>2
<1> HIDE DEF g, s
<1>3. /\ DOMAIN c = DOMAIN s \cup DOMAIN g
      /\ \A k \in DOMAIN c : c[k] = IF k \in DOMAIN g /\ ~IsSet(s, k) THEN g[k] ELSE s[k]
  BY Zenon DEF Common, Merge, g, s
<1>4. ~IsSet(s, "epk")
  BY Zenon, <1>1 DEF IsSet, Present
<1> HIDE DEF c
<1> QED
  BY Zenon, <1>1, <1>2, <1>3, <1>4 DEF c

\* No parameter is both shared and a recipient's own.
LEMMA OwnApart ==
    ASSUME NEW e, NEW conf, MadeOf(e, conf), NEW i \in DOMAIN e.recipients,
           Encryptable(e.recipients[i]), NEW k
    PROVE  k \notin DOMAIN Common(e) \/ k \notin DOMAIN OwnHeader(e, i)
<1>1. DOMAIN Common(e) \subseteq {"enc", "epk"} /\ ("epk" \in DOMAIN Common(e) <=> e.gen = "ec")
  BY Zenon, CommonIs
<1>2. /\ DOMAIN OwnHeader(e, i) \subseteq {"alg", "kid", "epk", "iv", "tag", "p2c", "p2s"}
      /\ "epk" \in DOMAIN OwnHeader(e, i) => e.recipients[i].keyAlg \in DOMAIN EcdhKw
  BY OwnHeaderDomain
<1>3. e.gen = "ec" => e.recipients[i].keyAlg = "ECDH_ES"
  <2>1. e.gen = "ec" => DOMAIN e.recipients = {1} /\ conf.recipients[1].alg = "ECDH_ES"
    BY DEF MadeOf
  <2>2. e.recipients[i] = KeyInfo(conf.recipients[i]) /\ KeyInfo(conf.recipients[i]).keyAlg = conf.recipients[i].alg
    BY Zenon DEF MadeOf, KeyInfo
  <2> QED
    BY <2>1, <2>2
<1>4. "ECDH_ES" \notin DOMAIN EcdhKw
  BY DEF EcdhKw
<1> QED
  BY Zenon, <1>1, <1>2, <1>3, <1>4

OwnProtected(e) == ProtectedFor(e, [i \in DOMAIN e.recipients |-> OwnInfo(e, i)])

\* The protected header has what all recipients share, the parameters of an only
\* recipient, and zip, unless an extra header replaces them.
LEMMA ProtectedAgrees ==
    ASSUME NEW e, IsSeq(e.recipients), NEW k, k \notin DOMAIN e.extra
    PROVE  LET P == OwnProtected(e)
           IN  /\ k # "zip" /\ DOMAIN e.recipients = {1} => Agree(P, Merge(Common(e), OwnHeader(e, 1)), k)
               /\ k # "zip" /\ DOMAIN e.recipients # {1} => Agree(P, Common(e), k)
               /\ k = "zip" /\ e.zip # "" => k \in DOMAIN P /\ P[k] = Str(e.zip)
               /\ k = "zip" /\ e.zip = "" /\ (DOMAIN e.recipients = {1} => k \notin DOMAIN OwnHeader(e, 1)) =>
                     k \notin DOMAIN P
<1> DEFINE rs == [i \in DOMAIN e.recipients |-> OwnInfo(e, i)]
           all == IF DOMAIN e.recipients = {1} THEN Merge(Common(e), OwnHeader(e, 1)) ELSE Common(e)
           zip == IF e.zip = "" THEN EmptyHeader ELSE [zip |-> Str(e.zip)]
           P == OwnProtected(e)
<1>1. Len(rs) = 1 <=> DOMAIN e.recipients = {1}
  <2>1. IsSeq(rs) /\ Len(rs) = Len(e.recipients)
    BY MapIsSeq
  <2> HIDE DEF rs
  <2> QED
    BY Zenon, <2>1, OneIndex
<1>2. DOMAIN e.recipients = {1} => MergePtr(Common(e), rs[1].header) = Merge(Common(e), OwnHeader(e, 1))
  <2>1. DOMAIN e.recipients = {1} => rs[1] = OwnInfo(e, 1)
    OBVIOUS
  <2>2. OwnInfo(e, 1).header = <<OwnHeader(e, 1)>>
    BY Zenon, OwnHeaderIs
  <2> HIDE DEF rs
  <2> QED
    BY Zenon, <2>1, <2>2, MergeHeader
<1>3. P = Override(Override(all, zip), e.extra)
  BY Zenon, <1>1, <1>2 DEF OwnProtected, ProtectedFor, Common
<1>4. Agree(P, Override(all, zip), k)
  BY Zenon, <1>3, AgreeWithout
<1>5. k # "zip" => k \notin DOMAIN zip
  BY Zenon DEF EmptyHeader
<1>6. k # "zip" => Agree(P, all, k)
  <2> HIDE DEF P, all, zip
  <2>1. k # "zip" => Agree(Override(all, zip), all, k)
    BY Zenon, <1>5, AgreeWithout
  <2> QED
    BY Zenon, <1>4, <2>1, AgreeTrans
<1>7. k = "zip" /\ e.zip # "" => k \in DOMAIN P /\ P[k] = Str(e.zip)
  <2> SUFFICES ASSUME k = "zip", e.zip # "" PROVE k \in DOMAIN P /\ P[k] = Str(e.zip)
    BY Zenon
  <2>1. k \in DOMAIN zip /\ zip[k] = Str(e.zip)
    BY Zenon
  <2> HIDE DEF all, zip, P
  <2>2. k \in DOMAIN Override(all, zip) /\ Override(all, zip)[k] = Str(e.zip)
    BY Zenon, <2>1 DEF Override
  <2> QED
    BY Zenon, <1>4, <2>2 DEF Agree
<1>8. ASSUME k = "zip", e.zip = "", DOMAIN e.recipients = {1} => k \notin DOMAIN OwnHeader(e, 1)
      PROVE  k \notin DOMAIN P
  <2>1. k \notin DOMAIN zip
    BY Zenon, <1>8 DEF EmptyHeader
  <2>2. k \notin DOMAIN Common(e)
    BY Zenon, <1>8, CommonIs
  <2>3. DOMAIN e.recipients = {1} => k \notin DOMAIN Merge(Common(e), OwnHeader(e, 1))
    BY Zenon, <1>8, <2>2 DEF Merge
  <2>4. k \notin DOMAIN all
    BY Zenon, <2>2, <2>3
  <2> HIDE DEF all, zip, P
  <2>5. k \notin DOMAIN Override(all, zip)
    BY Zenon, <2>1, <2>4 DEF Override
  <2> QED
    BY Zenon, <1>4, <2>5 DEF Agree
<1>9. /\ DOMAIN e.recipients = {1} => all = Merge(Common(e), OwnHeader(e, 1))
      /\ DOMAIN e.recipients # {1} => all = Common(e)
  BY Zenon
<1> HIDE DEF P, all
<1> QED
  BY Zenon, <1>6, <1>7, <1>8, <1>9 DEF P

(***************************************************************************)
(* A message of Encrypt on its way: the headers, encrypted keys and        *)
(* content are Encrypt's, and what was added names only known parameters.  *)
(***************************************************************************)
Small(ptr, names) == ptr # NoHeader => DOMAIN ptr[1] \subseteq names /\ SanitizeOK(ptr[1])

HasRecipients(rs, e, names) ==
    /\ IsSeq(rs) /\ DOMAIN rs = DOMAIN e.recipients
    /\ \A i \in DOMAIN rs : rs[i].encryptedKey = OwnInfo(e, i).encryptedKey
    /\ DOMAIN e.recipients = {1} => Small(rs[1].header, names)
    /\ DOMAIN e.recipients # {1} => \A i \in DOMAIN rs : rs[i].header = <<OwnHeader(e, i)>>

ObjFrom(o, e, parts, names) ==
    /\ o.protected = <<OwnProtected(e)>>
    /\ o.original \in {Absent, Canonical(OwnProtected(e))}
    /\ o.parts = parts
    /\ Small(o.unprotected, names)
    /\ HasRecipients(o.recipients, e, names)

MsgFrom(m, e, parts, names) ==
    /\ m.form # "broken"
    /\ m.protected = Canonical(OwnProtected(e))
    /\ m.parts = parts
    /\ Small(m.unprotected, names) /\ Small(m.header, names)
    /\ m.recipients = <<>> <=> DOMAIN e.recipients = {1}
    /\ HasRecipients(RawRecipients(m), e, names)

\* A header of other parameters changes nothing when it is merged in.
LEMMA AgreeSmall ==
    ASSUME NEW h, NEW ptr, NEW names, Small(ptr, names), NEW k, k \notin names
    PROVE  Agree(MergePtr(h, ptr), h, k)
<1>1. CASE ptr = NoHeader
  BY Zenon, <1>1 DEF MergePtr, Agree
<1>2. CASE ptr # NoHeader
  <2>1. k \notin DOMAIN ptr[1] /\ MergePtr(h, ptr) = Merge(h, ptr[1])
    BY Zenon, <1>2 DEF Small, MergePtr
  <2> QED
    BY Zenon, <2>1, AgreeWithout
<1> QED
  BY Zenon, <1>1, <1>2

\* The headers that Decrypt joins are the ones that Encrypt meant.
LEMMA CarriedHeaders ==
    ASSUME NEW e, NEW conf, IsSeq(e.recipients), MadeOf(e, conf), Ready(e),
           NEW parts, NEW names, NEW o, ObjFrom(o, e, parts, names),
           NEW i \in DOMAIN e.recipients,
           NEW k, k # "zip", k \notin DOMAIN e.extra, k \notin names
    PROVE  /\ Agree(RecipientHeaders(o, o.recipients[i]), Intended(e, i), k)
           /\ k \notin {"alg", "kid", "epk", "iv", "tag", "p2c", "p2s"} =>
                 Agree(GlobalHeaders(o), Common(e), k)
<1> DEFINE P == OwnProtected(e)
           C == Common(e)
           R == OwnHeader(e, i)
           G == GlobalHeaders(o)
           h == RecipientHeaders(o, o.recipients[i])
<1>1. Encryptable(e.recipients[i]) /\ (k \notin DOMAIN C \/ k \notin DOMAIN R)
  BY Zenon, OwnApart DEF Ready
<1>2. k \notin {"alg", "kid", "epk", "iv", "tag", "p2c", "p2s"} => k \notin DOMAIN R
  BY <1>1, OwnHeaderDomain
<1>3. DOMAIN EmptyHeader = {}
  BY Zenon DEF EmptyHeader
<1>4. Agree(Merge(EmptyHeader, P), P, k)
  <2>1. ~IsSet(EmptyHeader, k)
    BY Zenon, <1>3 DEF IsSet, Present
  <2> HIDE DEF P
  <2> QED
    BY Zenon, <1>3, <2>1 DEF Agree, Merge
<1>5. Small(o.unprotected, names) /\ o.protected = <<P>>
  BY Zenon DEF ObjFrom
<1>6. Agree(G, P, k)
  <2>1. G = MergePtr(Merge(EmptyHeader, P), o.unprotected)
    BY Zenon, <1>5, MergeHeader DEF GlobalHeaders
  <2>2. Agree(G, Merge(EmptyHeader, P), k)
    BY Zenon, <1>5, <2>1, AgreeSmall
  <2> HIDE DEF G, P
  <2> QED
    BY Zenon, <1>4, <2>2, AgreeTrans
<1>7. /\ DOMAIN e.recipients = {1} => Agree(P, Merge(C, OwnHeader(e, 1)), k)
      /\ DOMAIN e.recipients # {1} => Agree(P, C, k)
  BY Zenon, ProtectedAgrees
<1>8. h = MergePtr(G, o.recipients[i].header)
  BY Zenon DEF RecipientHeaders
<1>9. Intended(e, i) = Override(C, R)
  BY Zenon DEF Intended
<1>10. Agree(Merge(C, R), Override(C, R), k)
  BY Zenon, <1>1, AgreeDisjoint
<1>11. HasRecipients(o.recipients, e, names)
  BY Zenon DEF ObjFrom
<1> HIDE DEF P, C, G, h
<1>12. CASE DOMAIN e.recipients = {1}
  <2>1. i = 1 /\ Small(o.recipients[i].header, names)
    BY <1>11, <1>12 DEF HasRecipients
  <2>2. Agree(P, Merge(C, R), k)
    BY Zenon, <1>7, <1>12, <2>1
  <2>3. Agree(h, G, k)
    BY Zenon, <1>8, <2>1, AgreeSmall
  <2>4. Agree(G, Merge(C, R), k)
    BY Zenon, <1>6, <2>2, AgreeTrans
  <2>5. Agree(h, Override(C, R), k)
    BY Zenon, <1>10, <2>3, <2>4, AgreeTrans
  <2>6. k \notin DOMAIN R => Agree(G, C, k)
    BY Zenon, <2>4, AgreeWithout, AgreeTrans
  <2> QED
    BY Zenon, <1>2, <1>9, <2>5, <2>6 DEF h, G, C
<1>13. CASE DOMAIN e.recipients # {1}
  <2>1. i \in DOMAIN o.recipients /\ o.recipients[i].header = <<R>>
    BY Zenon, <1>11, <1>13 DEF HasRecipients
  <2>2. Agree(G, C, k)
    BY Zenon, <1>6, <1>7, <1>13, AgreeTrans
  <2>3. h = Merge(G, R)
    BY Zenon, <1>8, <2>1, MergeHeader
  <2>4. Agree(h, Merge(C, R), k)
    BY Zenon, <2>2, <2>3, AgreeMerged
  <2>5. Agree(h, Override(C, R), k)
    BY Zenon, <1>10, <2>4, AgreeTrans
  <2> QED
    BY Zenon, <1>9, <2>2, <2>5 DEF h, G, C
<1> QED
  BY Zenon, <1>12, <1>13

\* The joined headers have the types of their parameters.
LEMMA CarriedSanitary ==
    ASSUME NEW e, IsSeq(e.recipients), Ready(e), SanitizeOK(e.extra),
           NEW parts, NEW names, NEW o, ObjFrom(o, e, parts, names),
           NEW i \in DOMAIN e.recipients
    PROVE  SanitizeOK(GlobalHeaders(o)) /\ SanitizeOK(RecipientHeaders(o, o.recipients[i]))
<1> DEFINE P == OwnProtected(e)
           C == Common(e)
<1>t. DOMAIN TypedKeys = {"alg", "kid", "nonce", "jwk"} /\ TypedKeys["alg"] = "str" /\ TypedKeys["kid"] = "str"
  BY DEF TypedKeys
<1>k. \A s : Kind(Str(s)) = "str"
  BY DEF Kind, Str
<1>1. \A j \in DOMAIN e.recipients : SanitizeOK(OwnHeader(e, j))
  <2> SUFFICES ASSUME NEW j \in DOMAIN e.recipients PROVE SanitizeOK(OwnHeader(e, j))
    BY Zenon
  <2> DEFINE h == OwnHeader(e, j)
             info == e.recipients[j]
  <2>1. Encryptable(info)
    BY Zenon DEF Ready
  <2>2. /\ h["alg"] = Str(info.keyAlg) /\ ("kid" \in DOMAIN h => h["kid"] = Str(info.keyID))
        /\ DOMAIN h \subseteq {"alg", "kid", "epk", "iv", "tag", "p2c", "p2s"}
    BY ZenonT(30), <2>1, OwnHeaderDomain
  <2>3. \A k \in DOMAIN h \cap DOMAIN TypedKeys : k \in {"alg", "kid"} /\ TypedKeys[k] = "str"
    BY Zenon, <1>t, <2>2
  <2> HIDE DEF h
  <2>4. \A k \in DOMAIN h \cap DOMAIN TypedKeys : Kind(h[k]) = "str"
    BY Zenon, <1>k, <2>2, <2>3
  <2> QED
    BY Zenon, <2>3, <2>4 DEF SanitizeOK, h
<1>2. SanitizeOK(C)
  <2>1. DOMAIN C \cap DOMAIN TypedKeys = {}
    BY Zenon, <1>t, CommonIs
  <2> QED
    BY Zenon, <2>1 DEF SanitizeOK
<1>3. SanitizeOK(EmptyHeader) /\ \A z : SanitizeOK([zip |-> Str(z)])
  <2>1. DOMAIN EmptyHeader \cap DOMAIN TypedKeys = {}
    BY Zenon DEF EmptyHeader
  <2>2. \A z : DOMAIN [zip |-> Str(z)] \cap DOMAIN TypedKeys = {}
    BY <1>t
  <2> QED
    BY Zenon, <2>1, <2>2 DEF SanitizeOK
<1>4. SanitizeOK(P)
  <2> DEFINE rs == [j \in DOMAIN e.recipients |-> OwnInfo(e, j)]
             all == IF Len(rs) = 1 THEN MergePtr(C, rs[1].header) ELSE C
             zip == IF e.zip = "" THEN EmptyHeader ELSE [zip |-> Str(e.zip)]
  <2>1. P = Override(Override(all, zip), e.extra)
    BY Zenon DEF OwnProtected, ProtectedFor, Common
  <2>2. SanitizeOK(zip)
    BY Zenon, <1>3
  <2>3. SanitizeOK(all)
    <3>1. CASE Len(rs) = 1
      <4>1. IsSeq(rs) /\ DOMAIN rs = DOMAIN e.recipients
        BY MapIsSeq
      <4>2. 1 \in DOMAIN e.recipients
        <5> HIDE DEF rs
        <5> QED
          BY Zenon, <3>1, <4>1, Indices
      <4>3. rs[1].header = <<OwnHeader(e, 1)>>
        BY Zenon, <4>2, OwnHeaderIs
      <4>4. rs[1].header[1] = OwnHeader(e, 1)
        BY <4>3
      <4> HIDE DEF rs, C
      <4>5. SanitizeOK(MergePtr(C, rs[1].header))
        BY Zenon, <1>1, <1>2, <4>2, <4>4, MergedSanitary
      <4> QED
        BY Zenon, <3>1, <4>5
    <3>2. CASE Len(rs) # 1
      BY Zenon, <1>2, <3>2
    <3> QED
      BY Zenon, <3>1, <3>2
  <2> HIDE DEF all, zip, P
  <2> QED
    BY Zenon, <2>1, <2>2, <2>3, OverrideSanitary
<1>5. Small(o.unprotected, names) /\ o.protected = <<P>> /\ HasRecipients(o.recipients, e, names)
  BY Zenon DEF ObjFrom
<1> HIDE DEF P
<1>6. o.protected[1] = P
  BY <1>5
<1>7. SanitizeOK(MergePtr(EmptyHeader, o.protected))
  BY Zenon, <1>3, <1>4, <1>6, MergedSanitary
<1>8. SanitizeOK(GlobalHeaders(o))
  BY Zenon, <1>5, <1>7, MergedSanitary DEF GlobalHeaders, Small
<1>9. o.recipients[i].header # NoHeader => SanitizeOK(o.recipients[i].header[1])
  <2>1. CASE DOMAIN e.recipients = {1}
    BY Zenon, <1>5, <2>1 DEF HasRecipients, Small
  <2>2. CASE DOMAIN e.recipients # {1}
    <3>1. o.recipients[i].header = <<OwnHeader(e, i)>>
      BY Zenon, <1>5, <2>2 DEF HasRecipients
    <3>2. o.recipients[i].header[1] = OwnHeader(e, i)
      BY <3>1
    <3> QED
      BY Zenon, <1>1, <3>2
  <2> QED
    BY Zenon, <2>1, <2>2
<1> QED
  BY Zenon, <1>8, <1>9, MergedSanitary DEF RecipientHeaders

(***************************************************************************)
(* What Encrypt conveys.                                                   *)
(***************************************************************************)
\* The names of the algorithms and the kinds of keys are apart.
LEMMA AlgsApart ==
    /\ \A type \in Symmetric : type \notin {"rsa", "ec", "opaque"}
    /\ DIRECT \notin GcmKw \cup Kw \cup Pbes2Alg \cup {"ECDH_ES"} \cup DOMAIN EcdhKw
    /\ \A alg \in GcmKw : alg \notin Kw \cup Pbes2Alg \cup {DIRECT, "ECDH_ES"} \cup DOMAIN EcdhKw
    /\ \A alg \in Kw : alg \notin GcmKw \cup Pbes2Alg \cup {DIRECT, "ECDH_ES"} \cup DOMAIN EcdhKw
    /\ \A alg \in Pbes2Alg : alg \notin GcmKw \cup Kw \cup {DIRECT, "ECDH_ES"} \cup DOMAIN EcdhKw
    /\ \A alg \in DOMAIN EcdhKw : alg \notin GcmKw \cup Kw \cup Pbes2Alg \cup {DIRECT, "ECDH_ES"}
BY DEF Symmetric, DIRECT, GcmKw, Kw, Pbes2Alg, EcdhKw

\* The limits on a recipient: the iteration count that Decrypt takes, and a modulus of
\* whole octets for RSA1_5.
Suits(r) ==
    /\ r.key.size \in Nat /\ r.p2c \in Int
    /\ r.alg \in Pbes2Alg => r.p2c <= maxP2C
    /\ r.alg = "RSA1_5" => r.key.size % 8 = 0

\* addRecipient and encryptKey leave one of these for a content key made at random.
LEMMA AddedKinds ==
    ASSUME NEW r, AddRecipientOK(r)
    PROVE  \/ r.key.type = "opaque"
           \/ r.key.type = "rsa" /\ r.alg \in RsaAlg
           \/ r.key.type = "ec" /\ r.alg \in DOMAIN EcdhKw
           \/ r.key.type \in Symmetric /\ r.alg \in GcmKw \cup Kw \cup Pbes2Alg
<1>1. r.alg \notin {DIRECT, "ECDH_ES"} /\ MakeJWERecipientOK(r)
  BY DEF AddRecipientOK
<1>2. CASE r.key.type = "ec"
  <2>1. r.alg \in AlgsOf("ec")
    BY Zenon, <1>1, <1>2 DEF MakeJWERecipientOK, ECDHRecipientOK
  <2> QED
    BY Zenon, <1>1, <1>2, <2>1 DEF AlgsOf, Symmetric
<1>3. CASE r.key.type \notin {"opaque", "ec"}
  <2>1. r.alg \in AlgsOf(r.key.type)
    BY Zenon, <1>1, <1>3 DEF MakeJWERecipientOK
  <2>2. \/ r.key.type \in Symmetric /\ r.alg \in {DIRECT} \cup GcmKw \cup Kw \cup Pbes2Alg
        \/ r.key.type = "rsa" /\ r.alg \in RsaAlg
    BY <1>3, <2>1 DEF AlgsOf
  <2> QED
    BY Zenon, <1>1, <2>2
<1> QED
  BY Zenon, <1>2, <1>3

\* The content key has the size that the content cipher asks for.
LEMMA GenKeySize ==
    ASSUME NEW e, NEW conf, MadeOf(e, conf)
    PROVE  SizeOf(GenKey(e)) = ContentEncryption[e.enc]
<1>1. CASE e.gen = "static"
  <2>1. GenKey(e) = <<"key", e.recipients[1].key.id, e.recipients[1].key.size>>
    BY Zenon, <1>1 DEF GenKey, KeyBytes
  <2>2. e.recipients[1].key.size = ContentEncryption[e.enc]
    <3>1. /\ e.recipients[1] = KeyInfo(conf.recipients[1]) /\ e.enc = conf.enc
          /\ conf.recipients[1].key.size = ContentEncryption[conf.enc]
      BY <1>1 DEF MadeOf
    <3>2. KeyInfo(conf.recipients[1]).key = conf.recipients[1].key
      BY Zenon DEF KeyInfo
    <3> QED
      BY Zenon, <3>1, <3>2
  <2> QED
    BY <2>1, <2>2 DEF SizeOf
<1>2. CASE e.gen = "ec"
  <2> DEFINE key == e.recipients[1].key
  <2>1. GenKey(e) = DeriveECDHES(e.enc, "", "", key.id, Epk(key).id, ContentEncryption[e.enc])
    BY Zenon, <1>2 DEF GenKey
  <2>2. \A a, u, v, b, c, z : SizeOf(DeriveECDHES(a, u, v, b, c, z)) = z
    BY Zenon DEF SizeOf, DeriveECDHES
  <2>3. \A u : GenKey(e) = DeriveECDHES(e.enc, u, u, key.id, Epk(key).id, ContentEncryption[e.enc]) =>
                SizeOf(GenKey(e)) = ContentEncryption[e.enc]
    BY <2>2
  <2> QED
    BY Zenon, <2>1, <2>3
<1>3. CASE e.gen \notin {"static", "ec"}
  <2>1. GenKey(e) = <<"random", ContentEncryption[e.enc]>>
    BY Zenon, <1>3 DEF GenKey, RandomKey
  <2> QED
    BY <2>1 DEF SizeOf
<1> QED
  BY Zenon, <1>1, <1>2, <1>3

\* What the headers of a recipient say, when they are the ones Encrypt meant.
LEMMA IntendedReads ==
    ASSUME NEW e, NEW conf, MadeOf(e, conf), NEW i \in DOMAIN e.recipients,
           Encryptable(e.recipients[i]), NEW h,
           \A k \in {"alg", "epk", "apu", "apv", "iv", "tag", "p2c", "p2s"} : Agree(h, Intended(e, i), k)
    PROVE  /\ GetString(h, "alg") = e.recipients[i].keyAlg
           /\ \A k \in {"epk", "iv", "tag", "p2c", "p2s"} :
                 k \in DOMAIN OwnHeader(e, i) => k \in DOMAIN h /\ h[k] = OwnHeader(e, i)[k]
           /\ e.gen = "ec" => "epk" \in DOMAIN h /\ h["epk"] = JwkOf(Epk(e.recipients[1].key))
           /\ "apu" \notin DOMAIN h /\ "apv" \notin DOMAIN h
<1> DEFINE R == OwnHeader(e, i)
           C == Common(e)
           g == Intended(e, i)
<1>1. /\ "alg" \in DOMAIN R /\ R["alg"] = Str(e.recipients[i].keyAlg)
      /\ DOMAIN R \subseteq {"alg", "kid", "epk", "iv", "tag", "p2c", "p2s"}
  BY ZenonT(30), OwnHeaderDomain
<1>2. /\ DOMAIN C \subseteq {"enc", "epk"} /\ ("epk" \in DOMAIN C <=> e.gen = "ec")
      /\ e.gen = "ec" => C["epk"] = JwkOf(Epk(e.recipients[1].key))
  BY CommonIs
<1>3. "epk" \notin DOMAIN C \/ "epk" \notin DOMAIN R
  BY OwnApart
<1>4. DOMAIN g = DOMAIN C \cup DOMAIN R /\ \A k \in DOMAIN g : g[k] = IF k \in DOMAIN R THEN R[k] ELSE C[k]
  BY Zenon DEF Intended, Override
<1> HIDE DEF R, C, g
<1>5. \A k \in {"alg", "epk", "apu", "apv", "iv", "tag", "p2c", "p2s"} :
         (k \in DOMAIN h <=> k \in DOMAIN g) /\ (k \in DOMAIN g => h[k] = g[k])
  BY Zenon DEF Agree, g
<1>6. "alg" \in DOMAIN h /\ h["alg"] = Str(e.recipients[i].keyAlg)
  BY Zenon, <1>1, <1>4, <1>5
<1>7. GetString(h, "alg") = e.recipients[i].keyAlg
  <2>1. \A s : Kind(Str(s)) = "str" /\ Value(Str(s)) = s
    BY Zenon DEF Str, Kind, Value
  <2> QED
    BY Zenon, <1>6, <2>1 DEF GetString
<1>8. \A k \in {"epk", "iv", "tag", "p2c", "p2s"} : k \in DOMAIN R => k \in DOMAIN h /\ h[k] = R[k]
  BY Zenon, <1>4, <1>5
<1>9. e.gen = "ec" => "epk" \in DOMAIN h /\ h["epk"] = JwkOf(Epk(e.recipients[1].key))
  BY Zenon, <1>2, <1>3, <1>4, <1>5
<1>10. "apu" \notin DOMAIN h /\ "apv" \notin DOMAIN h
  BY <1>1, <1>2, <1>4, <1>5
<1> QED
  BY Zenon, <1>7, <1>8, <1>9, <1>10 DEF R

\* What Encrypt makes for a recipient conveys the content key to it.
LEMMA OwnConveys ==
    ASSUME NEW e, NEW conf, MadeOf(e, conf), NEW i \in DOMAIN e.recipients,
           EncryptKeyOK(e.recipients[i]), Encryptable(e.recipients[i]), Suits(conf.recipients[i]), NEW h,
           \A k \in {"alg", "epk", "apu", "apv", "iv", "tag", "p2c", "p2s"} : Agree(h, Intended(e, i), k)
    PROVE  Conveys(GetString(h, "alg"), conf.recipients[i].key, h, OwnInfo(e, i).encryptedKey,
                   GenKey(e), e.enc)
<1> DEFINE r == conf.recipients[i]
           key == r.key
           info == e.recipients[i]
           cek == GenKey(e)
           ek == OwnInfo(e, i).encryptedKey
           alg == GetString(h, "alg")
           R == OwnHeader(e, i)
           agreed(algID, size) ==
               DeriveECDHES(algID, GetBuf(h, "apu"), GetBuf(h, "apv"), key.id, Value(h["epk"]).id, size)
           agrees ==
               /\ Present(h, "epk") /\ Kind(h["epk"]) = "jwk" /\ Value(h["epk"]).curve = key.curve
               /\ BufOK(h, "apu") /\ BufOK(h, "apv")
<1>1. info = KeyInfo(r) /\ i \in DOMAIN conf.recipients
  BY Zenon DEF MadeOf
<1>2. info.key = key /\ info.keyAlg = r.alg /\ info.p2c = r.p2c
  <2>1. \A x : KeyInfo(x).key = x.key /\ KeyInfo(x).keyAlg = x.alg /\ KeyInfo(x).p2c = x.p2c
    BY Zenon DEF KeyInfo
  <2> QED
    BY Zenon, <1>1, <2>1
<1>3. ek = EncryptKey(info, cek).encryptedKey
  BY Zenon, OwnHeaderIs
<1>4. /\ alg = r.alg /\ "apu" \notin DOMAIN h /\ "apv" \notin DOMAIN h
      /\ \A k \in {"epk", "iv", "tag", "p2c", "p2s"} : k \in DOMAIN R => k \in DOMAIN h /\ h[k] = R[k]
      /\ e.gen = "ec" => "epk" \in DOMAIN h /\ h["epk"] = JwkOf(Epk(e.recipients[1].key))
  BY <1>2, IntendedReads
<1>5. /\ key.type = "ec" /\ r.alg \in DOMAIN EcdhKw => "epk" \in DOMAIN R /\ R["epk"] = JwkOf(Epk(key))
      /\ key.type \in Symmetric /\ r.alg \in GcmKw =>
            /\ "iv" \in DOMAIN R /\ R["iv"] = GcmIV(key)
            /\ "tag" \in DOMAIN R /\ R["tag"] = GcmTag(key, cek)
      /\ key.type \in Symmetric /\ r.alg \in Pbes2Alg =>
            /\ "p2c" \in DOMAIN R /\ R["p2c"] = Num(Count(info))
            /\ "p2s" \in DOMAIN R /\ R["p2s"] = Buf(Salt(info))
  <2>1. /\ info.key.type = "ec" /\ info.keyAlg \in DOMAIN EcdhKw =>
              "epk" \in DOMAIN R /\ R["epk"] = JwkOf(Epk(info.key))
        /\ info.key.type \in Symmetric /\ info.keyAlg \in GcmKw =>
              /\ "iv" \in DOMAIN R /\ R["iv"] = GcmIV(info.key)
              /\ "tag" \in DOMAIN R /\ R["tag"] = GcmTag(info.key, cek)
        /\ info.key.type \in Symmetric /\ info.keyAlg \in Pbes2Alg =>
              /\ "p2c" \in DOMAIN R /\ R["p2c"] = Num(Count(info))
              /\ "p2s" \in DOMAIN R /\ R["p2s"] = Buf(Salt(info))
    BY ZenonT(30), OwnHeaderDomain
  <2> HIDE DEF info, key, r
  <2> QED
    BY Zenon, <1>2, <2>1
<1>6. /\ \E k \in {1} : e.gen = "static" => i = k /\ r.alg = DIRECT /\ key.type = "oct"
      /\ \E k \in {1} : e.gen = "ec" => i = k /\ r.alg = "ECDH_ES" /\ key.type = "ec"
      /\ e.gen \in {"static", "ec", "random"}
      /\ e.gen = "random" => AddRecipientOK(r)
  BY <1>1 DEF MadeOf
<1> HIDE DEF r, key, info, cek, ek, R
<1>b. GetBuf(h, "apu") = "" /\ GetBuf(h, "apv") = "" /\ BufOK(h, "apu") /\ BufOK(h, "apv")
  BY Zenon, <1>4 DEF GetBuf, BufOK, Present
<1>j. \A k, x : k \in DOMAIN h /\ h[k] = JwkOf(Epk(x)) =>
         /\ Present(h, k) /\ Kind(h[k]) = "jwk" /\ Value(h[k]).curve = x.curve
         /\ Value(h[k]).id = Epk(x).id
  BY DEF Present, Kind, Value, JwkOf, Epk
<1>7. CASE e.gen = "static"
  <2>1. alg = DIRECT /\ key.type \in Symmetric /\ i = 1
    BY <1>4, <1>6, <1>7 DEF Symmetric
  <2>2. cek = KeyBytes(key)
    BY Zenon, <1>2, <1>7, <2>1 DEF GenKey, cek, info
  <2> QED
    BY Zenon, <2>1, <2>2 DEF Conveys, key, r, cek
<1>8. CASE e.gen = "ec"
  <2>1. alg = "ECDH_ES" /\ key.type = "ec" /\ i = 1
    BY Zenon, <1>4, <1>6, <1>8
  <2>2. e.recipients[1].key = key
    BY Zenon, <1>2, <2>1 DEF info
  <2>3. Present(h, "epk") /\ Kind(h["epk"]) = "jwk" /\ Value(h["epk"]).curve = key.curve
        /\ Value(h["epk"]).id = Epk(key).id
    BY Zenon, <1>4, <1>8, <1>j, <2>2
  <2>4. cek = DeriveECDHES(e.enc, "", "", key.id, Epk(key).id, ContentEncryption[e.enc])
    BY Zenon, <1>8, <2>2 DEF GenKey, cek
  <2>5. cek = agreed(e.enc, ContentEncryption[e.enc]) /\ agrees
    BY Zenon, <1>b, <2>3, <2>4
  <2> QED
    BY Zenon, <2>1, <2>5 DEF Conveys, key, r, cek
<1>9. CASE e.gen = "random" /\ key.type = "opaque"
  <2>1. ek = <<"opaque", r.alg, key.id, cek>>
    BY Zenon, <1>2, <1>3, <1>9, AlgsApart DEF EncryptKey
  <2> QED
    BY Zenon, <1>4, <1>9, <2>1 DEF Conveys, key, r, cek, ek
<1>10. CASE e.gen = "random" /\ key.type = "rsa" /\ r.alg \in RsaAlg
  <2>1. ek = RsaEncrypt(key, r.alg, cek)
    BY Zenon, <1>2, <1>3, <1>10, AlgsApart DEF EncryptKey
  <2>2. r.alg = "RSA1_5" => key.size \in Nat /\ key.size % 8 = 0
    BY DEF Suits, r, key
  <2> QED
    BY Zenon, <1>4, <1>10, <2>1, <2>2 DEF Conveys, key, r, cek, ek
<1>11. CASE e.gen = "random" /\ key.type = "ec" /\ r.alg \in DOMAIN EcdhKw
  <2>1. ek = Wrapped(DeriveECDHES(r.alg, "", "", key.id, Epk(key).id, EcdhKw[r.alg]), cek)
    BY Zenon, <1>2, <1>3, <1>11, AlgsApart DEF EncryptKey
  <2>2. "epk" \in DOMAIN h /\ h["epk"] = JwkOf(Epk(key))
    BY Zenon, <1>4, <1>5, <1>11
  <2>3. Present(h, "epk") /\ Kind(h["epk"]) = "jwk" /\ Value(h["epk"]).curve = key.curve
        /\ Value(h["epk"]).id = Epk(key).id
    BY Zenon, <1>j, <2>2
  <2>4. ek = Wrapped(agreed(alg, EcdhKw[alg]), cek) /\ agrees
    BY Zenon, <1>4, <1>b, <2>1, <2>3
  <2> QED
    BY Zenon, <1>4, <1>11, <2>4 DEF Conveys, key, r, cek, ek
<1>12. CASE e.gen = "random" /\ key.type \in Symmetric /\ r.alg \in GcmKw
  <2>1. ek = <<"gcm", KeyBytes(key), cek>>
    BY Zenon, <1>2, <1>3, <1>12, AlgsApart DEF EncryptKey
  <2>2. "iv" \in DOMAIN h /\ h["iv"] = GcmIV(key) /\ "tag" \in DOMAIN h /\ h["tag"] = GcmTag(key, cek)
    BY Zenon, <1>4, <1>5, <1>12
  <2>3. Present(h, "iv") /\ Present(h, "tag")
    BY <2>2 DEF Present, Kind, GcmIV, GcmTag, Buf
  <2>4. key.size \in AesSizes
    BY Zenon, <1>2, <1>12, AlgsApart DEF EncryptKeyOK, info
  <2> QED
    BY Zenon, <1>4, <1>12, <2>1, <2>2, <2>3, <2>4 DEF Conveys, key, r, cek, ek
<1>13. CASE e.gen = "random" /\ key.type \in Symmetric /\ r.alg \in Kw
  <2>1. ek = Wrapped(KeyBytes(key), cek)
    BY Zenon, <1>2, <1>3, <1>13, AlgsApart DEF EncryptKey
  <2>2. key.size \in AesSizes
    BY Zenon, <1>2, <1>13, AlgsApart DEF EncryptKeyOK, info
  <2> QED
    BY Zenon, <1>4, <1>13, <2>1, <2>2 DEF Conveys, key, r, cek, ek
<1>14. CASE e.gen = "random" /\ key.type \in Symmetric /\ r.alg \in Pbes2Alg
  <2>1. ek = Wrapped(Pbkdf2(key, r.alg, Salt(info), Count(info)), cek)
    BY ZenonT(30), <1>2, <1>3, <1>14, AlgsApart DEF EncryptKey
  <2>2. "p2c" \in DOMAIN h /\ h["p2c"] = Num(Count(info)) /\ "p2s" \in DOMAIN h /\ h["p2s"] = Buf(Salt(info))
    BY ZenonT(30), <1>4, <1>5, <1>14
  <2>3. Present(h, "p2c") /\ Kind(h["p2c"]) = "num" /\ Value(h["p2c"]) = Count(info)
    BY <2>2 DEF Present, Kind, Value, Num
  <2>4. Present(h, "p2s") /\ Kind(h["p2s"]) = "b64" /\ Value(h["p2s"]) = Salt(info)
    BY <2>2 DEF Present, Kind, Value, Buf
  <2>5. GetBuf(h, "p2s") = Salt(info)
    BY Zenon, <2>4 DEF GetBuf
  <2>6. Salt(info) # ""
    BY Zenon DEF Salt
  <2>7. Count(info) \in 1..maxP2C
    <3>1. r.p2c \in Int /\ r.p2c <= maxP2C
      BY Zenon, <1>14 DEF Suits, r
    <3>2. defaultP2C \in Nat /\ maxP2C \in Nat /\ 0 < defaultP2C /\ defaultP2C <= maxP2C
      BY SMT DEF defaultP2C, maxP2C
    <3>3. info.p2c = r.p2c
      BY Zenon, <1>2
    <3> QED
      BY SMT, <3>1, <3>2, <3>3 DEF Count
  <2> QED
    BY Zenon, <1>4, <1>14, <2>1, <2>3, <2>5, <2>6, <2>7 DEF Conveys, key, r, cek, ek
<1>15. e.gen = "random" =>
          \/ key.type = "opaque"
          \/ key.type = "rsa" /\ r.alg \in RsaAlg
          \/ key.type = "ec" /\ r.alg \in DOMAIN EcdhKw
          \/ key.type \in Symmetric /\ r.alg \in GcmKw \cup Kw \cup Pbes2Alg
  BY Zenon, <1>6, AddedKinds DEF key
<1> QED
  BY Zenon, <1>6, <1>7, <1>8, <1>9, <1>10, <1>11, <1>12, <1>13, <1>14, <1>15 DEF key, r, cek, ek

(***************************************************************************)
(* Opening what Encrypt made.                                              *)
(***************************************************************************)
OwnParts(e, p, aad) ==
    Seal(e.enc, GenKey(e), AuthData(Absent, <<OwnProtected(e)>>, aad), Sealed(e.zip, p))

PlainOf(p) == Sealed("", p)

\* An encrypter of this configuration that encrypts without an error.
Encrypts(e, conf) ==
    /\ conf \in EncrypterConf
    /\ IsSeq(e.recipients) /\ e.recipients # <<>>
    /\ MadeOf(e, conf) /\ Ready(e) /\ EncryptOK(e)

\* No extra or added header names a parameter that Decrypt reads.
Plainly(e, names) == (DOMAIN e.extra \cup names) \cap ReadByDecrypt = {} /\ SanitizeOK(e.extra)

\* What EncryptWithAuthData returns.
LEMMA EncryptedFrom ==
    ASSUME NEW e, IsSeq(e.recipients), e.recipients # <<>>, NEW p, NEW aad
    PROVE  LET o == EncryptObject(e, p, aad)
           IN  ObjFrom(o, e, OwnParts(e, p, aad), {}) /\ o.aad = aad
<1> DEFINE o == EncryptObject(e, p, aad)
           rs == [i \in DOMAIN e.recipients |-> OwnInfo(e, i)]
           P == OwnProtected(e)
           one == <<[rs[1] EXCEPT !.header = NoHeader]>>
<1>1. /\ o.protected = <<P>> /\ o.unprotected = NoHeader /\ o.aad = aad /\ o.original = Absent
      /\ o.parts = OwnParts(e, p, aad)
      /\ o.recipients = IF Len(rs) = 1 THEN one ELSE rs
  BY Zenon DEF EncryptObject, OwnProtected, OwnParts, OwnInfo
<1>2. IsSeq(rs) /\ Len(rs) = Len(e.recipients) /\ DOMAIN rs = DOMAIN e.recipients
  BY Zenon, MapIsSeq
<1>3. \A i : /\ OwnInfo(e, i).header = <<OwnHeader(e, i)>>
             /\ OwnInfo(e, i) = [header |-> OwnInfo(e, i).header, encryptedKey |-> OwnInfo(e, i).encryptedKey]
  BY Zenon, OwnHeaderIs DEF OwnInfo, RecipientInfo
<1>4. HasRecipients(o.recipients, e, {})
  <2>1. CASE DOMAIN e.recipients = {1}
    <3>1. Len(rs) = 1 /\ rs[1] = OwnInfo(e, 1)
      BY Zenon, <1>2, <2>1, OneIndex
    <3> DEFINE x == [rs[1] EXCEPT !.header = NoHeader]
    <3>2. x.header = NoHeader /\ x.encryptedKey = OwnInfo(e, 1).encryptedKey
      BY <1>3, <3>1
    <3> HIDE DEF x, rs, o
    <3>3. o.recipients = <<x>>
      BY Zenon, <1>1, <3>1 DEF x
    <3>4. IsSeq(o.recipients) /\ DOMAIN o.recipients = {1} /\ o.recipients[1] = x
      BY Zenon, <3>3, ShortSeqs
    <3> QED
      BY Zenon, <2>1, <3>2, <3>4 DEF HasRecipients, Small
  <2>2. CASE DOMAIN e.recipients # {1}
    <3>1. o.recipients = rs
      BY Zenon, <1>1, <1>2, <2>2, OneIndex
    <3>2. \A i \in DOMAIN rs : rs[i] = OwnInfo(e, i)
      BY Zenon
    <3> HIDE DEF rs, o
    <3> QED
      BY Zenon, <1>2, <1>3, <2>2, <3>1, <3>2 DEF HasRecipients
  <2> QED
    BY Zenon, <2>1, <2>2
<1> HIDE DEF o
<1>5. Small(o.unprotected, {})
  BY Zenon, <1>1 DEF Small
<1> QED
  BY Zenon, <1>1, <1>4, <1>5 DEF ObjFrom, o

\* The content that Encrypt compressed is decompressed.
LEMMA OwnDecompresses ==
    ASSUME NEW e, NEW conf, Encrypts(e, conf), NEW p, conf.zip = "DEF" => Inflatable(p),
           NEW names, Plainly(e, names), NEW o, o.protected = <<OwnProtected(e)>>
    PROVE  Decompress(o, Sealed(e.zip, p)) = <<PlainOf(p)>>
<1> DEFINE P == OwnProtected(e)
           pt == Sealed(e.zip, p)
           comp == IF o.protected = NoHeader THEN "" ELSE GetString(o.protected[1], "zip")
<1>1. "zip" \notin DOMAIN e.extra
  BY DEF Plainly, ReadByDecrypt
<1>2. IsSeq(e.recipients) /\ \A i \in DOMAIN e.recipients : Encryptable(e.recipients[i])
  BY Zenon DEF Encrypts, Ready
<1>3. DOMAIN e.recipients = {1} => "zip" \notin DOMAIN OwnHeader(e, 1)
  <2>1. DOMAIN e.recipients = {1} =>
           DOMAIN OwnHeader(e, 1) \subseteq {"alg", "kid", "epk", "iv", "tag", "p2c", "p2s"}
    BY <1>2, OwnHeaderDomain
  <2> QED
    BY ZenonT(30), <2>1
<1>4. /\ e.zip # "" => "zip" \in DOMAIN P /\ P["zip"] = Str(e.zip)
      /\ e.zip = "" => "zip" \notin DOMAIN P
  BY Zenon, <1>1, <1>2, <1>3, ProtectedAgrees
<1>5. \A s : Kind(Str(s)) = "str" /\ Value(Str(s)) = s
  BY DEF Str, Kind, Value
<1>6. GetString(P, "zip") = e.zip
  <2> HIDE DEF P
  <2> QED
    BY Zenon, <1>4, <1>5 DEF GetString
<1>7. <<P>> # NoHeader /\ <<P>>[1] = P
  BY DEF NoHeader
<1>8. comp = e.zip
  BY Zenon, <1>6, <1>7
<1>9. Decompress(o, pt) = CASE comp = "" -> <<pt>> [] comp = "DEF" -> Inflate(pt) [] OTHER -> <<>>
  BY Zenon DEF Decompress
<1>10. pt[1] = e.zip /\ pt[2] = p
  BY Zenon DEF Sealed
<1>11. e.zip = conf.zip /\ e.zip \in {"", "DEF"}
  BY Zenon DEF Encrypts, MadeOf, EncryptOK
<1> HIDE DEF comp
<1>12. CASE e.zip = ""
  BY Zenon, <1>8, <1>9, <1>12 DEF PlainOf
<1>13. CASE e.zip = "DEF"
  <2>1. Inflate(pt) = <<PlainOf(p)>>
    BY Zenon, <1>10, <1>11, <1>13 DEF Inflate, PlainOf
  <2> QED
    BY Zenon, <1>8, <1>9, <1>13, <2>1
<1> QED
  BY Zenon, <1>11, <1>12, <1>13

\* A place that a key opens was made for that key.
LEMMA OwnIsMine ==
    ASSUME NEW e, NEW conf, Encrypts(e, conf), NEW p, NEW aad, NEW names, NEW o,
           ObjFrom(o, e, OwnParts(e, p, aad), names),
           NEW key, NewDecrypterOK(key), NEW g \in DOMAIN o.recipients, OpenWith(o, key, g) # <<>>
    PROVE  g \in DOMAIN conf.recipients /\ conf.recipients[g].key.id = key.id
<1> DEFINE own == EncryptObject(e, p, aad)
           keys == [i \in DOMAIN e.recipients |-> e.recipients[i].key.id]
           m == [plain |-> PlainOf(p), aad |-> aad, header |-> own.protected, keys |-> keys]
<1>1. IsSeq(e.recipients) /\ e.recipients # <<>> /\ Ready(e) /\ MadeOf(e, conf)
  BY Zenon DEF Encrypts
<1>2. Meant(m, p, aad, own.protected, e.recipients)
  BY Zenon DEF Meant, PlainOf
<1>3. DOMAIN o.recipients = DOMAIN e.recipients /\ HasRecipients(o.recipients, e, names)
  BY Zenon DEF ObjFrom, HasRecipients
<1>4. m.keys[g] = e.recipients[g].key.id
  BY Zenon, <1>3
<1> HIDE DEF m
<1>5. Holds(own.recipients, own.parts, m)
  BY Zenon, <1>1, <1>2, EncryptHolds
<1>6. ObjFrom(own, e, OwnParts(e, p, aad), {})
  BY Zenon, <1>1, EncryptedFrom
<1> HIDE DEF own
<1>7. HasRecipients(own.recipients, e, {}) /\ own.parts = o.parts
  BY Zenon, <1>6 DEF ObjFrom
<1>8. \A i \in DOMAIN o.recipients :
         i \in DOMAIN own.recipients /\ o.recipients[i].encryptedKey = own.recipients[i].encryptedKey
  BY Zenon, <1>3, <1>7 DEF HasRecipients
<1>9. Holds(o.recipients, o.parts, m)
  BY Zenon, <1>5, <1>7, <1>8, HoldsSameKeys
<1>10. Consistent(o)
  <2> DEFINE P == OwnProtected(e)
  <2>1. o.protected = <<P>> /\ o.original \in {Absent, Canonical(P)}
    BY Zenon DEF ObjFrom
  <2>2. HeaderPtr(Canonical(P)) = <<P>>
    BY Zenon DEF HeaderPtr, Canonical, Kind
  <2>3. <<P>>[1] = P
    BY Zenon
  <2> HIDE DEF P
  <2> QED
    BY Zenon, <2>1, <2>2, <2>3 DEF Consistent
<1>11. m.keys[g] = key.id
  BY ZenonT(30), <1>9, <1>10, OpenedIsMine
<1>12. g \in DOMAIN conf.recipients /\ e.recipients[g] = KeyInfo(conf.recipients[g])
  BY Zenon, <1>1, <1>3 DEF MadeOf
<1>13. \A x : KeyInfo(x).key = x.key
  BY Zenon DEF KeyInfo
<1> QED
  BY Zenon, <1>4, <1>11, <1>12, <1>13

\* What the headers of an object that Encrypt made say to Decrypt.
LEMMA OwnReads ==
    ASSUME NEW e, NEW conf, Encrypts(e, conf), NEW parts, NEW names, Plainly(e, names),
           NEW o, ObjFrom(o, e, parts, names), NEW i \in DOMAIN conf.recipients
    PROVE  LET h == RecipientHeaders(o, o.recipients[i])
           IN  /\ EncOf(o) = conf.enc /\ GetString(h, "enc") = conf.enc
               /\ CheckNoCritical(GlobalHeaders(o))
               /\ GetString(h, "alg") = conf.recipients[i].alg
               /\ "kid" \notin DOMAIN e.extra \cup names => GetString(h, "kid") = KeyIDOf(conf.recipients[i])
               /\ SanitizeOK(GlobalHeaders(o)) /\ SanitizeOK(h)
               /\ \A k \in {"alg", "epk", "apu", "apv", "iv", "tag", "p2c", "p2s"} :
                     Agree(h, Intended(e, i), k)
<1> DEFINE h == RecipientHeaders(o, o.recipients[i])
           r == conf.recipients[i]
<1>1. /\ IsSeq(e.recipients) /\ MadeOf(e, conf) /\ Ready(e) /\ i \in DOMAIN e.recipients
      /\ e.enc = conf.enc /\ e.recipients[i] = KeyInfo(r)
      /\ Encryptable(e.recipients[i])
  BY Zenon DEF Encrypts, MadeOf, Ready
<1>2. \A k : k # "zip" /\ k \notin DOMAIN e.extra /\ k \notin names =>
         /\ Agree(h, Intended(e, i), k)
         /\ k \notin {"alg", "kid", "epk", "iv", "tag", "p2c", "p2s"} => Agree(GlobalHeaders(o), Common(e), k)
  BY Zenon, <1>1, CarriedHeaders
<1>3. /\ \A k \in {"alg", "epk", "apu", "apv", "iv", "tag", "p2c", "p2s", "enc", "crit"} :
            k # "zip" /\ k \notin DOMAIN e.extra /\ k \notin names
      /\ \A k \in {"enc", "crit"} : k \notin {"alg", "kid", "epk", "iv", "tag", "p2c", "p2s"}
  BY Zenon DEF Plainly, ReadByDecrypt
<1>4. \A k \in {"alg", "epk", "apu", "apv", "iv", "tag", "p2c", "p2s", "enc"} : Agree(h, Intended(e, i), k)
  BY Zenon, <1>2, <1>3
<1>5. Agree(GlobalHeaders(o), Common(e), "enc") /\ Agree(GlobalHeaders(o), Common(e), "crit")
  BY Zenon, <1>2, <1>3
<1>6. /\ "enc" \in DOMAIN Common(e) /\ Common(e)["enc"] = Str(e.enc) /\ "crit" \notin DOMAIN Common(e)
  BY CommonIs
<1>s. \A s : Kind(Str(s)) = "str" /\ Value(Str(s)) = s
  BY DEF Str, Kind, Value
<1>7. GetString(Common(e), "enc") = conf.enc
  BY Zenon, <1>1, <1>6, <1>s DEF GetString
<1>8. EncOf(o) = conf.enc
  BY Zenon, <1>5, <1>7, AgreeReads DEF EncOf
<1>9. CheckNoCritical(GlobalHeaders(o))
  BY Zenon, <1>5, <1>6 DEF Agree, CheckNoCritical
<1> DEFINE R == OwnHeader(e, i)
<1>10. /\ DOMAIN R \subseteq {"alg", "kid", "epk", "iv", "tag", "p2c", "p2s"}
  BY Zenon, <1>1, OwnHeaderDomain
<1>11. /\ DOMAIN Intended(e, i) = DOMAIN Common(e) \cup DOMAIN R
       /\ \A k \in DOMAIN Intended(e, i) :
             Intended(e, i)[k] = IF k \in DOMAIN R THEN R[k] ELSE Common(e)[k]
  BY Zenon DEF Intended, Override
<1>12. GetString(h, "enc") = conf.enc
  <2>1. "enc" \in DOMAIN Intended(e, i) /\ Intended(e, i)["enc"] = Str(e.enc)
    BY Zenon, <1>6, <1>10, <1>11
  <2>2. GetString(Intended(e, i), "enc") = conf.enc
    BY Zenon, <1>1, <1>s, <2>1 DEF GetString
  <2> QED
    BY ZenonT(30), <1>4, <2>2, AgreeReads
<1>k. \A x : KeyInfo(x).keyAlg = x.alg /\ KeyInfo(x).keyID = KeyIDOf(x)
  BY Zenon DEF KeyInfo
<1>13. GetString(h, "alg") = r.alg
  <2> HIDE DEF h, r
  <2>1. GetString(h, "alg") = e.recipients[i].keyAlg
    BY <1>1, <1>4, IntendedReads
  <2> QED
    BY Zenon, <1>1, <1>k, <2>1
<1>14. "kid" \notin DOMAIN e.extra \cup names => GetString(h, "kid") = KeyIDOf(r)
  <2> SUFFICES ASSUME "kid" \notin DOMAIN e.extra \cup names PROVE GetString(h, "kid") = KeyIDOf(r)
    BY Zenon
  <2>1. Agree(h, Intended(e, i), "kid")
    BY <1>2
  <2>2. ("kid" \in DOMAIN R <=> e.recipients[i].keyID # "") /\ ("kid" \in DOMAIN R => R["kid"] = Str(e.recipients[i].keyID))
    BY Zenon, <1>1, OwnKid
  <2>3. e.recipients[i].keyID = KeyIDOf(r)
    BY Zenon, <1>1, <1>k
  <2>4. "kid" \notin DOMAIN Common(e)
    BY Zenon, CommonIs
  <2>5. ("kid" \in DOMAIN Intended(e, i) <=> "kid" \in DOMAIN R)
        /\ ("kid" \in DOMAIN R => Intended(e, i)["kid"] = R["kid"])
    BY Zenon, <1>11, <2>4
  <2> HIDE DEF R, r, h
  <2>6. GetString(Intended(e, i), "kid") = KeyIDOf(r)
    BY Zenon, <1>s, <2>2, <2>3, <2>5 DEF GetString
  <2> QED
    BY Zenon, <2>1, <2>6, AgreeReads
<1>15. SanitizeOK(GlobalHeaders(o)) /\ SanitizeOK(h)
  BY Zenon, <1>1, CarriedSanitary DEF Plainly
<1> HIDE DEF h, r
<1> QED
  BY Zenon, <1>4, <1>8, <1>9, <1>12, <1>13, <1>14, <1>15 DEF h, r

\* What Encrypt made opens with the key of each recipient.
LEMMA OwnOpens ==
    ASSUME NEW e, NEW conf, Encrypts(e, conf), NEW p, conf.zip = "DEF" => Inflatable(p), NEW aad,
           NEW names, Plainly(e, names), NEW o, ObjFrom(o, e, OwnParts(e, p, aad), names), o.aad = aad,
           NEW i \in DOMAIN conf.recipients, Suits(conf.recipients[i])
    PROVE  LET key == conf.recipients[i].key
           IN  /\ \E g \in DOMAIN conf.recipients :
                     /\ conf.recipients[g].key.id = key.id
                     /\ DecryptMulti(o, <<"key", key>>) =
                            Return("ok", g, Sanitized(RecipientHeaders(o, o.recipients[g])), PlainOf(p))
               /\ DOMAIN conf.recipients = {1} =>
                     \A vk : TryJWKS(vk, o.Header) = <<key>> => Decrypt(o, vk).outcome = "ok"
<1> DEFINE key == conf.recipients[i].key
           h == RecipientHeaders(o, o.recipients[i])
           cek == GenKey(e)
           pt == Sealed(e.zip, p)
<1>1. /\ MadeOf(e, conf) /\ i \in DOMAIN e.recipients
      /\ e.enc = conf.enc /\ conf.enc \in DOMAIN ContentEncryption
      /\ EncryptKeyOK(e.recipients[i]) /\ Encryptable(e.recipients[i])
      /\ DOMAIN e.recipients = DOMAIN conf.recipients
  BY Zenon DEF Encrypts, MadeOf, Ready, EncryptOK
<1>2. /\ EncOf(o) = conf.enc /\ CheckNoCritical(GlobalHeaders(o)) /\ SanitizeOK(h)
      /\ \A k \in {"alg", "epk", "apu", "apv", "iv", "tag", "p2c", "p2s"} : Agree(h, Intended(e, i), k)
  BY OwnReads
<1>3. HasRecipients(o.recipients, e, names) /\ o.protected = <<OwnProtected(e)>>
      /\ o.original \in {Absent, Canonical(OwnProtected(e))} /\ o.parts = OwnParts(e, p, aad)
  BY Zenon DEF ObjFrom
<1>4. /\ IsSeq(o.recipients) /\ DOMAIN o.recipients = DOMAIN conf.recipients
      /\ o.recipients[i].encryptedKey = OwnInfo(e, i).encryptedKey
  BY Zenon, <1>1, <1>3 DEF HasRecipients
<1> HIDE DEF h
<1>5. Conveys(GetString(h, "alg"), key, h, OwnInfo(e, i).encryptedKey, cek, e.enc)
  BY Zenon, <1>1, <1>2, OwnConveys
<1>6. SizeOf(cek) = ContentEncryption[e.enc]
  BY Zenon, <1>1, GenKeySize
<1>7. o.parts = Seal(conf.enc, cek, AuthData(o.original, o.protected, o.aad), pt)
  <2> DEFINE P == OwnProtected(e)
  <2>1. BytesOf(<<P>>) = Canonical(P) /\ Canonical(P) # Absent
    BY DEF BytesOf, NoHeader, Canonical, Absent
  <2>2. AuthData(o.original, o.protected, o.aad) = AuthData(Absent, <<P>>, aad)
    <3>1. o.protected = <<P>> /\ o.original \in {Absent, BytesOf(<<P>>)}
      BY Zenon, <1>3, <2>1
    <3> DEFINE given == IF o.original # Absent THEN o.original ELSE BytesOf(o.protected)
               sealed == IF Absent # Absent THEN Absent ELSE BytesOf(<<P>>)
    <3>2. given = sealed
      <4> HIDE DEF P
      <4> QED
        BY Zenon, <3>1
    <3>3. AuthData(o.original, o.protected, o.aad) =
             <<IF Kind(given) = "empty" THEN Absent ELSE given, IF o.aad = NilBytes THEN <<>> ELSE <<o.aad>>>>
      BY DEF AuthData
    <3>4. AuthData(Absent, <<P>>, aad) =
             <<IF Kind(sealed) = "empty" THEN Absent ELSE sealed, IF aad = NilBytes THEN <<>> ELSE <<aad>>>>
      BY Zenon DEF AuthData
    <3> HIDE DEF given, sealed
    <3> QED
      BY Zenon, <3>2, <3>3, <3>4
  <2> QED
    BY Zenon, <1>1, <1>3, <2>2 DEF OwnParts
<1>8. Decompress(o, pt) = <<PlainOf(p)>>
  BY Zenon, <1>3, OwnDecompresses
<1> DEFINE out == PlainOf(p)
<1>9. /\ NewDecrypterOK(key)
      /\ \E g \in DOMAIN o.recipients :
            /\ g <= i /\ OpenWith(o, key, g) # <<>>
            /\ SanitizeOK(RecipientHeaders(o, o.recipients[g])) =>
                  DecryptMulti(o, <<"key", key>>) =
                      Return("ok", g, Sanitized(RecipientHeaders(o, o.recipients[g])), out)
      /\ Len(o.recipients) = 1 /\ i = 1 =>
            \A vk : TryJWKS(vk, o.Header) = <<key>> => Decrypt(o, vk).outcome = "ok"
  <2>1. i \in DOMAIN o.recipients /\ EncOf(o) \in DOMAIN ContentEncryption
        /\ SizeOf(cek) = ContentEncryption[EncOf(o)]
    BY Zenon, <1>1, <1>2, <1>4, <1>6
  <2>2. Conveys(GetString(h, "alg"), key, h, o.recipients[i].encryptedKey, cek, EncOf(o))
    BY Zenon, <1>1, <1>2, <1>4, <1>5
  <2>3. o.parts = Seal(EncOf(o), cek, AuthData(o.original, o.protected, o.aad), pt)
    BY ZenonT(30), <1>2, <1>7
  <2>4. h = RecipientHeaders(o, o.recipients[i])
    BY Zenon DEF h
  <2> HIDE DEF pt, out, key, cek
  <2>5. Conveyed(o, i, h, key, cek, pt, out)
    BY Zenon, <1>2, <1>4, <1>8, <2>1, <2>2, <2>3, <2>4 DEF Conveyed, out
  <2>6. OpenedUpTo(o, i, key, out) /\ OpenedAlone(o, i, key)
    BY Zenon, <2>5, ConveyedOpens
  <2> QED
    BY Zenon, <2>6 DEF OpenedUpTo, OpenedAlone
<1>10. PICK g \in DOMAIN o.recipients :
         /\ OpenWith(o, key, g) # <<>>
         /\ SanitizeOK(RecipientHeaders(o, o.recipients[g])) =>
               DecryptMulti(o, <<"key", key>>) =
                   Return("ok", g, Sanitized(RecipientHeaders(o, o.recipients[g])), out)
  BY ZenonT(30), <1>9
<1>11. conf.recipients[g].key.id = key.id /\ g \in DOMAIN conf.recipients
  <2> HIDE DEF key
  <2> QED
    BY SMTT(20), <1>9, <1>10, OwnIsMine
<1>12. SanitizeOK(RecipientHeaders(o, o.recipients[g]))
  BY Zenon, <1>11, OwnReads
<1>13. DOMAIN conf.recipients = {1} => Len(o.recipients) = 1 /\ i = 1
  BY <1>4, OneIndex
<1> QED
  BY Zenon, <1>9, <1>10, <1>11, <1>12, <1>13

=============================================================================
