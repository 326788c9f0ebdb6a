----------------------------- MODULE JweObject ------------------------------
(***************************************************************************)
(* The operations of the JWE half of the library (crypter.go, jwe.go and   *)
(* the key algorithms of symmetric.go and asymmetric.go), each as an       *)
(* operator on the object or the message it is called with.  Module Jwe    *)
(* runs them.                                                              *)
(*                                                                         *)
(* Cryptography is symbolic.  A key that was not agreed on is a tuple that *)
(* says where it came from and ends in its size; an encrypted key is the   *)
(* tuple of its wrapping and the content key; a sealed content is the      *)
(* tuple of cipher family, key, authenticated data and plaintext.  A       *)
(* plaintext is a record [id, len, zlen] with its size before and after    *)
(* deflate.                                                                *)
(***************************************************************************)
EXTENDS JoseHeader, Integers

Buf(b) == <<"b64", b>>      \* a string that decodes as base64url
Num(n) == <<"num", n>>

AesSizes == {16, 24, 32}

\* getContentCipher: the key size in bytes; any other name has no cipher.
ContentEncryption ==
    [A128GCM |-> 16, A192GCM |-> 24, A256GCM |-> 32,
     A128CBC_HS256 |-> 32, A192CBC_HS384 |-> 48, A256CBC_HS512 |-> 64]

DIRECT == "dir"
GcmKw  == {"A128GCMKW", "A192GCMKW", "A256GCMKW"}
Kw     == {"A128KW", "A192KW", "A256KW"}
Pbes2Alg  == {"PBES2_HS256_A128KW", "PBES2_HS384_A192KW", "PBES2_HS512_A256KW"}
RsaAlg == {"RSA1_5", "RSA_OAEP", "RSA_OAEP_256"}
EcdhKw == [ECDH_ES_A128KW |-> 16, ECDH_ES_A192KW |-> 24, ECDH_ES_A256KW |-> 32]

\* A symmetric key is given as bytes or as a string.
Symmetric == {"oct", "string"}

\* The algorithms that newSymmetricRecipient, newRSARecipient and
\* newECDHRecipient accept for their type of key.
AlgsOf(type) ==
    CASE type \in Symmetric -> {DIRECT} \cup GcmKw \cup Kw \cup Pbes2Alg
      [] type = "rsa" -> RsaAlg
      [] type = "ec"  -> {"ECDH_ES"} \cup DOMAIN EcdhKw
      [] OTHER -> {}

(***************************************************************************)
(* Key material.                                                           *)
(***************************************************************************)
KeyBytes(key)  == <<"key", key.id, key.size>>
RandomKey(size) == <<"random", size>>
SizeOf(k) == k[Len(k)]

\* DeriveECDHES: both ends of the agreement, and everything the KDF is fed.
DeriveECDHES(algID, apu, apv, static, ephemeral, size) ==
    <<"ecdh", static, ephemeral, algID, apu, apv, size>>

\* The key of a PBES2 wrap, by getPbkdf2Params and the salt input.
Pbkdf2Size == [PBES2_HS256_A128KW |-> 16, PBES2_HS384_A192KW |-> 24, PBES2_HS512_A256KW |-> 32]
Pbkdf2(key, alg, p2s, p2c) == <<"pbkdf2", key.id, alg, p2s, p2c, Pbkdf2Size[alg]>>

defaultP2C == 600000
maxP2C     == 1000000

Wrapped(kek, cek) == <<"wrapped", kek, cek>>
Unwrap(kek, ek) == IF ek[1] = "wrapped" /\ ek[2] = kek THEN <<ek[3]>> ELSE <<>>

\* An RSA ciphertext is as long as the modulus, whose size is in bits.
Octets(key) == (key.size + 7) \div 8
RsaEncrypt(key, alg, cek) == <<"rsa", alg, key.id, cek, Octets(key)>>

(***************************************************************************)
(* Compression.                                                            *)
(***************************************************************************)
Larger(a, b) == IF a > b THEN a ELSE b

\* What is sealed: a plaintext, tagged with the compression it went through.
Sealed(zip, p) == <<zip, p>>

\* The limit of inflate: 250000 bytes or ten times the input, whichever is more.
Inflatable(p) == p.len <= Larger(250000, 10 * p.zlen)

\* inflate: fails on input that is not a deflate stream and on output larger
\* than both limits, the sizes at the limit included.
Inflate(pt) ==
    IF pt[1] = "DEF" /\ Inflatable(pt[2]) THEN <<Sealed("", pt[2])>> ELSE <<>>

(***************************************************************************)
(* Encrypters.  A Recipient is [alg, key, jwk, KeyID, p2c, p2s]: jwk is    *)
(* <<kid>> when the key came in a JSONWebKey; p2s is "" when not given.    *)
(* key.valid says that the point of a public key is on its curve.          *)
(***************************************************************************)
KeyIDOf(r) ==
    CASE r.KeyID # "" -> r.KeyID
      [] r.KeyID = "" /\ r.jwk # <<>> -> r.jwk[1]
      [] r.KeyID = "" /\ r.jwk = <<>> /\ r.key.type = "opaque" -> r.key.kid
      [] OTHER -> ""

\* newOpaqueKeyEncrypter: its own Algs() decide.
OpaqueOK(r) == r.alg \in r.key.algs

\* newECDHRecipient also asks for a point on the curve.
ECDHRecipientOK(r) == r.alg \in AlgsOf("ec") /\ r.key.valid

\* makeJWERecipient, by the type of the key.
MakeJWERecipientOK(r) ==
    CASE r.key.type = "opaque" -> OpaqueOK(r)
      [] r.key.type = "ec" -> ECDHRecipientOK(r)
      [] OTHER -> r.alg \in AlgsOf(r.key.type)

\* A recipientKeyInfo.
KeyInfo(r) ==
    [keyAlg |-> r.alg, keyID |-> KeyIDOf(r), key |-> r.key, p2c |-> r.p2c, p2s |-> r.p2s]

AddRecipientOK(r) == r.alg \notin {DIRECT, "ECDH_ES"} /\ MakeJWERecipientOK(r)

\* What NewEncrypter and NewMultiEncrypter return: err, and the encrypter.
\* NewEncrypter hands out the encrypter also when addRecipient fails.
Encrypter(conf, gen, recipients) ==
    [enc |-> conf.enc, zip |-> conf.zip, extra |-> conf.extra, gen |-> gen,
     recipients |-> recipients]
NilEncrypter == Encrypter([enc |-> "", zip |-> "", extra |-> EmptyHeader], "nil", <<>>)

NewEncrypterOK(conf) ==
    LET r == conf.recipients[1]
    IN  /\ conf.enc \in DOMAIN ContentEncryption
        /\ CASE r.alg = DIRECT ->
                  r.key.type = "oct" /\ r.key.size = ContentEncryption[conf.enc]
             [] r.alg = "ECDH_ES" -> r.key.type = "ec"
             [] OTHER -> AddRecipientOK(r)

NewEncrypter(conf) ==
    LET r == conf.recipients[1]
    IN  CASE NewEncrypterOK(conf) ->
                Encrypter(conf, CASE r.alg = DIRECT -> "static"
                                  [] r.alg = "ECDH_ES" -> "ec"
                                  [] OTHER -> "random", <<KeyInfo(r)>>)
          [] ~NewEncrypterOK(conf) /\ conf.enc \in DOMAIN ContentEncryption
                                   /\ r.alg \notin {DIRECT, "ECDH_ES"} ->
                Encrypter(conf, "random", <<>>)
          [] OTHER -> NilEncrypter

NewMultiEncrypterOK(conf) ==
    /\ conf.enc \in DOMAIN ContentEncryption
    /\ conf.recipients # <<>>
    /\ \A i \in DOMAIN conf.recipients : AddRecipientOK(conf.recipients[i])

NewMultiEncrypter(conf) ==
    IF NewMultiEncrypterOK(conf)
    THEN Encrypter(conf, "random", [i \in DOMAIN conf.recipients |-> KeyInfo(conf.recipients[i])])
    ELSE NilEncrypter

(***************************************************************************)
(* Objects.  mergedHeaders(nil) is GlobalHeaders, mergedHeaders of a       *)
(* recipient is RecipientHeaders.                                          *)
(***************************************************************************)
GlobalHeaders(obj) == MergePtr(MergePtr(EmptyHeader, obj.protected), obj.unprotected)
RecipientHeaders(obj, r) == MergePtr(GlobalHeaders(obj), r.header)

AuthData_NoAad(original, protected, aad) ==
    LET bytes == IF original # Absent THEN original ELSE BytesOf(protected)
    IN  <<IF Kind(bytes) = "empty" THEN Absent ELSE bytes, <<>>>>
AuthData_Reserialized(original, protected, aad) ==
    LET bytes == IF protected # NoHeader THEN BytesOf(protected) ELSE original
    IN  <<IF Kind(bytes) = "empty" THEN Absent ELSE bytes,
          IF aad = NilBytes THEN <<>> ELSE <<aad>>>>
\* computeAuthData.  The texts of absent and of empty protected bytes agree;
\* aad is appended after a dot unless it is nil.
AuthData(original, protected, aad) ==
    LET bytes == IF original # Absent THEN original ELSE BytesOf(protected)
    IN  <<IF Kind(bytes) = "empty" THEN Absent ELSE bytes,
          IF aad = NilBytes THEN <<>> ELSE <<aad>>>>

\* newAESGCM and newAESCBC: getAead goes by the family of the name and by the key
\* it is given; the key size of the name itself is not looked at.
Family(enc) == IF enc \in {"A128GCM", "A192GCM", "A256GCM"} THEN "GCM" ELSE "CBC_HMAC"
AeadTakes(family, size) ==
    size \in IF family = "GCM" THEN AesSizes ELSE {2 * n : n \in AesSizes}

\* authtagBytes, for a key of that size.
TagSize(family, size) == IF family = "GCM" THEN 16 ELSE size \div 2

Seal(enc, cek, auth, pt) == <<Family(enc), cek, auth, pt>>
\* aeadContentCipher.decrypt: <<pt>>, or <<>> when getAead does not take the key,
\* the tag is shorter than the name asks for, or the tag does not match.
Open(enc, cek, auth, parts) ==
    IF /\ AeadTakes(Family(enc), SizeOf(cek))
       /\ TagSize(Family(enc), ContentEncryption[enc]) <= TagSize(Family(enc), SizeOf(cek))
       /\ Len(parts) = 4 /\ parts = Seal(enc, cek, auth, parts[4])
    THEN <<parts[4]>> ELSE <<>>

(***************************************************************************)
(* EncryptWithAuthData.                                                    *)
(***************************************************************************)
Epk(key) == [id |-> <<"epk", key.id>>, curve |-> key.curve]

\* genKey of the three generators: the content key and the header it adds.
GenKey(e) ==
    LET key == e.recipients[1].key
    IN  CASE e.gen = "static" -> KeyBytes(key)
          [] e.gen = "ec" ->
                DeriveECDHES(e.enc, "", "", key.id, Epk(key).id, ContentEncryption[e.enc])
          [] OTHER -> RandomKey(ContentEncryption[e.enc])
GenHeader(e) ==
    IF e.gen = "ec" THEN [epk |-> JwkOf(Epk(e.recipients[1].key))] ELSE EmptyHeader

GcmIV(key)       == Buf(<<"iv", key.id>>)
GcmTag(key, cek) == Buf(<<"tag", key.id, cek>>)

Count(info) == IF info.p2c <= 0 THEN defaultP2C ELSE info.p2c
Salt(info)  == IF info.p2s = "" THEN "random salt" ELSE info.p2s

\* encryptKey fails on a wrapping key that aes.NewCipher does not take.
EncryptKeyOK(info) ==
    info.keyAlg \in GcmKw \cup Kw /\ info.key.type # "opaque" => info.key.size \in AesSizes

EncryptKey(info, cek) ==
    LET key == info.key
        R(header, ek) == [header |-> header, encryptedKey |-> ek]
    IN  CASE key.type = "opaque" -> R(EmptyHeader, <<"opaque", info.keyAlg, key.id, cek>>)
          [] key.type = "rsa" -> R(EmptyHeader, RsaEncrypt(key, info.keyAlg, cek))
          [] key.type \in {"oct", "ec"} /\ info.keyAlg \in {DIRECT, "ECDH_ES"} ->
                R(EmptyHeader, <<>>)
          [] key.type = "ec" /\ info.keyAlg \in DOMAIN EcdhKw ->
                R([epk |-> JwkOf(Epk(key))],
                  Wrapped(DeriveECDHES(info.keyAlg, "", "", key.id, Epk(key).id,
                                       EcdhKw[info.keyAlg]), cek))
          [] key.type \in Symmetric /\ info.keyAlg \in GcmKw ->
                R([iv |-> GcmIV(key), tag |-> GcmTag(key, cek)], <<"gcm", KeyBytes(key), cek>>)
          [] key.type \in Symmetric /\ info.keyAlg \in Kw ->
                R(EmptyHeader, Wrapped(KeyBytes(key), cek))
          [] key.type \in Symmetric /\ info.keyAlg \in Pbes2Alg ->
                R([p2c |-> Num(Count(info)), p2s |-> Buf(Salt(info))],
                  Wrapped(Pbkdf2(key, info.keyAlg, Salt(info), Count(info)), cek))

\* The recipientInfo of the loop, with alg and kid set.
RecipientInfo(info, cek) ==
    LET r == EncryptKey(info, cek)
        kid == IF info.keyID = "" THEN EmptyHeader ELSE [kid |-> Str(info.keyID)]
    IN  [header |-> <<Override(Override(r.header, [alg |-> Str(info.keyAlg)]), kid)>>,
         encryptedKey |-> r.encryptedKey]

\* The loop reaches a PBES2 recipient whose key derivation can fail.
DerivesKey(e) ==
    \E i \in DOMAIN e.recipients :
        /\ e.recipients[i].keyAlg \in Pbes2Alg /\ e.recipients[i].key.type \in Symmetric
        /\ \A j \in 1..i : EncryptKeyOK(e.recipients[j])

EncryptPanics_IgnoresDerivation(e, pbkdf2Fails) == e.gen = "ec" /\ ~e.recipients[1].key.valid
\* The two panics: DeriveECDHES on a point off the curve, and header.set on the
\* nil header of the recipientInfo{} that a failed derivation returns.
EncryptPanics(e, pbkdf2Fails) ==
    \/ e.gen = "ec" /\ ~e.recipients[1].key.valid
    \/ pbkdf2Fails /\ DerivesKey(e)

EncryptOK(e) ==
    /\ e.recipients # <<>>
    /\ \A i \in DOMAIN e.recipients : EncryptKeyOK(e.recipients[i])
    /\ e.zip \in {"", "DEF"}

ProtectedFor_NoMove(e, rs) ==
    Override(Override(Merge([enc |-> Str(e.enc)], GenHeader(e)),
                      IF e.zip = "" THEN EmptyHeader ELSE [zip |-> Str(e.zip)]),
             e.extra)
\* The protected header: enc, the generator's header, the only recipient's
\* header, zip, and last the extra headers, which overwrite.
ProtectedFor(e, rs) ==
    LET own == Merge([enc |-> Str(e.enc)], GenHeader(e))
        all == IF Len(rs) = 1 THEN MergePtr(own, rs[1].header) ELSE own
        zip == IF e.zip = "" THEN EmptyHeader ELSE [zip |-> Str(e.zip)]
    IN  Override(Override(all, zip), e.extra)

EncryptObject(e, p, aad) ==
    LET cek  == GenKey(e)
        rs   == [i \in DOMAIN e.recipients |-> RecipientInfo(e.recipients[i], cek)]
        prot == <<ProtectedFor(e, rs)>>
    IN  [protected |-> prot, unprotected |-> NoHeader, Header |-> ZeroHeader,
         recipients |-> IF Len(rs) = 1 THEN <<[rs[1] EXCEPT !.header = NoHeader]>> ELSE rs,
         aad |-> aad, original |-> Absent,
         parts |-> Seal(e.enc, cek, AuthData(Absent, prot, aad), Sealed(e.zip, p))]

(***************************************************************************)
(* Serialization.  A message is [form, protected, unprotected, header,     *)
(* recipients, aad, encryptedKey, parts]; form is "compact", "json", or    *)
(* "broken" for a text that does not split, decode or unmarshal.           *)
(***************************************************************************)
CompactOK(obj) ==
    /\ Len(obj.recipients) = 1
    /\ obj.unprotected = NoHeader
    /\ obj.protected # NoHeader
    /\ obj.recipients[1].header = NoHeader

\* CompactSerialize: there is no place for the aad.
CompactSerialize(obj) ==
    [form |-> "compact", protected |-> BytesOf(obj.protected), unprotected |-> NoHeader,
     header |-> NoHeader, recipients |-> <<>>, aad |-> NilBytes,
     encryptedKey |-> obj.recipients[1].encryptedKey, parts |-> obj.parts]

\* FullSerialize writes the first encrypted key outside the array as well.
FullSerialize(obj) ==
    LET many == Len(obj.recipients) > 1
    IN  [form |-> "json", protected |-> BytesOf(obj.protected), unprotected |-> obj.unprotected,
         header |-> IF many THEN NoHeader ELSE obj.recipients[1].header,
         recipients |-> IF many THEN obj.recipients ELSE <<>>,
         aad |-> obj.aad, encryptedKey |-> obj.recipients[1].encryptedKey, parts |-> obj.parts]

(***************************************************************************)
(* Parsing: rawJSONWebEncryption.sanitized.                                *)
(***************************************************************************)
NoNonce(ptr) == ptr # NoHeader => GetString(ptr[1], "nonce") = ""

Listed(value, allowed) == value = "" \/ value \in allowed
\* validateAlgEnc
ValidateAlgEnc(h, algs, encs) ==
    Listed(GetString(h, "alg"), algs) /\ Listed(GetString(h, "enc"), encs)

\* The recipients array, or the one recipient of the flattened and compact forms.
RawRecipients(msg) ==
    IF msg.recipients # <<>> THEN msg.recipients
    ELSE <<[header |-> msg.header, encryptedKey |-> msg.encryptedKey]>>

\* byteBuffer.UnmarshalJSON leaves data nil for "": an empty aad is lost.
ParsedAad(msg) == IF msg.aad = EmptyBytes THEN NilBytes ELSE msg.aad

Parse(msg) ==
    LET hs == [protected |-> HeaderPtr(msg.protected), unprotected |-> msg.unprotected]
    IN  [protected |-> hs.protected, unprotected |-> hs.unprotected,
         Header |-> Sanitized(GlobalHeaders(hs)), recipients |-> RawRecipients(msg),
         aad |-> ParsedAad(msg), original |-> msg.protected, parts |-> msg.parts]

RecipientOK_FirstHeaderOnly(obj, i, algs, encs) ==
    LET h == RecipientHeaders(obj, obj.recipients[1])
    IN  GetString(h, "alg") # "" /\ GetString(h, "enc") # "" /\ ValidateAlgEnc(h, algs, encs)
\* The loop over the recipients that validates their merged headers.
RecipientOK(obj, i, algs, encs) ==
    LET h == RecipientHeaders(obj, obj.recipients[i])
    IN  GetString(h, "alg") # "" /\ GetString(h, "enc") # "" /\ ValidateAlgEnc(h, algs, encs)

\* ErrUnprotectedNonce, in each place a header comes without protection.
UnprotectedOK(msg) ==
    /\ NoNonce(msg.unprotected)
    /\ NoNonce(msg.header)
    /\ \A i \in DOMAIN msg.recipients : NoNonce(msg.recipients[i].header)

SanitizedOK(msg, algs, encs) ==
    LET obj == Parse(msg)
    IN  /\ msg.form # "broken"
        /\ algs # {} /\ encs # {}
        /\ UnprotectedOK(msg)
        /\ Kind(msg.protected) # "junk"
        /\ SanitizeOK(GlobalHeaders(obj))
        /\ \A i \in DOMAIN obj.recipients : RecipientOK(obj, i, algs, encs)
        /\ obj.protected # NoHeader => ValidateAlgEnc(obj.protected[1], algs, encs)
        /\ obj.unprotected # NoHeader => ValidateAlgEnc(obj.unprotected[1], algs, encs)

(***************************************************************************)
(* Decryption of the content key: <<cek>>, or <<>> for an error.           *)
(***************************************************************************)
\* getByteBuffer: an absent buffer and the buffer of "" have the same bytes.
BufOK(h, k)  == Present(h, k) => Kind(h[k]) = "b64" \/ h[k] = Str("")
GetBuf(h, k) == IF Present(h, k) /\ Kind(h[k]) = "b64" THEN Value(h[k]) ELSE ""

\* symmetricKeyCipher.decryptKey, Pbes2's checks of p2s and p2c included.
SymmetricDecryptKey(key, h, ek) ==
    LET alg == GetString(h, "alg")
        p2s == GetBuf(h, "p2s")
        p2cOK == /\ Present(h, "p2c") /\ Kind(h["p2c"]) = "num"
                 /\ Value(h["p2c"]) > 0 /\ Value(h["p2c"]) <= maxP2C
    IN  CASE alg = DIRECT -> <<KeyBytes(key)>>
          [] alg \in GcmKw /\ key.size \in AesSizes /\ ek # <<>> /\ ek[1] = "gcm" ->
                IF /\ ek[2] = KeyBytes(key)
                   /\ Present(h, "iv") /\ h["iv"] = GcmIV(key)
                   /\ Present(h, "tag") /\ h["tag"] = GcmTag(key, ek[3])
                THEN <<ek[3]>> ELSE <<>>
          [] alg \in Kw /\ key.size \in AesSizes /\ ek # <<>> -> Unwrap(KeyBytes(key), ek)
          [] alg \in Pbes2Alg /\ ek # <<>> /\ BufOK(h, "p2s") /\ p2s # "" /\ p2cOK ->
                Unwrap(Pbkdf2(key, alg, p2s, Value(h["p2c"])), ek)
          [] OTHER -> <<>>

\* rsaDecrypterSigner.decrypt.  RSA1_5 hides a failure behind a random key.
RsaDecryptKey(key, h, ek, size) ==
    LET alg  == GetString(h, "alg")
        mine == ek # <<>> /\ ek[1] = "rsa" /\ ek[3] = key.id /\ ek[2] = alg
    IN  CASE alg = "RSA1_5" /\ ek # <<>> /\ ek[1] = "rsa" /\ key.size \div 8 = ek[5] ->
                IF mine /\ SizeOf(ek[4]) = size THEN <<ek[4]>> ELSE <<<<"fallback", size>>>>
          [] alg \in RsaAlg \ {"RSA1_5"} /\ mine -> <<ek[4]>>
          [] OTHER -> <<>>

\* ecDecrypterSigner.decryptKey: epk on the curve, apu and apv from the headers.
EcDecryptKey(key, h, ek, size) ==
    LET alg == GetString(h, "alg")
        epkOK == /\ Present(h, "epk") /\ Kind(h["epk"]) = "jwk"
                 /\ Value(h["epk"]).curve = key.curve
        derive(algID, n) == DeriveECDHES(algID, GetBuf(h, "apu"), GetBuf(h, "apv"), key.id,
                                         Value(h["epk"]).id, n)
        headersOK == epkOK /\ BufOK(h, "apu") /\ BufOK(h, "apv")
    IN  CASE headersOK /\ alg = "ECDH_ES" -> <<derive(GetString(h, "enc"), size)>>
          [] headersOK /\ alg \in DOMAIN EcdhKw /\ ek # <<>> ->
                Unwrap(derive(alg, EcdhKw[alg]), ek)
          [] OTHER -> <<>>

\* opaqueKeyDecrypter.decryptKey; the OpaqueKeyDecrypter goes by the header's alg.
OpaqueDecryptKey(key, h, r) ==
    LET ek == r.encryptedKey
        merged == MergePtr(h, r.header)
    IN  IF /\ SanitizeOK(merged) /\ ek # <<>> /\ ek[1] = "opaque"
           /\ ek[2] = Sanitized(merged).alg /\ ek[3] = key.id THEN <<ek[4]>> ELSE <<>>

DecryptKey(key, h, r, size) ==
    CASE key.type \in Symmetric -> SymmetricDecryptKey(key, h, r.encryptedKey)
      [] key.type = "rsa"    -> RsaDecryptKey(key, h, r.encryptedKey, size)
      [] key.type = "ec"     -> EcDecryptKey(key, h, r.encryptedKey, size)
      [] key.type = "opaque" -> OpaqueDecryptKey(key, h, r)

(***************************************************************************)
(* Decrypt and DecryptMulti.                                               *)
(***************************************************************************)
\* newDecrypter
NewDecrypterOK(key) == key.type \in Symmetric \cup {"rsa", "ec", "opaque"}

EncOf(obj) == GetString(GlobalHeaders(obj), "enc")

\* The checks both functions make first, in their order.
Refusal(obj, vk) ==
    LET key == TryJWKS(vk, obj.Header)
    IN  IF ~CheckNoCritical(GlobalHeaders(obj)) THEN "crit"
        ELSE IF key = <<>> THEN "kid"
        ELSE IF ~NewDecrypterOK(key[1]) THEN "keytype"
        ELSE IF EncOf(obj) \notin DOMAIN ContentEncryption THEN "enc"
        ELSE "none"

\* One recipient: its content key with its own headers, then the content.
OpenWith(obj, key, i) ==
    LET r == obj.recipients[i]
        enc == EncOf(obj)
        cek == DecryptKey(key, RecipientHeaders(obj, r), r, ContentEncryption[enc])
    IN  IF cek = <<>> THEN <<>>
        ELSE Open(enc, cek[1], AuthData(obj.original, obj.protected, obj.aad), obj.parts)

\* decompress: by the protected zip only.
Decompress(obj, pt) ==
    LET comp == IF obj.protected = NoHeader THEN "" ELSE GetString(obj.protected[1], "zip")
    IN  CASE comp = "" -> <<pt>> [] comp = "DEF" -> Inflate(pt) [] OTHER -> <<>>

Return(outcome, index, header, plaintext) ==
    [outcome |-> outcome, index |-> index, header |-> header, plaintext |-> plaintext]
Failure(outcome) == Return(outcome, 0, ZeroHeader, <<>>)

Decrypt_KeepsCompressed(obj, vk) ==
    LET refusal == Refusal(obj, vk)
        pt == OpenWith(obj, TryJWKS(vk, obj.Header)[1], 1)
    IN  IF Len(obj.recipients) > 1 THEN Failure("toomany")
        ELSE IF refusal # "none" THEN Failure(refusal)
        ELSE IF pt = <<>> THEN Failure("crypto")
        ELSE Return("ok", 1, ZeroHeader, pt[1])
Decrypt(obj, vk) ==
    LET refusal == Refusal(obj, vk)
        key == TryJWKS(vk, obj.Header)[1]
        pt  == OpenWith(obj, key, 1)
        out == Decompress(obj, pt[1])
    IN  IF Len(obj.recipients) > 1 THEN Failure("toomany")
        ELSE IF refusal # "none" THEN Failure(refusal)
        ELSE IF obj.recipients = <<>> THEN Failure("panic")
        ELSE IF pt = <<>> THEN Failure("crypto")
        ELSE IF out = <<>> THEN Failure("zip")
        ELSE Return("ok", 1, ZeroHeader, out[1])

\* DecryptMulti returns the first recipient the key opens, and that recipient's
\* merged headers, which are sanitized only now.
DecryptMulti(obj, vk) ==
    LET refusal == Refusal(obj, vk)
        key  == TryJWKS(vk, obj.Header)[1]
        good == {i \in DOMAIN obj.recipients : OpenWith(obj, key, i) # <<>>}
        i    == CHOOSE g \in good : \A j \in good : g <= j
        out  == Decompress(obj, OpenWith(obj, key, i)[1])
        h    == RecipientHeaders(obj, obj.recipients[i])
    IN  IF refusal # "none" THEN Failure(refusal)
        ELSE IF obj.recipients = <<>> THEN Failure("norecipients")
        ELSE IF good = {} THEN Failure("crypto")
        ELSE IF out = <<>> THEN Failure("zip")
        ELSE IF ~SanitizeOK(h) THEN Failure("header")
        ELSE Return("ok", i, Sanitized(h), out[1])
=============================================================================
