-------------------------------- MODULE Jwe ---------------------------------
(***************************************************************************)
(* The life of one JWE message.  An encrypter is made and encrypts once,   *)
(* or a foreign implementation makes the message; it is serialized, may    *)
(* pick up an unprotected header or damage on its way, is parsed,          *)
(* decrypted, and may be serialized again by the consumer.                 *)
(***************************************************************************)
EXTENDS JweObject

CONSTANTS EncrypterConf, \* records [enc, zip, extra, recipients]
          Plaintext,     \* records [id, len, zlen]
          Aad,           \* byte slices
          Foreign,       \* messages other implementations produce
          AddedHeader,   \* headers an intermediary may add without protection
          OtherBytes,    \* protected bytes that damage in transit may leave
          AllowLists,    \* pairs [algs, encs] given to the parsers
          DecKeys        \* decryptionKey arguments of Decrypt and DecryptMulti

\* An encrypted key, with the content key it holds, made for the key with this id.
MadeFor(ek, cek, id) ==
    /\ ek # <<>> /\ ek[1] \in {"wrapped", "gcm"} => ek[2][2] = id
    /\ ek # <<>> /\ ek[1] \in {"rsa", "opaque"} => ek[3] = id
    /\ cek[1] \in {"key", "ecdh"} => cek[2] = id
    /\ cek[1] # "fallback"

\* What RFC 7518 has a producer send for the content key cek by the algorithm alg:
\* the encrypted key ek, and parameters among the recipient's joined headers h.
Conveys(alg, key, h, ek, cek, enc) ==
    LET agreed(algID, size) ==
            DeriveECDHES(algID, GetBuf(h, "apu"), GetBuf(h, "apv"), key.id, Value(h["epk"]).id, size)
        agrees ==
            /\ Present(h, "epk") /\ Kind(h["epk"]) = "jwk" /\ Value(h["epk"]).curve = key.curve
            /\ BufOK(h, "apu") /\ BufOK(h, "apv")
    IN  \/ key.type \in Symmetric /\ alg = DIRECT /\ cek = KeyBytes(key)
        \/ /\ key.type \in Symmetric /\ alg \in GcmKw /\ key.size \in AesSizes
           /\ Present(h, "iv") /\ h["iv"] = GcmIV(key)
           /\ Present(h, "tag") /\ h["tag"] = GcmTag(key, cek)
           /\ ek = <<"gcm", KeyBytes(key), cek>>
        \/ /\ key.type \in Symmetric /\ alg \in Kw /\ key.size \in AesSizes
           /\ ek = Wrapped(KeyBytes(key), cek)
        \/ /\ key.type \in Symmetric /\ alg \in Pbes2Alg
           /\ GetBuf(h, "p2s") # "" /\ Present(h, "p2c") /\ Kind(h["p2c"]) = "num"
           /\ Value(h["p2c"]) \in 1..maxP2C
           /\ ek = Wrapped(Pbkdf2(key, alg, GetBuf(h, "p2s"), Value(h["p2c"])), cek)
        \/ /\ key.type = "rsa" /\ alg \in RsaAlg
           /\ alg = "RSA1_5" => key.size \in Nat /\ key.size % 8 = 0
           /\ ek = RsaEncrypt(key, alg, cek)
        \/ /\ key.type = "ec" /\ alg = "ECDH_ES" /\ agrees
           /\ cek = agreed(enc, ContentEncryption[enc])
        \/ /\ key.type = "ec" /\ alg \in DOMAIN EcdhKw /\ agrees
           /\ ek = Wrapped(agreed(alg, EcdhKw[alg]), cek)
        \/ key.type = "opaque" /\ ek = <<"opaque", alg, key.id, cek>>

\* The headers of a recipient of a foreign message, joined as mergedHeaders does.
ForeignHeaders(f, i) ==
    MergePtr(MergePtr(MergePtr(EmptyHeader, HeaderPtr(f.bytes)), f.unprotected),
             f.recipients[i].header)

\* The sizes of a plaintext are natural numbers; nobody allows the name "".
ASSUME InputAssumption ==
    /\ \A p \in Plaintext : p.len \in Nat /\ p.zlen \in Nat
    /\ \A a \in AllowLists : "" \notin a.algs \cup a.encs

\* The producers' inputs: lists of recipients, in a foreign message at least one,
\* each with an encrypted key of its own; and a protected header that says how the
\* content was compressed, which an extra header zip could otherwise deny.
ASSUME ProducerAssumption ==
    /\ \A conf \in EncrypterConf :
          /\ conf.recipients \in Seq({conf.recipients[i] : i \in DOMAIN conf.recipients})
          /\ conf.zip # "" => "zip" \notin DOMAIN conf.extra
    /\ \A f \in Foreign :
          /\ f.recipients # <<>>
          /\ f.recipients \in Seq({f.recipients[i] : i \in DOMAIN f.recipients})
          /\ \A i \in DOMAIN f.recipients :
                MadeFor(f.recipients[i].ek, f.cek, f.recipients[i].key.id)
          /\ f.zip # "" => GetString(HeaderOf(f.bytes), "zip") = f.zip

\* Foreign producers keep to the RFCs where they name the algorithm they used: a
\* cipher and a key that fit, a flattened message for one recipient only, no aad
\* member for an empty aad, and for each recipient what conveys the content key.
ASSUME ForeignAssumption ==
    \A f \in Foreign :
        /\ f.enc \in DOMAIN ContentEncryption /\ SizeOf(f.cek) = ContentEncryption[f.enc]
        /\ f.flat => Len(f.recipients) = 1
        /\ f.aad # EmptyBytes
        /\ GetString(HeaderOf(f.bytes), "zip") = f.zip
        /\ \A i \in DOMAIN f.recipients :
              LET r == f.recipients[i]
                  h == ForeignHeaders(f, i)
              IN  GetString(h, "alg") = r.alg => Conveys(r.alg, r.key, h, r.ek, f.cek, f.enc)

\* NewCBCHMAC halves its key: given one of these sizes, which only a symmetric key
\* used as it is can have, it returns a cipher without a hash, whose Open panics
\* (module CbcHmac has that case).  Nobody holds such a key here.
ASSUME EvenKeyAssumption ==
    LET given == UNION {IF vk[1] = "key" THEN {vk[2]} ELSE {vk[2][i].key : i \in DOMAIN vk[2]} :
                            vk \in DecKeys}
        used  == UNION {{c.recipients[i].key : i \in DOMAIN c.recipients} :
                            c \in EncrypterConf \cup Foreign}
    IN  \A key \in given \cup used : key.type \in Symmetric => key.size \notin {31, 47, 63}

\* An id stands for one key, key sizes and iteration counts are integers, and what
\* intermediaries add has the types of its parameters.
ASSUME RoundTripAssumption ==
    /\ \A conf \in EncrypterConf : \A i, j \in DOMAIN conf.recipients :
          LET r == conf.recipients[i]
          IN  /\ r.key.size \in Nat /\ r.p2c \in Int
              /\ r.key.id = conf.recipients[j].key.id => r.key = conf.recipients[j].key
    /\ \A h \in AddedHeader : SanitizeOK(h)

VARIABLES at,        \* "start", "ready", "encrypted", "wire", "parsed",
                     \* "refused", "failed", "crashed"
          encrypter, \* what the constructor returned
          err,       \* whether the constructor, or PBKDF2, reported an error
          msg,       \* the serialized message, when at = "wire"
          obj,       \* the JSONWebEncryption, when at is "encrypted" or "parsed"
          allow,     \* the allow-lists of the last parse
          made,      \* history: what the producer sealed, and for which keys
          origin,    \* history: <<>>, or how the message was made and what happened since
          result     \* the last return of Decrypt or DecryptMulti

vars == <<at, encrypter, err, msg, obj, allow, made, origin, result>>

NoParts == <<>>
NoObj == [protected |-> NoHeader, unprotected |-> NoHeader, Header |-> ZeroHeader,
          recipients |-> <<>>, aad |-> NilBytes, original |-> Absent, parts |-> NoParts]
NoMsg == [form |-> "broken", protected |-> Absent, unprotected |-> NoHeader, header |-> NoHeader,
          recipients |-> <<>>, aad |-> NilBytes, encryptedKey |-> <<>>, parts |-> NoParts]
NoResult == [op |-> "none", vk |-> <<>>, ret |-> Failure("none")]

Init ==
    /\ at = "start"
    /\ encrypter = NilEncrypter
    /\ err = FALSE
    /\ msg = NoMsg
    /\ obj = NoObj
    /\ allow = [algs |-> {}, encs |-> {}]
    /\ made = <<>>
    /\ origin = <<>>
    /\ result = NoResult

(***************************************************************************)
(* Producers.                                                              *)
(***************************************************************************)
\* A caller may hold on to an encrypter it was given together with an error.
Construct(ok, e, conf) ==
    /\ at = "start"
    /\ at' = IF e = NilEncrypter THEN "failed" ELSE "ready"
    /\ encrypter' = e
    /\ err' = ~ok
    /\ origin' = <<[from |-> "encrypt", conf |-> conf, plain |-> <<>>, aad |-> NilBytes,
                    touched |-> {}, added |-> {}]>>
    /\ UNCHANGED <<msg, obj, allow, made, result>>

New(conf) == Len(conf.recipients) = 1 /\ Construct(NewEncrypterOK(conf), NewEncrypter(conf), conf)
NewMulti(conf) == Construct(NewMultiEncrypterOK(conf), NewMultiEncrypter(conf), conf)

\* randFails: the random source fails, for any of the reads it is used for.
Encrypt(p, aad, randFails, pbkdf2Fails) ==
    /\ at = "ready"
    /\ LET e == encrypter
           entered == e.recipients # <<>> /\ ~randFails
       IN  /\ at' = CASE entered /\ EncryptPanics(e, pbkdf2Fails) -> "crashed"
                      [] entered /\ ~EncryptPanics(e, pbkdf2Fails) /\ EncryptOK(e) -> "encrypted"
                      [] OTHER -> "failed"
           /\ obj' = IF at' = "encrypted" THEN EncryptObject(e, p, aad) ELSE obj
           /\ err' = (err \/ (entered /\ pbkdf2Fails /\ DerivesKey(e)))
    /\ made' = IF at' # "encrypted" THEN <<>>
               ELSE <<[plain |-> Sealed("", p), aad |-> aad, header |-> obj'.protected,
                       keys |-> [i \in DOMAIN encrypter.recipients |->
                                     encrypter.recipients[i].key.id]]>>
    /\ origin' = <<[origin[1] EXCEPT !.plain = Sealed("", p), !.aad = aad]>>
    /\ UNCHANGED <<encrypter, msg, allow, result>>

ForeignMsg(f) ==
    LET rs == [i \in DOMAIN f.recipients |->
                  [header |-> f.recipients[i].header, encryptedKey |-> f.recipients[i].ek]]
    IN  [form |-> "json", protected |-> f.bytes, unprotected |-> f.unprotected,
         header |-> IF f.flat THEN rs[1].header ELSE NoHeader,
         recipients |-> IF f.flat THEN <<>> ELSE rs, aad |-> f.aad,
         encryptedKey |-> IF f.flat THEN rs[1].encryptedKey ELSE <<>>,
         parts |-> Seal(f.enc, f.cek, AuthData(f.bytes, NoHeader, f.aad), Sealed(f.zip, f.plain))]

ForeignEncrypt(f) ==
    /\ at = "start"
    /\ at' = "wire"
    /\ msg' = ForeignMsg(f)
    /\ made' = <<[plain |-> Sealed("", f.plain), aad |-> f.aad, header |-> HeaderPtr(f.bytes),
                  keys |-> [i \in DOMAIN f.recipients |-> f.recipients[i].key.id]]>>
    /\ origin' = <<[from |-> "foreign", conf |-> f, plain |-> Sealed("", f.plain), aad |-> f.aad,
                    touched |-> {}, added |-> {}]>>
    /\ UNCHANGED <<encrypter, err, obj, allow, result>>

(***************************************************************************)
(* Serialization, by the producer or again by a consumer.                  *)
(***************************************************************************)
Touch(how, names) ==
    origin' = <<[origin[1] EXCEPT !.touched = @ \cup how, !.added = @ \cup names]>>

Send(m, how) ==
    /\ at \in {"encrypted", "parsed"}
    /\ at' = "wire"
    /\ msg' = m
    /\ obj' = NoObj
    /\ Touch(how \cup IF at = "parsed" THEN {"resent"} ELSE {}, {})
    /\ result' = NoResult
    /\ UNCHANGED <<encrypter, err, allow, made>>

SendCompact == CompactOK(obj) /\ Send(CompactSerialize(obj), {"compact"})
SendFull    == obj.recipients # <<>> /\ Send(FullSerialize(obj), {})

(***************************************************************************)
(* The way between: a header is added to a JSON message outside the        *)
(* protected one, or the message is damaged.                               *)
(***************************************************************************)
\* One addition and one damage per message.
InTransit(m, how, names) ==
    /\ at = "wire"
    /\ how \cap origin[1].touched = {}
    /\ msg' = m
    /\ Touch(how, names)
    /\ UNCHANGED <<at, encrypter, err, obj, allow, made, result>>

AddHeader(h) ==
    /\ msg.form = "json"
    /\ \/ /\ msg.unprotected = NoHeader
          /\ InTransit([msg EXCEPT !.unprotected = <<h>>], {"header"}, DOMAIN h)
       \/ /\ msg.header = NoHeader
          /\ InTransit([msg EXCEPT !.header = <<h>>], {"header"}, DOMAIN h)

DamageProtected(bytes) ==
    InTransit([msg EXCEPT !.protected = bytes], {"damage"}, {})
DamageBody ==
    \/ InTransit([msg EXCEPT !.parts = <<"damaged">>], {"damage"}, {})
    \/ InTransit([msg EXCEPT !.aad = NilBytes], {"damage"}, {})
    \/ InTransit([msg EXCEPT !.form = "broken"], {"damage"}, {})

(***************************************************************************)
(* The consumer.                                                           *)
(***************************************************************************)
ParseEncrypted(a) ==
    LET ok == SanitizedOK(msg, a.algs, a.encs)
    IN  /\ at = "wire"
        /\ at' = IF ok THEN "parsed" ELSE "refused"
        /\ obj' = IF ok THEN Parse(msg) ELSE NoObj
        /\ allow' = a
        /\ msg' = NoMsg
        /\ UNCHANGED <<encrypter, err, made, origin, result>>

DecryptOne(vk) ==
    /\ at \in {"encrypted", "parsed"}
    /\ result' = [op |-> "decrypt", vk |-> vk, ret |-> Decrypt(obj, vk)]
    /\ UNCHANGED <<at, encrypter, err, msg, obj, allow, made, origin>>

DecryptMany(vk) ==
    /\ at \in {"encrypted", "parsed"}
    /\ result' = [op |-> "multi", vk |-> vk, ret |-> DecryptMulti(obj, vk)]
    /\ UNCHANGED <<at, encrypter, err, msg, obj, allow, made, origin>>

Next ==
    \/ \E conf \in EncrypterConf : New(conf) \/ NewMulti(conf)
    \/ \E p \in Plaintext, aad \in Aad, r, k \in BOOLEAN : Encrypt(p, aad, r, k)
    \/ \E f \in Foreign : ForeignEncrypt(f)
    \/ SendCompact
    \/ SendFull
    \/ \E h \in AddedHeader : AddHeader(h)
    \/ \E b \in OtherBytes : DamageProtected(b)
    \/ DamageBody
    \/ \E a \in AllowLists : ParseEncrypted(a)
    \/ \E vk \in DecKeys : DecryptOne(vk) \/ DecryptMany(vk)

Spec == Init /\ [][Next]_vars

(***************************************************************************)
(* Properties.                                                             *)
(***************************************************************************)
\* When Decrypt or DecryptMulti succeeds, the plaintext is the one the producer
\* sealed, with this protected header and this aad, for the key that was used,
\* and the index returned is the place the producer gave that key.
DecryptedWasEncrypted ==
    result.ret.outcome = "ok" =>
        LET m == made[1]
        IN  /\ result.ret.plaintext = m.plain
            /\ m.header = obj.protected
            /\ m.aad = obj.aad
            /\ m.keys[result.ret.index] = TryJWKS(result.vk, obj.Header)[1].id

\* The allow-lists of the parser bind the decrypters, which read the headers
\* again: every recipient's alg is listed, and the enc that selects the content
\* cipher (mergedHeaders(nil)) is listed and is the one the recipient's own
\* headers name, which ECDH-ES derives its key from.
AlgEncPinned ==
    at = "parsed" =>
        \A i \in DOMAIN obj.recipients :
            LET h == RecipientHeaders(obj, obj.recipients[i])
            IN  /\ GetString(h, "alg") \in allow.algs
                /\ GetString(h, "enc") \in allow.encs
                /\ EncOf(obj) \in {"", GetString(h, "enc")}

\* An error the library reported or swallowed never ends in a message: the
\* encrypter that NewEncrypter returns along with an error encrypts nothing,
\* and a key derivation whose error encryptKey drops yields no recipient.
NoMessageAfterError == err => at \in {"start", "ready", "failed", "crashed"}

\* What Encrypt made opens with the key of every recipient, straight away and
\* after any number of serializations and parses, at a place that was made for
\* that key; it yields the plaintext and the alg and kid of that place, and a
\* message for one recipient is also found through a JWK Set by its kid.  The
\* conditions are the code's: extra and added headers name no parameter that
\* Decrypt itself reads, the sizes are within the limits of inflate, PBES2 and
\* RSA1_5, and the aad has travelled.
ReadByDecrypt ==
    {"alg", "enc", "zip", "crit", "epk", "apu", "apv", "iv", "tag", "p2c", "p2s"}

Sound(o) == (DOMAIN o.conf.extra \cup o.added) \cap ReadByDecrypt = {} /\ SanitizeOK(o.conf.extra)

Fits(o) ==
    /\ o.conf.zip = "DEF" => Inflatable(o.plain[2])
    /\ \A i \in DOMAIN o.conf.recipients :
          LET r == o.conf.recipients[i]
          IN  /\ r.alg \in Pbes2Alg => r.p2c <= maxP2C
              /\ r.alg = "RSA1_5" => r.key.size % 8 = 0

AadKept(o) ==
    o.aad = NilBytes \/ at = "encrypted" \/ (o.aad # EmptyBytes /\ "compact" \notin o.touched)

MadeBy(who) == made # <<>> /\ origin[1].from = who
Intact(who) == MadeBy(who) /\ "damage" \notin origin[1].touched

Opens(o, i) ==
    LET rs  == o.conf.recipients
        ret == DecryptMulti(obj, <<"key", rs[i].key>>)
        r   == rs[ret.index]
    IN  /\ ret.outcome = "ok"
        /\ ret.plaintext = o.plain
        /\ r.key = rs[i].key
        /\ ret.header.alg = r.alg
        /\ "kid" \notin DOMAIN o.conf.extra \cup o.added => ret.header.kid = KeyIDOf(r)

FoundInSets(o) ==
    LET r == o.conf.recipients[1]
    IN  Len(o.conf.recipients) = 1 /\ "kid" \notin DOMAIN o.conf.extra /\ KeyIDOf(r) # "" =>
            \A vk \in {v \in DecKeys : Kind(v) = "jwks"} :
               LET entries == KeysOf(Value(vk), KeyIDOf(r))
               IN  entries # <<>> /\ entries[1].key = r.key => Decrypt(obj, vk).outcome = "ok"

RoundTrip ==
    Intact("encrypt") /\ Sound(origin[1]) =>
        LET o == origin[1]
            rs == o.conf.recipients
        IN  /\ at = "refused" /\ "nonce" \notin o.added =>
                   o.conf.enc \notin allow.encs \/ \E i \in DOMAIN rs : rs[i].alg \notin allow.algs
            /\ at \in {"encrypted", "parsed"} /\ Fits(o) /\ AadKept(o) =>
                   /\ \A i \in DOMAIN rs : Opens(o, i)
                   /\ at = "parsed" => FoundInSets(o)

Inflates(zip, p) == zip # "" => zip = "DEF" /\ Inflatable(p)

\* A message of another implementation opens as it came in, wherever it keeps
\* its headers and however it serializes the protected one: computeAuthData
\* keeps the original bytes.  The conditions are the code's: enc and alg are
\* found in the headers, nothing is critical, the content inflates within the
\* limit, and DecryptMulti can return the headers of every place for this key
\* up to the recipient's.
ForeignDecrypts ==
    at = "parsed" /\ Intact("foreign") /\ origin[1].touched = {} =>
        LET f == origin[1].conf
            h(i) == RecipientHeaders(obj, obj.recipients[i])
            mine(i) == {j \in 1..i : f.recipients[j].key.id = f.recipients[i].key.id}
        IN  /\ EncOf(obj) = f.enc /\ CheckNoCritical(GlobalHeaders(obj))
            /\ Inflates(f.zip, f.plain)
            => \A i \in DOMAIN f.recipients :
                  /\ GetString(h(i), "alg") = f.recipients[i].alg
                  /\ \A j \in mine(i) : SanitizeOK(h(j))
                  => LET ret == DecryptMulti(obj, <<"key", f.recipients[i].key>>)
                     IN  ret.outcome = "ok" /\ ret.plaintext = origin[1].plain

\* Decrypt and DecryptMulti are two copies of one procedure; with one recipient
\* they agree for every key, but for the headers that only DecryptMulti has to
\* return, and Decrypt always finds obj.recipients[0] on a parsed object.
DecryptAgreesWithMulti ==
    at \in {"encrypted", "parsed"} =>
        \A vk \in DecKeys :
            LET one  == Decrypt(obj, vk)
                many == DecryptMulti(obj, vk)
            IN  /\ one.outcome # "panic"
                /\ Len(obj.recipients) = 1 =>
                      \/ one.outcome = many.outcome /\ one.plaintext = many.plaintext
                      \/ /\ one.outcome = "ok" /\ many.outcome = "header"
                         /\ ~SanitizeOK(RecipientHeaders(obj, obj.recipients[1]))
=============================================================================
