----------------------------- MODULE JweProofs ------------------------------
(***************************************************************************)
(* Proofs about the life of a JWE message, for every set of keys,          *)
(* encrypter configurations, foreign messages, headers and allow-lists.    *)
(***************************************************************************)
EXTENDS Jwe, WellFoundedInduction, TLAPS

(***************************************************************************)
(* Facts about sequences.                                                  *)
(***************************************************************************)
\* A function on 1 .. n is a sequence.
LEMMA FunctionIsSeq ==
    ASSUME NEW S, NEW n \in Nat, NEW f \in [1 .. n -> S]
    PROVE  f \in Seq(S) /\ Len(f) = n
OBVIOUS

\* Only the empty sequence has no element.
LEMMA EmptySeq ==
    ASSUME NEW S
    PROVE  /\ <<>> \in Seq(S) /\ Len(<<>>) = 0
           /\ \A s \in Seq(S) : s # <<>> => Len(s) \in Nat \ {0}
OBVIOUS

\* A sequence is a function on its indices.
LEMMA LenProperties ==
    ASSUME NEW S, NEW s \in Seq(S)
    PROVE  Len(s) \in Nat /\ s \in [1 .. Len(s) -> S] /\ DOMAIN s = 1 .. Len(s)
OBVIOUS

(***************************************************************************)
(* Sequences.                                                              *)
(***************************************************************************)
IsSeq(s) == s \in Seq({s[i] : i \in DOMAIN s})

\* A function on the indices of a sequence is a sequence of the same length.
LEMMA MapIsSeq ==
    ASSUME NEW s, IsSeq(s), NEW t, t = [i \in DOMAIN s |-> t[i]]
    PROVE  IsSeq(t) /\ Len(t) = Len(s)
<1>1. DOMAIN s = 1..Len(s) /\ Len(s) \in Nat
  BY LenProperties DEF IsSeq
<1>2. t \in [1..Len(s) -> {t[i] : i \in DOMAIN t}]
  BY <1>1
<1>3. IsSeq(t)
  BY <1>1, <1>2, FunctionIsSeq DEF IsSeq
<1> QED
  BY <1>1, <1>3, LenProperties DEF IsSeq

\* The empty sequence, and sequences of one element.
LEMMA ShortSeqs ==
    /\ IsSeq(<<>>) /\ DOMAIN <<>> = {}
    /\ \A x : /\ IsSeq(<<x>>) /\ <<x>> # <<>> /\ <<x>>[1] = x
              /\ DOMAIN <<x>> = {1} /\ Len(<<x>>) = 1
BY DEF IsSeq

\* The shortest sequences are not of four elements, as sealed content is.
LEMMA NotFourLong == Len(<<>>) # 4 /\ \A x : Len(<<x>>) # 4
OBVIOUS

\* The indices of a sequence, by its length.
LEMMA Indices ==
    ASSUME NEW s, IsSeq(s)
    PROVE  /\ Len(s) \in Nat /\ DOMAIN s = 1..Len(s)
           /\ s = <<>> <=> DOMAIN s = {}
           /\ s # <<>> => 1 \in DOMAIN s
           /\ Len(s) = 1 => DOMAIN s = {1} /\ s # <<>>
<1>1. Len(s) \in Nat /\ DOMAIN s = 1..Len(s)
  BY LenProperties DEF IsSeq
<1>2. s = <<>> <=> Len(s) = 0
  BY EmptySeq DEF IsSeq
<1> QED
  BY <1>1, <1>2

(***************************************************************************)
(* Errors of the constructor and of the key derivation.                    *)
(***************************************************************************)
\* NewEncrypter and NewMultiEncrypter return no recipients with an error.
LEMMA ErrorMeansEmpty ==
    ASSUME NEW conf
    PROVE  /\ ~NewEncrypterOK(conf) => NewEncrypter(conf).recipients = <<>>
           /\ ~NewMultiEncrypterOK(conf) => NewMultiEncrypter(conf).recipients = <<>>
<1>1. NilEncrypter.recipients = <<>>
  BY DEF NilEncrypter, Encrypter
<1>2. ASSUME ~NewEncrypterOK(conf) PROVE NewEncrypter(conf).recipients = <<>>
  <2> DEFINE b == conf.enc \in DOMAIN ContentEncryption /\ conf.recipients[1].alg \notin {DIRECT, "ECDH_ES"}
  <2>1. CASE b
    <3>1. NewEncrypter(conf) = Encrypter(conf, "random", <<>>)
      BY <1>2, <2>1 DEF NewEncrypter
    <3> QED
      BY <3>1 DEF Encrypter
  <2>2. CASE ~b
    BY <1>1, <1>2, <2>2 DEF NewEncrypter
  <2> QED
    BY <2>1, <2>2
<1> QED
  BY <1>1, <1>2 DEF NewMultiEncrypter

\* An error leaves nothing to encrypt for.
ErrorInv ==
    /\ at = "start" => ~err
    /\ at = "ready" /\ err => encrypter.recipients = <<>>
    /\ NoMessageAfterError

\* Every step keeps the error away from a message.
LEMMA ErrorInvStep == ErrorInv /\ [Next]_vars => ErrorInv'
<1> SUFFICES ASSUME ErrorInv, [Next]_vars PROVE ErrorInv'
  OBVIOUS
<1>1. CASE \E conf \in EncrypterConf : New(conf) \/ NewMulti(conf)
  <2>1. PICK conf \in EncrypterConf : New(conf) \/ NewMulti(conf)
    BY <1>1
  <2>2. at' \in {"failed", "ready"} /\ (err' => encrypter'.recipients = <<>>)
    BY Zenon, <2>1, ErrorMeansEmpty DEF New, NewMulti, Construct
  <2> QED
    BY <2>2 DEF ErrorInv, NoMessageAfterError
<1>2. CASE \E p \in Plaintext, aad \in Aad, r, k \in BOOLEAN : Encrypt(p, aad, r, k)
  <2>1. PICK p \in Plaintext, aad \in Aad, r \in BOOLEAN, k \in BOOLEAN : Encrypt(p, aad, r, k)
    BY <1>2
  <2>2. at' \in {"crashed", "encrypted", "failed"}
    BY Zenon, <2>1 DEF Encrypt
  <2>3. at' = "encrypted" => encrypter.recipients # <<>> /\ ~EncryptPanics(encrypter, k)
    BY Zenon, <2>1 DEF Encrypt
  <2>4. at' = "encrypted" => ~err'
    BY Zenon, <2>1, <2>3 DEF Encrypt, EncryptPanics, ErrorInv
  <2> QED
    BY <2>2, <2>4 DEF ErrorInv, NoMessageAfterError
<1>3. CASE \E f \in Foreign : ForeignEncrypt(f)
  <2>1. at = "start" /\ at' = "wire" /\ err' = err
    BY Zenon, <1>3 DEF ForeignEncrypt
  <2> QED
    BY <2>1 DEF ErrorInv, NoMessageAfterError
<1>4. CASE SendCompact \/ SendFull
  <2>1. at \in {"encrypted", "parsed"} /\ at' = "wire" /\ err' = err
    BY <1>4 DEF SendCompact, SendFull, Send
  <2> QED
    BY <2>1 DEF ErrorInv, NoMessageAfterError
<1>5. CASE \/ \E h \in AddedHeader : AddHeader(h)
           \/ \E b \in OtherBytes : DamageProtected(b)
           \/ DamageBody
  <2>1. at' = at /\ err' = err /\ encrypter' = encrypter
    BY <1>5 DEF AddHeader, DamageProtected, DamageBody, InTransit
  <2> QED
    BY <2>1 DEF ErrorInv, NoMessageAfterError
<1>6. CASE \E a \in AllowLists : ParseEncrypted(a)
  <2>1. at = "wire" /\ at' \in {"parsed", "refused"} /\ err' = err
    BY <1>6 DEF ParseEncrypted
  <2> QED
    BY <2>1 DEF ErrorInv, NoMessageAfterError
<1>7. CASE \/ \E vk \in DecKeys : DecryptOne(vk) \/ DecryptMany(vk)
           \/ UNCHANGED vars
  <2>1. at' = at /\ err' = err /\ encrypter' = encrypter
    BY <1>7 DEF DecryptOne, DecryptMany, vars
  <2> QED
    BY <2>1 DEF ErrorInv, NoMessageAfterError
<1> QED
  BY <1>1, <1>2, <1>3, <1>4, <1>5, <1>6, <1>7 DEF Next

\* For every instance, an error that NewEncrypter returned beside an encrypter, or
\* that encryptKey dropped, never ends in a message.
THEOREM NoMessageAfterErrorAlways == Spec => []NoMessageAfterError
<1>1. Init => ErrorInv
  BY DEF Init, ErrorInv, NoMessageAfterError
<1>2. ErrorInv => NoMessageAfterError
  BY DEF ErrorInv
<1> QED
  BY <1>1, <1>2, ErrorInvStep, PTL DEF Spec

(***************************************************************************)
(* The allow-lists.                                                        *)
(***************************************************************************)
\* rawHeader.merge keeps every parameter that the destination has set.
LEMMA MergeKeepsSet ==
    ASSUME NEW dst, NEW src, NEW k, IsSet(dst, k)
    PROVE  k \in DOMAIN Merge(dst, src) /\ Merge(dst, src)[k] = dst[k]
BY Zenon DEF Merge, IsSet, Present

\* A parameter that reads as a non-empty string counts as set.
LEMMA StringIsSet ==
    ASSUME NEW h, NEW k, GetString(h, k) # ""
    PROVE  IsSet(h, k)
<1>1. k \in DOMAIN h /\ Kind(h[k]) = "str" /\ Value(h[k]) # ""
  BY Zenon DEF GetString
<1>2. Value(Str("")) = ""
  BY Zenon DEF Value, Str
<1>3. h[k] # Str("")
  BY Zenon, <1>1, <1>2
<1> QED
  BY Zenon, <1>1, <1>3 DEF IsSet, Present

\* A non-empty string survives merging another header into its header.
LEMMA StringSurvives ==
    ASSUME NEW h, NEW ptr, NEW k, GetString(h, k) # ""
    PROVE  GetString(MergePtr(h, ptr), k) = GetString(h, k)
<1>1. IsSet(h, k) /\ k \in DOMAIN h
  BY Zenon, StringIsSet DEF IsSet, Present
<1>2. k \in DOMAIN Merge(h, ptr[1]) /\ Merge(h, ptr[1])[k] = h[k]
  BY Zenon, <1>1, MergeKeepsSet
<1>3. CASE ptr = NoHeader
  BY Zenon, <1>3 DEF MergePtr
<1>4. CASE ptr # NoHeader
  BY Zenon, <1>1, <1>2, <1>4 DEF MergePtr, GetString
<1> QED
  BY Zenon, <1>3, <1>4

\* The parser checked the merged headers of every recipient of its object.
CheckedInv ==
    at = "parsed" => \A i \in DOMAIN obj.recipients : RecipientOK(obj, i, allow.algs, allow.encs)

\* Only ParseEncrypted makes a parsed object; later steps leave it alone.
LEMMA CheckedInvStep == CheckedInv /\ [Next]_vars => CheckedInv'
<1> SUFFICES ASSUME CheckedInv, [Next]_vars PROVE CheckedInv'
  OBVIOUS
<1>1. CASE \E conf \in EncrypterConf : New(conf) \/ NewMulti(conf)
  <2>1. at' \in {"failed", "ready"}
    BY <1>1 DEF New, NewMulti, Construct
  <2> QED
    BY <2>1 DEF CheckedInv
<1>2. CASE \E p \in Plaintext, aad \in Aad, r, k \in BOOLEAN : Encrypt(p, aad, r, k)
  <2>1. at' \in {"crashed", "encrypted", "failed"}
    BY Zenon, <1>2 DEF Encrypt
  <2> QED
    BY <2>1 DEF CheckedInv
<1>3. CASE (\E f \in Foreign : ForeignEncrypt(f)) \/ SendCompact \/ SendFull
  <2>1. at' = "wire"
    BY Zenon, <1>3 DEF ForeignEncrypt, SendCompact, SendFull, Send
  <2> QED
    BY <2>1 DEF CheckedInv
<1>4. CASE \/ \E h \in AddedHeader : AddHeader(h)
           \/ \E b \in OtherBytes : DamageProtected(b)
           \/ DamageBody
           \/ \E vk \in DecKeys : DecryptOne(vk) \/ DecryptMany(vk)
           \/ UNCHANGED vars
  <2>1. at' = at /\ obj' = obj /\ allow' = allow
    BY <1>4 DEF AddHeader, DamageProtected, DamageBody, InTransit, DecryptOne, DecryptMany, vars
  <2> QED
    BY <2>1 DEF CheckedInv
<1>5. CASE \E a \in AllowLists : ParseEncrypted(a)
  <2>1. PICK a \in AllowLists : ParseEncrypted(a)
    BY <1>5
  <2>2. at' = "parsed" => SanitizedOK(msg, a.algs, a.encs) /\ obj' = Parse(msg) /\ allow' = a
    BY <2>1 DEF ParseEncrypted
  <2> QED
    BY <2>2 DEF CheckedInv, SanitizedOK
<1> QED
  BY <1>1, <1>2, <1>3, <1>4, <1>5 DEF Next

\* For every instance, the algorithms Decrypt and DecryptMulti read again from the
\* headers are among those the caller of the parser allowed.
THEOREM AlgEncPinnedAlways == Spec => []AlgEncPinned
<1>1. Init => CheckedInv
  BY DEF Init, CheckedInv
<1>2. CheckedInv => AlgEncPinned
  <2> SUFFICES ASSUME CheckedInv, at = "parsed", NEW i \in DOMAIN obj.recipients
               PROVE  LET h == RecipientHeaders(obj, obj.recipients[i])
                      IN  /\ GetString(h, "alg") \in allow.algs
                          /\ GetString(h, "enc") \in allow.encs
                          /\ EncOf(obj) \in {"", GetString(h, "enc")}
    BY Zenon DEF AlgEncPinned
  <2> DEFINE h == RecipientHeaders(obj, obj.recipients[i])
  <2>1. RecipientOK(obj, i, allow.algs, allow.encs)
    BY DEF CheckedInv
  <2>2. GetString(h, "alg") \in allow.algs /\ GetString(h, "enc") \in allow.encs
    BY Zenon, <2>1 DEF RecipientOK, ValidateAlgEnc, Listed
  <2>3. EncOf(obj) # "" => GetString(h, "enc") = EncOf(obj)
    BY Zenon, StringSurvives DEF EncOf, RecipientHeaders
  <2> QED
    BY Zenon, <2>2, <2>3
<1> QED
  BY <1>1, <1>2, CheckedInvStep, PTL DEF Spec

(***************************************************************************)
(* Decrypt and DecryptMulti side by side.                                  *)
(***************************************************************************)
IsMsg(m) ==
    m = [form |-> m.form, protected |-> m.protected, unprotected |-> m.unprotected,
         header |-> m.header, recipients |-> m.recipients, aad |-> m.aad,
         encryptedKey |-> m.encryptedKey, parts |-> m.parts]

\* Lists of recipients are sequences, and an object has a recipient.
Shape ==
    /\ IsSeq(encrypter.recipients)
    /\ IsMsg(msg) /\ IsSeq(msg.recipients)
    /\ IsSeq(obj.recipients)
    /\ at \in {"encrypted", "parsed"} => obj.recipients # <<>>

\* With one recipient, the two procedures look at the same place.
LEMMA OneRecipientAgrees ==
    ASSUME NEW o, NEW vk, IsSeq(o.recipients), o.recipients # <<>>
    PROVE  LET one  == Decrypt(o, vk)
               many == DecryptMulti(o, vk)
           IN  /\ one.outcome # "panic"
               /\ Len(o.recipients) = 1 =>
                     \/ one.outcome = many.outcome /\ one.plaintext = many.plaintext
                     \/ /\ one.outcome = "ok" /\ many.outcome = "header"
                        /\ ~SanitizeOK(RecipientHeaders(o, o.recipients[1]))
<1> DEFINE refusal == Refusal(o, vk)
           key == TryJWKS(vk, o.Header)[1]
           Opened(i) == OpenWith(o, key, i)
           good == {i \in DOMAIN o.recipients : Opened(i) # <<>>}
           first == CHOOSE g \in good : \A j \in good : g <= j
           one == Decrypt(o, vk)
           many == DecryptMulti(o, vk)
           h == RecipientHeaders(o, o.recipients[1])
           out == Decompress(o, Opened(1)[1])
<1>f. \A x : Failure(x).outcome = x /\ Failure(x).plaintext = <<>>
  BY DEF Failure, Return
<1>r. refusal \in {"crit", "kid", "keytype", "enc", "none"}
  BY DEF Refusal
<1>d. one = IF Len(o.recipients) > 1 THEN Failure("toomany")
            ELSE IF refusal # "none" THEN Failure(refusal)
            ELSE IF o.recipients = <<>> THEN Failure("panic")
            ELSE IF Opened(1) = <<>> THEN Failure("crypto")
            ELSE IF out = <<>> THEN Failure("zip")
            ELSE Return("ok", 1, ZeroHeader, out[1])
  BY DEF Decrypt
<1>o. \A i, hd, p : Return("ok", i, hd, p).outcome = "ok" /\ Return("ok", i, hd, p).plaintext = p
  BY DEF Return
<1>1. one.outcome # "panic"
  <2> HIDE DEF one, refusal, Opened, out
  <2> QED
    BY <1>f, <1>r, <1>d, <1>o
<1>2. ASSUME Len(o.recipients) = 1
      PROVE  \/ one.outcome = many.outcome /\ one.plaintext = many.plaintext
             \/ one.outcome = "ok" /\ many.outcome = "header" /\ ~SanitizeOK(h)
  <2>1. DOMAIN o.recipients = {1}
    BY <1>2, Indices
  <2>2. good # {} => good = {1} /\ first = 1
    BY <2>1
  <2>3. good = {} <=> Opened(1) = <<>>
    BY <2>1
  <2>4. many = IF refusal # "none" THEN Failure(refusal)
               ELSE IF o.recipients = <<>> THEN Failure("norecipients")
               ELSE IF good = {} THEN Failure("crypto")
               ELSE IF Decompress(o, Opened(first)[1]) = <<>> THEN Failure("zip")
               ELSE IF ~SanitizeOK(RecipientHeaders(o, o.recipients[first])) THEN Failure("header")
               ELSE Return("ok", first, Sanitized(RecipientHeaders(o, o.recipients[first])),
                           Decompress(o, Opened(first)[1])[1])
    BY DEF DecryptMulti
  <2>5. many = IF refusal # "none" THEN Failure(refusal)
               ELSE IF Opened(1) = <<>> THEN Failure("crypto")
               ELSE IF out = <<>> THEN Failure("zip")
               ELSE IF ~SanitizeOK(h) THEN Failure("header")
               ELSE Return("ok", 1, Sanitized(h), out[1])
    <3> HIDE DEF many, refusal, Opened, good, first
    <3> QED
      BY <2>2, <2>3, <2>4
  <2>6. one = IF refusal # "none" THEN Failure(refusal)
              ELSE IF Opened(1) = <<>> THEN Failure("crypto")
              ELSE IF out = <<>> THEN Failure("zip")
              ELSE Return("ok", 1, ZeroHeader, out[1])
    <3> HIDE DEF one, refusal, Opened, out
    <3> QED
      BY <1>2, <1>d
  <2> HIDE DEF one, many, refusal, Opened, out, h
  <2> QED
    BY <2>5, <2>6, <1>f, <1>o
<1> QED
  BY <1>1, <1>2

\* The constructors keep the list of recipients a sequence.
LEMMA EncrypterShape ==
    ASSUME NEW conf, IsSeq(conf.recipients)
    PROVE  IsSeq(NewEncrypter(conf).recipients) /\ IsSeq(NewMultiEncrypter(conf).recipients)
<1> DEFINE infos == [i \in DOMAIN conf.recipients |-> KeyInfo(conf.recipients[i])]
<1>1. NewEncrypter(conf).recipients \in {<<KeyInfo(conf.recipients[1])>>, <<>>}
  <2>1. NewEncrypterOK(conf) => NewEncrypter(conf).recipients = <<KeyInfo(conf.recipients[1])>>
    BY DEF NewEncrypter, Encrypter
  <2> QED
    BY Zenon, <2>1, ErrorMeansEmpty
<1>2. NewMultiEncrypter(conf).recipients \in {infos, <<>>}
  BY ErrorMeansEmpty DEF NewMultiEncrypter, Encrypter
<1>3. IsSeq(infos)
  BY Zenon, MapIsSeq
<1> QED
  BY <1>1, <1>2, <1>3, ShortSeqs

\* EncryptWithAuthData makes an object with as many recipients as the encrypter.
LEMMA EncryptedShape ==
    ASSUME NEW e, NEW p, NEW aad, IsSeq(e.recipients), e.recipients # <<>>
    PROVE  LET o == EncryptObject(e, p, aad)
           IN  /\ IsSeq(o.recipients) /\ o.recipients # <<>>
               /\ DOMAIN o.recipients = DOMAIN e.recipients
               /\ \A i \in DOMAIN o.recipients :
                     o.recipients[i].encryptedKey = EncryptKey(e.recipients[i], GenKey(e)).encryptedKey
<1> DEFINE cek == GenKey(e)
           rs == [i \in DOMAIN e.recipients |-> RecipientInfo(e.recipients[i], cek)]
           one == <<[rs[1] EXCEPT !.header = NoHeader]>>
           o == EncryptObject(e, p, aad)
<1>1. o.recipients = IF Len(rs) = 1 THEN one ELSE rs
  BY DEF EncryptObject
<1>2. IsSeq(rs) /\ Len(rs) = Len(e.recipients) /\ DOMAIN rs = DOMAIN e.recipients
  BY MapIsSeq
<1>3. \A i \in DOMAIN rs : rs[i].encryptedKey = EncryptKey(e.recipients[i], cek).encryptedKey
  BY Zenon DEF RecipientInfo
<1>4. 1 \in DOMAIN rs => one[1].encryptedKey = rs[1].encryptedKey
  BY Zenon DEF RecipientInfo
<1>5. rs # <<>>
  BY <1>2, Indices
<1> HIDE DEF o, rs, cek
<1>6. CASE Len(rs) = 1
  <2>1. DOMAIN rs = {1}
    BY <1>2, <1>6, Indices
  <2>2. o.recipients = one
    BY <1>1, <1>6
  <2>3. IsSeq(one) /\ one # <<>> /\ DOMAIN one = {1}
    BY ShortSeqs
  <2> HIDE DEF one
  <2> QED
    BY <1>2, <1>3, <1>4, <2>1, <2>2, <2>3 DEF o, cek
<1>7. CASE Len(rs) # 1
  <2>1. o.recipients = rs
    BY Zenon, <1>1, <1>7
  <2> QED
    BY <1>2, <1>3, <1>5, <2>1 DEF o, cek
<1> QED
  BY <1>6, <1>7

\* Every step keeps the lists of recipients in shape.
LEMMA ShapeStep == Shape /\ [Next]_vars => Shape'
<1> SUFFICES ASSUME Shape, [Next]_vars PROVE Shape'
  OBVIOUS
<1>m. IsMsg(NoMsg) /\ NoMsg.recipients = <<>> /\ NoObj.recipients = <<>> /\ IsSeq(<<>>)
  BY ShortSeqs DEF IsMsg, NoMsg, NoObj
<1>1. CASE \E conf \in EncrypterConf : New(conf) \/ NewMulti(conf)
  <2>1. PICK conf \in EncrypterConf : New(conf) \/ NewMulti(conf)
    BY <1>1
  <2>2. IsSeq(conf.recipients)
    BY Zenon, ProducerAssumption DEF IsSeq
  <2>3. /\ at' \in {"failed", "ready"} /\ msg' = msg /\ obj' = obj
        /\ encrypter' = NewEncrypter(conf) \/ encrypter' = NewMultiEncrypter(conf)
    BY <2>1 DEF New, NewMulti, Construct
  <2> QED
    BY <2>2, <2>3, EncrypterShape DEF Shape
<1>2. CASE \E p \in Plaintext, aad \in Aad, r, k \in BOOLEAN : Encrypt(p, aad, r, k)
  <2>1. PICK p \in Plaintext, aad \in Aad, r \in BOOLEAN, k \in BOOLEAN : Encrypt(p, aad, r, k)
    BY <1>2
  <2>2. /\ encrypter' = encrypter /\ msg' = msg
        /\ at' \in {"crashed", "encrypted", "failed"}
        /\ at' = "encrypted" => encrypter.recipients # <<>>
        /\ obj' = IF at' = "encrypted" THEN EncryptObject(encrypter, p, aad) ELSE obj
    BY Zenon, <2>1 DEF Encrypt
  <2>3. at' = "encrypted" => IsSeq(obj'.recipients) /\ obj'.recipients # <<>>
    BY <2>2, EncryptedShape DEF Shape
  <2> QED
    BY <2>2, <2>3 DEF Shape
<1>3. CASE \E f \in Foreign : ForeignEncrypt(f)
  <2>1. PICK f \in Foreign : ForeignEncrypt(f)
    BY <1>3
  <2>2. at' = "wire" /\ msg' = ForeignMsg(f) /\ obj' = obj /\ encrypter' = encrypter
    BY Zenon, <2>1 DEF ForeignEncrypt
  <2> DEFINE rs == [i \in DOMAIN f.recipients |->
                       [header |-> f.recipients[i].header, encryptedKey |-> f.recipients[i].ek]]
  <2>3. IsMsg(ForeignMsg(f)) /\ ForeignMsg(f).recipients \in {<<>>, rs}
    BY DEF ForeignMsg, IsMsg
  <2>4. IsSeq(f.recipients)
    BY Zenon, ProducerAssumption DEF IsSeq
  <2>5. IsSeq(rs)
    BY <2>4, MapIsSeq
  <2> QED
    BY Zenon, <1>m, <2>2, <2>3, <2>5 DEF Shape
<1>4. CASE SendCompact \/ SendFull
  <2>1. /\ at' = "wire" /\ obj' = NoObj /\ encrypter' = encrypter
        /\ msg' = CompactSerialize(obj) \/ msg' = FullSerialize(obj)
    BY Zenon, <1>4 DEF SendCompact, SendFull, Send
  <2>2. /\ IsMsg(CompactSerialize(obj)) /\ IsMsg(FullSerialize(obj))
        /\ CompactSerialize(obj).recipients = <<>>
        /\ FullSerialize(obj).recipients \in {obj.recipients, <<>>}
    BY DEF IsMsg, CompactSerialize, FullSerialize
  <2> QED
    BY <1>m, <2>1, <2>2 DEF Shape
<1>5. CASE \/ \E h \in AddedHeader : AddHeader(h)
           \/ \E b \in OtherBytes : DamageProtected(b)
           \/ DamageBody
  <2>1. at' = at /\ obj' = obj /\ encrypter' = encrypter
    BY <1>5 DEF AddHeader, DamageProtected, DamageBody, InTransit
  <2>2. \/ \E x : msg' = [msg EXCEPT !.unprotected = x]
        \/ \E x : msg' = [msg EXCEPT !.header = x]
        \/ \E x : msg' = [msg EXCEPT !.protected = x]
        \/ \E x : msg' = [msg EXCEPT !.parts = x]
        \/ \E x : msg' = [msg EXCEPT !.aad = x]
        \/ \E x : msg' = [msg EXCEPT !.form = x]
    BY <1>5 DEF AddHeader, DamageProtected, DamageBody, InTransit
  <2>3. IsMsg(msg') /\ msg'.recipients = msg.recipients
    BY <2>2 DEF IsMsg, Shape
  <2> QED
    BY <2>1, <2>3 DEF Shape
<1>6. CASE \E a \in AllowLists : ParseEncrypted(a)
  <2>1. PICK a \in AllowLists : ParseEncrypted(a)
    BY <1>6
  <2>2. /\ at' \in {"parsed", "refused"} /\ msg' = NoMsg /\ encrypter' = encrypter
        /\ obj' = IF at' = "parsed" THEN Parse(msg) ELSE NoObj
    BY <2>1 DEF ParseEncrypted
  <2>3. Parse(msg).recipients = RawRecipients(msg)
    BY Zenon DEF Parse
  <2>4. IsSeq(RawRecipients(msg)) /\ RawRecipients(msg) # <<>>
    BY ShortSeqs DEF RawRecipients, Shape
  <2> QED
    BY <1>m, <2>2, <2>3, <2>4 DEF Shape
<1>7. CASE \/ \E vk \in DecKeys : DecryptOne(vk) \/ DecryptMany(vk)
           \/ UNCHANGED vars
  <2>1. at' = at /\ obj' = obj /\ msg' = msg /\ encrypter' = encrypter
    BY <1>7 DEF DecryptOne, DecryptMany, vars
  <2> QED
    BY <2>1 DEF Shape
<1> QED
  BY <1>1, <1>2, <1>3, <1>4, <1>5, <1>6, <1>7 DEF Next

\* In every reachable state lists of recipients are sequences and an object has one.
LEMMA ShapeAlways == Spec => []Shape
<1>1. Init => Shape
  <2>1. NilEncrypter.recipients = <<>>
    BY DEF NilEncrypter, Encrypter
  <2>2. IsMsg(NoMsg) /\ NoMsg.recipients = <<>> /\ NoObj.recipients = <<>>
    BY DEF NoMsg, NoObj, IsMsg
  <2> QED
    BY Zenon, <2>1, <2>2, ShortSeqs DEF Init, Shape
<1> QED
  BY <1>1, ShapeStep, PTL DEF Spec

\* For every instance, the two decrypters agree on a message for one recipient, and
\* Decrypt never indexes an empty list of recipients.
THEOREM DecryptersAgreeAlways == Spec => []DecryptAgreesWithMulti
<1>1. Shape => DecryptAgreesWithMulti
  <2> SUFFICES ASSUME Shape, at \in {"encrypted", "parsed"}, NEW vk \in DecKeys
               PROVE  LET one  == Decrypt(obj, vk)
                          many == DecryptMulti(obj, vk)
                      IN  /\ one.outcome # "panic"
                          /\ Len(obj.recipients) = 1 =>
                                \/ one.outcome = many.outcome /\ one.plaintext = many.plaintext
                                \/ /\ one.outcome = "ok" /\ many.outcome = "header"
                                   /\ ~SanitizeOK(RecipientHeaders(obj, obj.recipients[1]))
    BY DEF DecryptAgreesWithMulti
  <2>1. IsSeq(obj.recipients) /\ obj.recipients # <<>>
    BY DEF Shape
  <2> QED
    BY Zenon, <2>1, OneRecipientAgrees
<1> QED
  BY <1>1, ShapeAlways, PTL

(***************************************************************************)
(* What a decrypter opens.  An object, or the message it travels in, holds *)
(* the content its producer sealed, or nothing that opens; each encrypted  *)
(* key was made for the recipient in that place.                           *)
(***************************************************************************)
SealedBy(parts, m) ==
    /\ parts = <<parts[1], parts[2], parts[3], parts[4]>>
    /\ HeaderPtr(parts[3][1]) = m.header
    /\ parts[3][2] = IF m.aad = NilBytes THEN <<>> ELSE <<m.aad>>
    /\ parts[4] = Sealed(parts[4][1], m.plain[2])
    /\ m.plain = Sealed("", m.plain[2])
    /\ parts[4][1] # "" => m.header # NoHeader /\ GetString(m.header[1], "zip") = parts[4][1]

Holds(rs, parts, m) ==
    \/ parts = NoParts
    \/ parts = <<"damaged">>
    \/ /\ SealedBy(parts, m)
       /\ \A i \in DOMAIN rs : MadeFor(rs[i].encryptedKey, parts[2], m.keys[i])

\* The content was sealed with cek.
SealedWith(parts, cek) == Len(parts) = 4 /\ parts[2] = cek

\* Content that opens with a key was sealed with that key.
LEMMA OpenNeedsKey ==
    ASSUME NEW enc, NEW cek, NEW auth, NEW parts, Open(enc, cek, auth, parts) # <<>>
    PROVE  SealedWith(parts, cek)
  BY DEF Open, Seal, SealedWith

\* Sealed content opens with the key that sealed it; nothing else comes out of it.
LEMMA SealedOpens ==
    ASSUME NEW enc \in DOMAIN ContentEncryption, NEW cek, SizeOf(cek) = ContentEncryption[enc],
           NEW auth, NEW parts, NEW pt, parts = Seal(enc, cek, auth, pt)
    PROVE  /\ Open(enc, cek, auth, parts) = <<pt>>
           /\ \A c : Open(enc, c, auth, parts) \in {<<>>, <<pt>>}
<1>1. Len(parts) = 4 /\ parts[4] = pt
  BY DEF Seal
<1>2. AeadTakes(Family(enc), ContentEncryption[enc])
  BY DEF AeadTakes, Family, ContentEncryption, AesSizes
<1>3. ContentEncryption[enc] \in Nat
  BY DEF ContentEncryption
<1>4. TagSize(Family(enc), ContentEncryption[enc]) <= TagSize(Family(enc), ContentEncryption[enc])
  BY <1>3 DEF TagSize
<1>5. Open(enc, cek, auth, parts) = <<pt>>
  BY Zenon, <1>1, <1>2, <1>4 DEF Open
<1>6. \A c : Open(enc, c, auth, parts) \in {<<>>, <<pt>>}
  BY Zenon, <1>1 DEF Open
<1> QED
  BY Zenon, <1>5, <1>6

\* What is held is sealed content, unless it cannot be.
LEMMA HeldSealed ==
    ASSUME NEW rs, NEW parts, NEW m, Holds(rs, parts, m), Len(parts) = 4
    PROVE  \A i \in DOMAIN rs : MadeFor(rs[i].encryptedKey, parts[2], m.keys[i])
  BY Zenon, NotFourLong DEF Holds, NoParts

\* The protected header of an object is the one in the bytes computeAuthData uses.
Consistent(o) ==
    IF o.original = Absent THEN o.protected = NoHeader \/ o.protected = <<o.protected[1]>>
    ELSE o.protected = HeaderPtr(o.original)

\* The bytes in the authenticated data lead to the object's protected header.
LEMMA AuthHeader ==
    ASSUME NEW o, Consistent(o)
    PROVE  HeaderPtr(AuthData(o.original, o.protected, o.aad)[1]) = o.protected
<1> DEFINE b == IF o.original # Absent THEN o.original ELSE BytesOf(o.protected)
<1>1. AuthData(o.original, o.protected, o.aad)[1] = IF Kind(b) = "empty" THEN Absent ELSE b
  BY DEF AuthData
<1>2. HeaderPtr(Absent) = NoHeader
  BY DEF HeaderPtr, Absent, Kind
<1>3. Kind(b) = "empty" => HeaderPtr(b) = NoHeader
  BY DEF HeaderPtr
<1>4. \A h : HeaderPtr(Canonical(h)) = <<h>>
  BY DEF HeaderPtr, Canonical, Kind
<1>5. HeaderPtr(b) = o.protected
  <2>1. CASE o.original = Absent /\ o.protected = NoHeader
    BY <1>2, <2>1 DEF BytesOf
  <2>2. CASE o.original = Absent /\ o.protected # NoHeader
    BY <1>4, <2>2 DEF BytesOf, Consistent
  <2>3. CASE o.original # Absent
    BY <2>3 DEF Consistent
  <2> QED
    BY <2>1, <2>2, <2>3
<1> HIDE DEF b
<1> QED
  BY <1>1, <1>2, <1>3, <1>5

\* decryptKey of each kind of key finds the content key only with the key that the
\* encrypted key was made for, or that the content key was agreed on with.
LEMMA KeyIsMeant ==
    ASSUME NEW key, NewDecrypterOK(key), NEW h, NEW r, NEW size, NEW cek, NEW id,
           DecryptKey(key, h, r, size) # <<>>, DecryptKey(key, h, r, size)[1] = cek,
           MadeFor(r.encryptedKey, cek, id)
    PROVE  key.id = id
<1> DEFINE ek == r.encryptedKey
           alg == GetString(h, "alg")
<1>u. \A kek : Unwrap(kek, ek) # <<>> => ek[1] = "wrapped" /\ ek[2] = kek
  BY DEF Unwrap
<1>w. ek # <<>> /\ ek[1] \in {"wrapped", "gcm"} => ek[2][2] = id
  BY DEF MadeFor
<1>x. ek # <<>> /\ ek[1] \in {"rsa", "opaque"} => ek[3] = id
  BY DEF MadeFor
<1>c. (cek[1] \in {"key", "ecdh"} => cek[2] = id) /\ cek[1] # "fallback"
  BY DEF MadeFor
<1>k. KeyBytes(key)[1] = "key" /\ KeyBytes(key)[2] = key.id
  BY DEF KeyBytes
<1> HIDE DEF ek
<1>1. CASE key.type \in Symmetric
  <2>1. DecryptKey(key, h, r, size) = SymmetricDecryptKey(key, h, ek)
    BY <1>1 DEF DecryptKey, ek, Symmetric
  <2> DEFINE d == SymmetricDecryptKey(key, h, ek)
             p2s == GetBuf(h, "p2s")
  <2>2. CASE alg = DIRECT
    <3>1. d = <<KeyBytes(key)>>
      BY Zenon, <2>2 DEF SymmetricDecryptKey, GcmKw, Kw, Pbes2Alg, DIRECT
    <3> QED
      BY <1>c, <1>k, <2>1, <3>1
  <2>3. CASE alg \in GcmKw
    <3>1. d # <<>> => ek # <<>> /\ ek[1] = "gcm" /\ ek[2] = KeyBytes(key)
      BY Zenon, <2>3 DEF SymmetricDecryptKey, GcmKw, Kw, Pbes2Alg, DIRECT
    <3> QED
      BY <1>w, <1>k, <2>1, <3>1
  <2>4. CASE alg \in Kw
    <3>1. d # <<>> => ek # <<>> /\ Unwrap(KeyBytes(key), ek) # <<>>
      BY Zenon, <2>4 DEF SymmetricDecryptKey, GcmKw, Kw, Pbes2Alg, DIRECT
    <3> QED
      BY <1>u, <1>w, <1>k, <2>1, <3>1
  <2>5. CASE alg \in Pbes2Alg
    <3>1. d # <<>> => ek # <<>> /\ Unwrap(Pbkdf2(key, alg, p2s, Value(h["p2c"])), ek) # <<>>
      BY Zenon, <2>5 DEF SymmetricDecryptKey, GcmKw, Kw, Pbes2Alg, DIRECT
    <3>2. Pbkdf2(key, alg, p2s, Value(h["p2c"]))[2] = key.id
      BY DEF Pbkdf2
    <3> QED
      BY <1>u, <1>w, <2>1, <3>1, <3>2
  <2>6. CASE alg \notin {DIRECT} \cup GcmKw \cup Kw \cup Pbes2Alg
    BY Zenon, <2>1, <2>6 DEF SymmetricDecryptKey
  <2> QED
    BY <2>2, <2>3, <2>4, <2>5, <2>6
<1>2. CASE key.type = "rsa"
  <2>1. DecryptKey(key, h, r, size) = RsaDecryptKey(key, h, ek, size)
    BY <1>2 DEF DecryptKey, ek, Symmetric
  <2>2. \/ RsaDecryptKey(key, h, ek, size) = <<>>
        \/ RsaDecryptKey(key, h, ek, size) = <<<<"fallback", size>>>>
        \/ ek # <<>> /\ ek[1] = "rsa" /\ ek[3] = key.id
    BY Zenon DEF RsaDecryptKey
  <2> QED
    BY <1>x, <1>c, <2>1, <2>2
<1>3. CASE key.type = "ec"
  <2>1. DecryptKey(key, h, r, size) = EcDecryptKey(key, h, ek, size)
    BY <1>3 DEF DecryptKey, ek, Symmetric
  <2> DEFINE derive(algID, n) == DeriveECDHES(algID, GetBuf(h, "apu"), GetBuf(h, "apv"), key.id,
                                              Value(h["epk"]).id, n)
  <2>2. \/ EcDecryptKey(key, h, ek, size) = <<>>
        \/ EcDecryptKey(key, h, ek, size) = <<derive(GetString(h, "enc"), size)>>
        \/ ek # <<>> /\ EcDecryptKey(key, h, ek, size) = Unwrap(derive(alg, EcdhKw[alg]), ek)
    BY DEF EcDecryptKey
  <2>3. \A a, n : derive(a, n)[1] = "ecdh" /\ derive(a, n)[2] = key.id
    BY DEF DeriveECDHES
  <2> HIDE DEF derive
  <2>4. CASE EcDecryptKey(key, h, ek, size) = <<derive(GetString(h, "enc"), size)>>
    BY <1>c, <2>1, <2>3, <2>4
  <2>5. CASE ek # <<>> /\ EcDecryptKey(key, h, ek, size) = Unwrap(derive(alg, EcdhKw[alg]), ek)
    BY <1>u, <1>w, <2>1, <2>3, <2>5
  <2> QED
    BY <2>1, <2>2, <2>4, <2>5
<1>4. CASE key.type = "opaque"
  <2>1. DecryptKey(key, h, r, size) = OpaqueDecryptKey(key, h, r)
    BY <1>4 DEF DecryptKey, Symmetric
  <2>2. ek # <<>> /\ ek[1] = "opaque" /\ ek[3] = key.id
    BY Zenon, <2>1 DEF OpaqueDecryptKey, ek
  <2> QED
    BY <1>x, <2>2
<1> QED
  BY Zenon, <1>1, <1>2, <1>3, <1>4 DEF NewDecrypterOK

\* What OpenWith returns is what the producer sealed, with the object's protected
\* header and aad, and for the key in that place.
LEMMA OpensOnlySealed ==
    ASSUME NEW o, NEW m, Holds(o.recipients, o.parts, m), Consistent(o),
           NEW key, NewDecrypterOK(key), NEW i \in DOMAIN o.recipients,
           OpenWith(o, key, i) # <<>>
    PROVE  /\ m.header = o.protected
           /\ m.aad = o.aad
           /\ m.keys[i] = key.id
           /\ Decompress(o, OpenWith(o, key, i)[1]) # <<>> =>
                 Decompress(o, OpenWith(o, key, i)[1])[1] = m.plain
<1> DEFINE r == o.recipients[i]
           enc == EncOf(o)
           h == RecipientHeaders(o, r)
           cek == DecryptKey(key, h, r, ContentEncryption[enc])
           auth == AuthData(o.original, o.protected, o.aad)
           pt == o.parts[4]
           zip == pt[1]
<1>1. cek # <<>> /\ OpenWith(o, key, i) = Open(enc, cek[1], auth, o.parts)
  BY SMTT(20) DEF OpenWith
<1>2. Len(o.parts) = 4 /\ o.parts = <<Family(enc), cek[1], auth, pt>> /\ OpenWith(o, key, i) = <<pt>>
  <2> HIDE DEF cek, auth, enc
  <2> QED
    BY Zenon, <1>1 DEF Open, Seal
<1>3. SealedBy(o.parts, m) /\ MadeFor(r.encryptedKey, o.parts[2], m.keys[i])
  BY <1>2 DEF Holds, NoParts
<1>4. o.parts[2] = cek[1] /\ o.parts[3] = auth
  <2> HIDE DEF cek, auth, enc
  <2> QED
    BY <1>2
<1>5. m.header = o.protected
  BY Zenon, <1>3, <1>4, AuthHeader DEF SealedBy
<1>6. m.aad = o.aad
  <2>1. auth[2] = IF o.aad = NilBytes THEN <<>> ELSE <<o.aad>>
    BY DEF AuthData
  <2>2. auth[2] = IF m.aad = NilBytes THEN <<>> ELSE <<m.aad>>
    BY Zenon, <1>3, <1>4 DEF SealedBy
  <2> HIDE DEF auth
  <2> QED
    BY <2>1, <2>2
<1>7. m.keys[i] = key.id
  <2> HIDE DEF r, h
  <2> QED
    BY Zenon, <1>1, <1>3, <1>4, KeyIsMeant
<1>8. ASSUME Decompress(o, pt) # <<>> PROVE Decompress(o, pt)[1] = m.plain
  <2> DEFINE comp == IF o.protected = NoHeader THEN "" ELSE GetString(o.protected[1], "zip")
  <2>1. pt = Sealed(zip, m.plain[2]) /\ m.plain = Sealed("", m.plain[2])
    BY Zenon, <1>3 DEF SealedBy
  <2>2. zip # "" => comp = zip
    BY Zenon, <1>3, <1>5 DEF SealedBy
  <2>3. Decompress(o, pt) = CASE comp = "" -> <<pt>> [] comp = "DEF" -> Inflate(pt) [] OTHER -> <<>>
    BY DEF Decompress
  <2>4. Inflate(pt) # <<>> => zip = "DEF" /\ Inflate(pt)[1] = Sealed("", pt[2])
    BY Zenon DEF Inflate
  <2>e. \A z, x : Sealed(z, x)[2] = x
    BY DEF Sealed
  <2> HIDE DEF comp, pt, zip
  <2>5. pt[2] = m.plain[2]
    BY Zenon, <2>1, <2>e
  <2>6. CASE comp = ""
    <3>1. zip = ""
      BY Zenon, <2>2, <2>6
    <3>2. pt = m.plain
      BY Zenon, <2>1, <3>1
    <3>3. Decompress(o, pt) = <<pt>>
      BY <2>3, <2>6, Zenon
    <3> QED
      BY <3>2, <3>3
  <2>7. CASE comp = "DEF"
    BY Zenon, <1>8, <2>1, <2>3, <2>4, <2>5, <2>7
  <2> QED
    BY Zenon, <1>8, <2>3, <2>6, <2>7
<1> HIDE DEF pt
<1> QED
  BY <1>2, <1>5, <1>6, <1>7, <1>8

\* A non-empty set of naturals has a least element.
LEMMA LeastNatural ==
    ASSUME NEW T, T \subseteq Nat, T # {}
    PROVE  \E i \in T : \A j \in T : i <= j
<1>1. PICK x \in T : \A y \in T : ~ (<<y, x>> \in OpToRel(<, Nat))
  BY Zenon, NatLessThanWellFounded, WFMin
<1>2. \A y \in T : ~ (y < x)
  BY Zenon, <1>1 DEF OpToRel
<1> QED
  BY <1>2

\* Refusal "none" leaves a key that newDecrypter takes.
LEMMA NotRefused ==
    ASSUME NEW o, NEW vk, Refusal(o, vk) = "none"
    PROVE  /\ CheckNoCritical(GlobalHeaders(o))
           /\ TryJWKS(vk, o.Header) # <<>> /\ NewDecrypterOK(TryJWKS(vk, o.Header)[1])
           /\ EncOf(o) \in DOMAIN ContentEncryption
BY Zenon DEF Refusal

\* Both decrypters return, with "ok", what OpenWith and decompress gave for the
\* recipient they name.
LEMMA OkMeansOpened ==
    ASSUME NEW o, NEW vk, IsSeq(o.recipients), NEW ret \in {Decrypt(o, vk), DecryptMulti(o, vk)},
           ret.outcome = "ok"
    PROVE  LET key == TryJWKS(vk, o.Header)[1]
               pt  == OpenWith(o, key, ret.index)
           IN  /\ Refusal(o, vk) = "none"
               /\ ret.index \in DOMAIN o.recipients
               /\ pt # <<>> /\ Decompress(o, pt[1]) # <<>>
               /\ ret.plaintext = Decompress(o, pt[1])[1]
<1> DEFINE refusal == Refusal(o, vk)
           key == TryJWKS(vk, o.Header)[1]
           Opened(i) == OpenWith(o, key, i)
           Out(i) == Decompress(o, Opened(i)[1])
           good == {i \in DOMAIN o.recipients : Opened(i) # <<>>}
           first == CHOOSE g \in good : \A j \in good : g <= j
           hd(i) == RecipientHeaders(o, o.recipients[i])
<1>f. \A x : Failure(x).outcome = x
  BY DEF Failure, Return
<1>o. \A i, h, p : Return("ok", i, h, p).index = i /\ Return("ok", i, h, p).plaintext = p
  BY DEF Return
<1>r. refusal # "ok"
  BY DEF Refusal
<1>1. CASE ret = Decrypt(o, vk)
  <2>1. ret = IF Len(o.recipients) > 1 THEN Failure("toomany")
              ELSE IF refusal # "none" THEN Failure(refusal)
              ELSE IF o.recipients = <<>> THEN Failure("panic")
              ELSE IF Opened(1) = <<>> THEN Failure("crypto")
              ELSE IF Out(1) = <<>> THEN Failure("zip")
              ELSE Return("ok", 1, ZeroHeader, Out(1)[1])
    BY <1>1 DEF Decrypt
  <2>2. o.recipients # <<>> => 1 \in DOMAIN o.recipients
    BY Zenon, Indices
  <2> HIDE DEF refusal, Opened, Out
  <2>3. /\ refusal = "none" /\ o.recipients # <<>> /\ Opened(1) # <<>> /\ Out(1) # <<>>
        /\ ret.index = 1 /\ ret.plaintext = Out(1)[1]
    BY SMTT(20), <1>f, <1>o, <1>r, <2>1
  <2> QED
    BY ZenonT(30), <2>2, <2>3 DEF refusal, Opened, Out
<1>2. CASE ret = DecryptMulti(o, vk)
  <2>1. ret = IF refusal # "none" THEN Failure(refusal)
              ELSE IF o.recipients = <<>> THEN Failure("norecipients")
              ELSE IF good = {} THEN Failure("crypto")
              ELSE IF Out(first) = <<>> THEN Failure("zip")
              ELSE IF ~SanitizeOK(hd(first)) THEN Failure("header")
              ELSE Return("ok", first, Sanitized(hd(first)), Out(first)[1])
    BY Zenon, <1>2 DEF DecryptMulti
  <2>2. good # {} => first \in good
    <3>1. good \subseteq Nat
      BY Indices
    <3> HIDE DEF good
    <3> QED
      BY Zenon, <3>1, LeastNatural
  <2>3. first \in good => first \in DOMAIN o.recipients /\ Opened(first) # <<>>
    OBVIOUS
  <2> HIDE DEF refusal, Opened, Out, good, first, hd
  <2>4. /\ refusal = "none" /\ good # {} /\ Out(first) # <<>>
        /\ ret.index = first /\ ret.plaintext = Out(first)[1]
    BY <1>f, <1>o, <1>r, <2>1
  <2> QED
    BY <2>2, <2>3, <2>4 DEF refusal, Opened, Out
<1> QED
  BY <1>1, <1>2

(***************************************************************************)
(* What the producers make.                                                *)
(***************************************************************************)
\* encryptKey has a case for the key and the algorithm.
Encryptable(info) ==
    \/ info.key.type \in {"opaque", "rsa"}
    \/ info.key.type \in {"oct", "ec"} /\ info.keyAlg \in {DIRECT, "ECDH_ES"}
    \/ info.key.type = "ec" /\ info.keyAlg \in DOMAIN EcdhKw
    \/ info.key.type \in Symmetric /\ info.keyAlg \in GcmKw \cup Kw \cup Pbes2Alg

\* An encrypter a constructor returned: a content key that is agreed on has one
\* recipient.
Ready(e) ==
    /\ \A i \in DOMAIN e.recipients : Encryptable(e.recipients[i])
    /\ e.gen \in {"static", "ec"} => DOMAIN e.recipients = {1}
    /\ e.zip # "" => "zip" \notin DOMAIN e.extra

\* addRecipient takes only what encryptKey can serve.
LEMMA AddedIsEncryptable ==
    ASSUME NEW r, AddRecipientOK(r)
    PROVE  Encryptable(KeyInfo(r))
<1>1. KeyInfo(r).key = r.key /\ KeyInfo(r).keyAlg = r.alg
  BY DEF KeyInfo
<1>2. r.alg \notin {DIRECT, "ECDH_ES"} /\ MakeJWERecipientOK(r)
  BY Zenon DEF AddRecipientOK
<1>3. CASE r.key.type \in {"opaque", "rsa"}
  BY Zenon, <1>1, <1>3 DEF Encryptable
<1>4. CASE r.key.type = "ec"
  <2>1. r.alg \in AlgsOf("ec")
    BY <1>2, <1>4 DEF MakeJWERecipientOK, ECDHRecipientOK
  <2>2. r.alg \in DOMAIN EcdhKw
    BY Zenon, <1>2, <2>1 DEF AlgsOf, Symmetric
  <2> QED
    BY <1>1, <1>4, <2>2 DEF Encryptable
<1>5. CASE r.key.type \notin {"opaque", "rsa", "ec"}
  <2>1. r.alg \in AlgsOf(r.key.type)
    BY <1>2, <1>5 DEF MakeJWERecipientOK
  <2>2. r.key.type \in Symmetric /\ r.alg \in GcmKw \cup Kw \cup Pbes2Alg
    BY <1>2, <1>5, <2>1 DEF AlgsOf
  <2> QED
    BY <1>1, <2>2 DEF Encryptable
<1> QED
  BY Zenon, <1>3, <1>4, <1>5

\* NewEncrypter and NewMultiEncrypter return encrypters that are ready, if empty.
LEMMA ConstructedIsReady ==
    ASSUME NEW conf, conf.zip # "" => "zip" \notin DOMAIN conf.extra
    PROVE  Ready(NewEncrypter(conf)) /\ Ready(NewMultiEncrypter(conf))
<1>d. DOMAIN <<>> = {} /\ \A x : DOMAIN <<x>> = {1} /\ <<x>>[1] = x
  BY Zenon, ShortSeqs
<1>e. ASSUME NEW gen, NEW rs, \A i \in DOMAIN rs : Encryptable(rs[i]),
             gen \in {"static", "ec"} => DOMAIN rs = {1}
      PROVE  Ready(Encrypter(conf, gen, rs))
  <2> DEFINE e == Encrypter(conf, gen, rs)
  <2>1. e.zip = conf.zip /\ e.extra = conf.extra /\ e.gen = gen /\ e.recipients = rs
    BY Zenon DEF Encrypter
  <2> HIDE DEF e
  <2>2. Ready(e)
    BY Zenon, <1>e, <2>1 DEF Ready
  <2> QED
    BY Zenon, <2>2 DEF e
<1>n. Ready(NilEncrypter)
  <2>1. NilEncrypter.zip = "" /\ NilEncrypter.gen = "nil" /\ NilEncrypter.recipients = <<>>
    BY Zenon DEF NilEncrypter, Encrypter
  <2> QED
    BY Zenon, <1>d, <2>1 DEF Ready
<1>1. Ready(NewEncrypter(conf))
  <2> DEFINE r == conf.recipients[1]
             gen == CASE r.alg = DIRECT -> "static" [] r.alg = "ECDH_ES" -> "ec" [] OTHER -> "random"
  <2>1. CASE NewEncrypterOK(conf)
    <3>1. NewEncrypter(conf) = Encrypter(conf, gen, <<KeyInfo(r)>>)
      BY Zenon, <2>1 DEF NewEncrypter
    <3>2. Encryptable(KeyInfo(r))
      <4>1. KeyInfo(r).key = r.key /\ KeyInfo(r).keyAlg = r.alg
        BY Zenon DEF KeyInfo
      <4>2. CASE r.alg = DIRECT
        BY Zenon, <2>1, <4>1, <4>2 DEF NewEncrypterOK, Encryptable, DIRECT
      <4>3. CASE r.alg = "ECDH_ES"
        BY Zenon, <2>1, <4>1, <4>3 DEF NewEncrypterOK, Encryptable, DIRECT
      <4>4. CASE r.alg \notin {DIRECT, "ECDH_ES"}
        <5>1. AddRecipientOK(r)
          BY Zenon, <2>1, <4>4 DEF NewEncrypterOK
        <5> QED
          BY Zenon, <5>1, AddedIsEncryptable
      <4> QED
        BY Zenon, <4>2, <4>3, <4>4
    <3> DEFINE rs == <<KeyInfo(r)>>
    <3>3. DOMAIN rs = {1} /\ rs[1] = KeyInfo(r)
      BY Zenon, <1>d
    <3> HIDE DEF gen, r, rs
    <3>4. Ready(Encrypter(conf, gen, rs))
      BY Zenon, <1>e, <3>2, <3>3
    <3> QED
      BY Zenon, <3>1, <3>4 DEF rs
  <2>2. CASE ~NewEncrypterOK(conf)
    <3>1. NewEncrypter(conf) = Encrypter(conf, "random", <<>>) \/ NewEncrypter(conf) = NilEncrypter
      BY Zenon, <2>2 DEF NewEncrypter
    <3>2. Ready(Encrypter(conf, "random", <<>>))
      BY Zenon, <1>d, <1>e
    <3> QED
      BY Zenon, <1>n, <3>1, <3>2
  <2> QED
    BY Zenon, <2>1, <2>2
<1>2. Ready(NewMultiEncrypter(conf))
  <2> DEFINE rs == [i \in DOMAIN conf.recipients |-> KeyInfo(conf.recipients[i])]
  <2>1. CASE NewMultiEncrypterOK(conf)
    <3>1. NewMultiEncrypter(conf) = Encrypter(conf, "random", rs)
      BY Zenon, <2>1 DEF NewMultiEncrypter
    <3>2. \A i \in DOMAIN rs : Encryptable(rs[i])
      BY Zenon, <2>1, AddedIsEncryptable DEF NewMultiEncrypterOK
    <3> HIDE DEF rs
    <3> QED
      BY Zenon, <1>e, <3>1, <3>2
  <2>2. CASE ~NewMultiEncrypterOK(conf)
    BY Zenon, <1>n, <2>2 DEF NewMultiEncrypter
  <2> QED
    BY Zenon, <2>1, <2>2
<1> QED
  BY Zenon, <1>1, <1>2

\* encryptKey makes the encrypted key for the key it is given.
LEMMA EncryptKeyMadeFor ==
    ASSUME NEW info, Encryptable(info), NEW cek, cek[1] # "fallback",
           cek[1] \in {"key", "ecdh"} => cek[2] = info.key.id
    PROVE  MadeFor(EncryptKey(info, cek).encryptedKey, cek, info.key.id)
<1> DEFINE key == info.key
           ek == EncryptKey(info, cek).encryptedKey
<1>w. \A kek : /\ Wrapped(kek, cek)[1] = "wrapped" /\ Wrapped(kek, cek)[2] = kek
               /\ Wrapped(kek, cek) # <<>>
  BY Zenon DEF Wrapped
<1>1. CASE key.type = "opaque"
  <2>1. ek = <<"opaque", info.keyAlg, key.id, cek>>
    BY Zenon, <1>1 DEF EncryptKey, Symmetric
  <2> QED
    BY <2>1 DEF MadeFor
<1>2. CASE key.type = "rsa"
  <2>1. ek = <<"rsa", info.keyAlg, key.id, cek, Octets(key)>>
    BY Zenon, <1>2 DEF EncryptKey, Symmetric, RsaEncrypt
  <2> QED
    BY <2>1 DEF MadeFor
<1>3. CASE key.type \in {"oct", "ec"} /\ info.keyAlg \in {DIRECT, "ECDH_ES"}
  <2>1. ek = <<>>
    BY Zenon, <1>3 DEF EncryptKey, Symmetric, DIRECT, EcdhKw, GcmKw, Kw, Pbes2Alg
  <2> QED
    BY <2>1 DEF MadeFor
<1>4. CASE key.type = "ec" /\ info.keyAlg \in DOMAIN EcdhKw
  <2> DEFINE kek == DeriveECDHES(info.keyAlg, "", "", key.id, Epk(key).id, EcdhKw[info.keyAlg])
  <2>1. ek = Wrapped(kek, cek)
    BY Zenon, <1>4 DEF EncryptKey, Symmetric, DIRECT, EcdhKw
  <2>2. kek[2] = key.id
    BY Zenon DEF DeriveECDHES
  <2> HIDE DEF kek, ek
  <2> QED
    BY <1>w, <2>1, <2>2 DEF MadeFor, ek
<1>5. CASE key.type \in Symmetric /\ info.keyAlg \in GcmKw
  <2>1. ek = <<"gcm", KeyBytes(key), cek>>
    BY Zenon, <1>5 DEF EncryptKey, Symmetric, DIRECT, GcmKw, Kw, Pbes2Alg
  <2>2. KeyBytes(key)[2] = key.id
    BY Zenon DEF KeyBytes
  <2> QED
    BY <2>1, <2>2 DEF MadeFor
<1>6. CASE key.type \in Symmetric /\ info.keyAlg \in Kw
  <2>1. ek = Wrapped(KeyBytes(key), cek)
    BY Zenon, <1>6 DEF EncryptKey, Symmetric, DIRECT, GcmKw, Kw, Pbes2Alg
  <2>2. KeyBytes(key)[2] = key.id
    BY DEF KeyBytes
  <2> QED
    BY <1>w, <2>1, <2>2 DEF MadeFor
<1>7. CASE key.type \in Symmetric /\ info.keyAlg \in Pbes2Alg
  <2> DEFINE kek == Pbkdf2(key, info.keyAlg, Salt(info), Count(info))
  <2>1. ek = Wrapped(kek, cek)
    BY Zenon, <1>7 DEF EncryptKey, Symmetric, DIRECT, GcmKw, Kw, Pbes2Alg
  <2>2. kek[2] = key.id
    BY DEF Pbkdf2
  <2> HIDE DEF kek, ek
  <2> QED
    BY <1>w, <2>1, <2>2 DEF MadeFor, ek
<1> QED
  BY Zenon, <1>1, <1>2, <1>3, <1>4, <1>5, <1>6, <1>7 DEF Encryptable

\* The texts of the authenticated data are the header and the aad it was made from.
LEMMA AuthParts ==
    ASSUME NEW original, NEW ptr, NEW aad
    PROVE  LET auth == AuthData(original, ptr, aad)
           IN  /\ auth[2] = IF aad = NilBytes THEN <<>> ELSE <<aad>>
               /\ original # Absent => HeaderPtr(auth[1]) = HeaderPtr(original)
               /\ original = Absent => HeaderPtr(auth[1]) = IF ptr = NoHeader THEN NoHeader ELSE <<ptr[1]>>
<1> DEFINE b == IF original # Absent THEN original ELSE BytesOf(ptr)
           auth == AuthData(original, ptr, aad)
<1>1. /\ auth[1] = IF Kind(b) = "empty" THEN Absent ELSE b
      /\ auth[2] = IF aad = NilBytes THEN <<>> ELSE <<aad>>
  BY DEF AuthData
<1>2. HeaderPtr(Absent) = NoHeader
  BY DEF HeaderPtr, Absent, Kind
<1>3. Kind(b) = "empty" => HeaderPtr(b) = NoHeader
  BY DEF HeaderPtr
<1>4. \A h : HeaderPtr(Canonical(h)) = <<h>>
  BY DEF HeaderPtr, Canonical, Kind
<1>5. HeaderPtr(auth[1]) = HeaderPtr(b)
  <2> HIDE DEF auth, b
  <2> QED
    BY <1>1, <1>2, <1>3
<1>6. HeaderPtr(BytesOf(ptr)) = IF ptr = NoHeader THEN NoHeader ELSE <<ptr[1]>>
  BY ZenonT(30), <1>2, <1>4 DEF BytesOf
<1> QED
  BY Zenon, <1>1, <1>5, <1>6

\* What the history says of a message.
Meant(m, p, aad, header, rs) ==
    /\ m.plain = Sealed("", p) /\ m.aad = aad /\ m.header = header
    /\ \A i \in DOMAIN rs : m.keys[i] = rs[i].key.id

\* EncryptWithAuthData seals the plaintext for the recipients of its encrypter.
LEMMA EncryptHolds ==
    ASSUME NEW e, IsSeq(e.recipients), e.recipients # <<>>, Ready(e), NEW p, NEW aad, NEW m,
           Meant(m, p, aad, EncryptObject(e, p, aad).protected, e.recipients)
    PROVE  LET o == EncryptObject(e, p, aad)
           IN  Holds(o.recipients, o.parts, m) /\ Consistent(o)
<1> DEFINE o == EncryptObject(e, p, aad)
           cek == GenKey(e)
           rs == [i \in DOMAIN e.recipients |-> RecipientInfo(e.recipients[i], cek)]
           prot == ProtectedFor(e, rs)
           auth == AuthData(Absent, <<prot>>, aad)
<1>1. o.protected = <<prot>> /\ o.original = Absent
  BY DEF EncryptObject
<1>2. o.parts = <<Family(e.enc), cek, auth, Sealed(e.zip, p)>>
  BY DEF EncryptObject, Seal
<1>s. \A z, x : Sealed(z, x)[1] = z /\ Sealed(z, x)[2] = x
  BY DEF Sealed
<1>m. /\ m.aad = aad /\ m.header = o.protected
      /\ \A i \in DOMAIN e.recipients : m.keys[i] = e.recipients[i].key.id
  BY Zenon DEF Meant
<1>n. m.plain = Sealed("", p)
  BY Zenon DEF Meant
<1>3. \A i \in DOMAIN e.recipients :
         cek[1] # "fallback" /\ (cek[1] \in {"key", "ecdh"} => cek[2] = e.recipients[i].key.id)
  <2>1. CASE e.gen = "static"
    <3>1. cek = <<"key", e.recipients[1].key.id, e.recipients[1].key.size>>
      BY <2>1 DEF GenKey, KeyBytes
    <3>2. DOMAIN e.recipients = {1}
      BY Zenon, <2>1 DEF Ready
    <3> HIDE DEF cek
    <3> QED
      BY <3>1, <3>2
  <2>2. CASE e.gen = "ec"
    <3>1. cek[1] = "ecdh" /\ cek[2] = e.recipients[1].key.id
      BY <2>2 DEF GenKey, DeriveECDHES
    <3>2. DOMAIN e.recipients = {1}
      BY Zenon, <2>2 DEF Ready
    <3> HIDE DEF cek
    <3> QED
      BY <3>1, <3>2
  <2>3. CASE e.gen \notin {"static", "ec"}
    <3>1. cek[1] = "random"
      BY Zenon, <2>3 DEF GenKey, RandomKey
    <3> HIDE DEF cek
    <3> QED
      BY <3>1
  <2> QED
    BY Zenon, <2>1, <2>2, <2>3
<1>4. e.zip # "" => GetString(prot, "zip") = e.zip
  <2> SUFFICES ASSUME e.zip # "" PROVE GetString(prot, "zip") = e.zip
    BY Zenon
  <2>1. "zip" \notin DOMAIN e.extra
    BY Zenon DEF Ready
  <2>2. PICK all : prot = Override(Override(all, [zip |-> Str(e.zip)]), e.extra)
    BY Zenon DEF ProtectedFor
  <2>3. "zip" \in DOMAIN prot /\ prot["zip"] = Str(e.zip)
    <3> HIDE DEF prot
    <3> QED
      BY Zenon, <2>1, <2>2 DEF Override
  <2>4. Kind(Str(e.zip)) = "str" /\ Value(Str(e.zip)) = e.zip
    BY Zenon DEF Kind, Value, Str
  <2> HIDE DEF prot
  <2> QED
    BY Zenon, <2>3, <2>4 DEF GetString
<1>5. HeaderPtr(auth[1]) = <<prot>> /\ auth[2] = IF aad = NilBytes THEN <<>> ELSE <<aad>>
  <2>1. <<prot>> # NoHeader /\ <<prot>>[1] = prot
    BY Zenon DEF NoHeader
  <2> HIDE DEF prot
  <2> QED
    BY <2>1, AuthParts
<1>6. /\ DOMAIN o.recipients = DOMAIN e.recipients
      /\ \A i \in DOMAIN o.recipients :
            o.recipients[i].encryptedKey = EncryptKey(e.recipients[i], cek).encryptedKey
  BY ZenonT(30), EncryptedShape
<1>7. \A i \in DOMAIN o.recipients : MadeFor(o.recipients[i].encryptedKey, cek, m.keys[i])
  <2> SUFFICES ASSUME NEW i \in DOMAIN o.recipients
               PROVE  MadeFor(o.recipients[i].encryptedKey, cek, m.keys[i])
    OBVIOUS
  <2>1. i \in DOMAIN e.recipients /\ Encryptable(e.recipients[i])
    BY Zenon, <1>6 DEF Ready
  <2> HIDE DEF o, cek
  <2>2. MadeFor(EncryptKey(e.recipients[i], cek).encryptedKey, cek, e.recipients[i].key.id)
    BY <1>3, <2>1, EncryptKeyMadeFor
  <2> QED
    BY Zenon, <1>6, <1>m, <2>1, <2>2
<1>8. SealedBy(o.parts, m)
  <2> DEFINE pt == Sealed(e.zip, p)
  <2>p. pt[1] = e.zip /\ pt[2] = p
    BY <1>s
  <2>q. m.plain[2] = p
    <3>1. \A z : m.plain = Sealed(z, p) => m.plain[2] = p
      BY <1>s
    <3> QED
      BY Zenon, <1>n, <3>1
  <2> HIDE DEF o, cek, auth, prot, pt
  <2>1. /\ o.parts = <<o.parts[1], o.parts[2], o.parts[3], o.parts[4]>>
        /\ o.parts[3] = auth /\ o.parts[4] = pt
    BY <1>2 DEF pt
  <2>2. o.parts[4] = Sealed(o.parts[4][1], m.plain[2]) /\ m.plain = Sealed("", m.plain[2])
    BY Zenon, <1>n, <2>p, <2>q, <2>1 DEF pt
  <2>3. m.header # NoHeader /\ m.header[1] = prot
    BY <1>1, <1>m DEF NoHeader
  <2>4. o.parts[4][1] # "" => m.header # NoHeader /\ GetString(m.header[1], "zip") = o.parts[4][1]
    BY Zenon, <1>4, <2>p, <2>1, <2>3
  <2> QED
    BY Zenon, <1>1, <1>5, <1>m, <2>1, <2>2, <2>4 DEF SealedBy
<1>9. o.parts[2] = cek
  <2> HIDE DEF o, cek, auth, prot
  <2> QED
    BY <1>2
<1>10. Consistent(o)
  <2> HIDE DEF o, prot
  <2> QED
    BY SMTT(20), <1>1 DEF Consistent
<1> QED
  BY <1>7, <1>8, <1>9, <1>10 DEF Holds

\* A foreign message holds what its producer sealed.
LEMMA ForeignHolds ==
    ASSUME NEW f \in Foreign, NEW m,
           Meant(m, f.plain, f.aad, HeaderPtr(f.bytes), f.recipients)
    PROVE  Holds(RawRecipients(ForeignMsg(f)), ForeignMsg(f).parts, m)
<1> DEFINE msgF == ForeignMsg(f)
           auth == AuthData(f.bytes, NoHeader, f.aad)
           pt == Sealed(f.zip, f.plain)
           rs == [i \in DOMAIN f.recipients |->
                     [header |-> f.recipients[i].header, encryptedKey |-> f.recipients[i].ek]]
<1>1. msgF.parts = <<Family(f.enc), f.cek, auth, pt>>
  BY Zenon DEF ForeignMsg, Seal
<1>s. \A z, x : Sealed(z, x)[1] = z /\ Sealed(z, x)[2] = x
  BY DEF Sealed
<1>m. /\ m.aad = f.aad /\ m.header = HeaderPtr(f.bytes)
      /\ \A i \in DOMAIN f.recipients : m.keys[i] = f.recipients[i].key.id
  BY Zenon DEF Meant
<1>n. m.plain = Sealed("", f.plain)
  BY Zenon DEF Meant
<1>a. /\ f.recipients # <<>> /\ IsSeq(f.recipients)
      /\ \A i \in DOMAIN f.recipients : MadeFor(f.recipients[i].ek, f.cek, f.recipients[i].key.id)
      /\ f.zip # "" => GetString(HeaderOf(f.bytes), "zip") = f.zip
  BY Zenon, ProducerAssumption DEF IsSeq
<1>2. f.zip # "" => m.header # NoHeader /\ GetString(m.header[1], "zip") = f.zip
  <2>1. CASE Kind(f.bytes) = "json"
    <3>1. HeaderPtr(f.bytes) # NoHeader /\ HeaderPtr(f.bytes)[1] = HeaderOf(f.bytes)
      BY <2>1 DEF HeaderPtr, HeaderOf, NoHeader
    <3> QED
      BY Zenon, <1>a, <1>m, <3>1
  <2>2. CASE Kind(f.bytes) # "json"
    <3>1. GetString(HeaderOf(f.bytes), "zip") = ""
      BY Zenon, <2>2 DEF HeaderOf, GetString, EmptyHeader
    <3> QED
      BY Zenon, <1>a, <3>1
  <2> QED
    BY Zenon, <2>1, <2>2
<1>3. HeaderPtr(auth[1]) = HeaderPtr(f.bytes) /\ auth[2] = IF f.aad = NilBytes THEN <<>> ELSE <<f.aad>>
  <2>1. HeaderPtr(Absent) = NoHeader
    BY DEF HeaderPtr, Absent, Kind
  <2> DEFINE text == IF f.aad = NilBytes THEN <<>> ELSE <<f.aad>>
  <2>2. /\ auth[2] = text
        /\ f.bytes # Absent => HeaderPtr(auth[1]) = HeaderPtr(f.bytes)
        /\ f.bytes = Absent =>
              HeaderPtr(auth[1]) = IF NoHeader = NoHeader THEN NoHeader ELSE <<NoHeader[1]>>
    BY Zenon, AuthParts
  <2> HIDE DEF auth, text
  <2> QED
    BY <2>1, <2>2 DEF text
<1>4. SealedBy(msgF.parts, m)
  <2>p. pt[1] = f.zip /\ pt[2] = f.plain /\ m.plain[2] = f.plain
    <3>1. \A z : m.plain = Sealed(z, f.plain) => m.plain[2] = f.plain
      BY <1>s
    <3> QED
      BY Zenon, <1>n, <1>s, <3>1
  <2> HIDE DEF msgF, auth, pt
  <2>1. /\ msgF.parts = <<msgF.parts[1], msgF.parts[2], msgF.parts[3], msgF.parts[4]>>
        /\ msgF.parts[3] = auth /\ msgF.parts[4] = pt
    BY <1>1
  <2>2. msgF.parts[4] = Sealed(msgF.parts[4][1], m.plain[2]) /\ m.plain = Sealed("", m.plain[2])
    BY Zenon, <1>n, <2>p, <2>1 DEF pt
  <2>4. msgF.parts[4][1] # "" => m.header # NoHeader /\ GetString(m.header[1], "zip") = msgF.parts[4][1]
    BY Zenon, <1>2, <2>p, <2>1
  <2> QED
    BY Zenon, <1>3, <1>m, <2>1, <2>2, <2>4 DEF SealedBy
<1>5. msgF.parts[2] = f.cek
  <2> HIDE DEF msgF, auth, pt
  <2> QED
    BY <1>1
<1>6. \A i \in DOMAIN RawRecipients(msgF) :
         i \in DOMAIN f.recipients /\ RawRecipients(msgF)[i].encryptedKey = f.recipients[i].ek
  <2>r. DOMAIN rs = DOMAIN f.recipients /\ \A i \in DOMAIN rs : rs[i].encryptedKey = f.recipients[i].ek
    OBVIOUS
  <2>o. 1 \in DOMAIN f.recipients
    BY Zenon, <1>a, Indices
  <2>n. rs # <<>>
    BY <2>o, <2>r, ShortSeqs
  <2>1. CASE f.flat
    <3>1. msgF.recipients = <<>> /\ msgF.encryptedKey = rs[1].encryptedKey
      BY Zenon, <2>1 DEF ForeignMsg
    <3>2. RawRecipients(msgF) = <<[header |-> msgF.header, encryptedKey |-> rs[1].encryptedKey]>>
      BY <3>1 DEF RawRecipients
    <3> DEFINE x == [header |-> msgF.header, encryptedKey |-> rs[1].encryptedKey]
    <3>3. x.encryptedKey = rs[1].encryptedKey
      BY Zenon
    <3>4. DOMAIN RawRecipients(msgF) = {1} /\ RawRecipients(msgF)[1] = x
      BY <3>2, ShortSeqs
    <3> HIDE DEF x, rs, msgF
    <3> QED
      BY ZenonT(30), <2>o, <2>r, <3>3, <3>4
  <2>2. CASE ~f.flat
    <3>1. msgF.recipients = rs
      BY Zenon, <2>2 DEF ForeignMsg
    <3>2. RawRecipients(msgF) = rs
      BY <2>n, <3>1 DEF RawRecipients
    <3> HIDE DEF rs, msgF
    <3> QED
      BY ZenonT(30), <2>r, <3>2
  <2> QED
    BY Zenon, <2>1, <2>2
<1>7. \A i \in DOMAIN RawRecipients(msgF) : MadeFor(RawRecipients(msgF)[i].encryptedKey, msgF.parts[2], m.keys[i])
  <2> HIDE DEF msgF
  <2> QED
    BY Zenon, <1>5, <1>6, <1>a, <1>m
<1> QED
  BY <1>4, <1>7 DEF Holds

(***************************************************************************)
(* Every state.                                                            *)
(***************************************************************************)
SealInv ==
    /\ at = "ready" => Ready(encrypter)
    /\ at = "wire" => Holds(RawRecipients(msg), msg.parts, made[1])
    /\ at \in {"encrypted", "parsed"} => Holds(obj.recipients, obj.parts, made[1]) /\ Consistent(obj)
    /\ at \notin {"encrypted", "parsed"} => result = NoResult
    /\ DecryptedWasEncrypted

\* Holds only looks at the encrypted keys.
LEMMA HoldsSameKeys ==
    ASSUME NEW rs, NEW ts, NEW parts, NEW m, Holds(rs, parts, m),
           \A i \in DOMAIN ts : i \in DOMAIN rs /\ ts[i].encryptedKey = rs[i].encryptedKey
    PROVE  Holds(ts, parts, m)
BY Zenon DEF Holds

\* A successful answer about an object is what its producer meant.
LEMMA AnswerIsMeant ==
    ASSUME NEW o, NEW m, IsSeq(o.recipients), Holds(o.recipients, o.parts, m), Consistent(o),
           NEW vk, NEW ret \in {Decrypt(o, vk), DecryptMulti(o, vk)}, ret.outcome = "ok"
    PROVE  /\ ret.plaintext = m.plain
           /\ m.header = o.protected
           /\ m.aad = o.aad
           /\ m.keys[ret.index] = TryJWKS(vk, o.Header)[1].id
<1> DEFINE key == TryJWKS(vk, o.Header)[1]
           i == ret.index
           pt == OpenWith(o, key, i)
           out == Decompress(o, pt[1])
<1>1. /\ Refusal(o, vk) = "none" /\ i \in DOMAIN o.recipients
      /\ pt # <<>> /\ out # <<>> /\ ret.plaintext = out[1]
  BY Zenon, OkMeansOpened
<1>2. NewDecrypterOK(key)
  BY Zenon, <1>1, NotRefused
<1> HIDE DEF key, i
<1>o. \A k, j : NewDecrypterOK(k) /\ j \in DOMAIN o.recipients /\ OpenWith(o, k, j) # <<>> =>
          /\ m.header = o.protected
          /\ m.aad = o.aad
          /\ m.keys[j] = k.id
          /\ Decompress(o, OpenWith(o, k, j)[1]) # <<>> => Decompress(o, OpenWith(o, k, j)[1])[1] = m.plain
  BY SMTT(20), OpensOnlySealed
<1>3. m.header = o.protected /\ m.aad = o.aad /\ m.keys[i] = key.id /\ out[1] = m.plain
  BY Zenon, <1>1, <1>2, <1>o
<1> QED
  BY Zenon, <1>1, <1>3 DEF key, i

\* Every step keeps messages sealed by their producer and results sound.
LEMMA SealInvStep == Shape /\ SealInv /\ [Next]_vars => SealInv'
<1> SUFFICES ASSUME Shape, SealInv, [Next]_vars PROVE SealInv'
  OBVIOUS
<1>r. result' = NoResult => DecryptedWasEncrypted'
  <2>1. NoResult.ret.outcome # "ok"
    BY Zenon DEF NoResult, Failure, Return
  <2> QED
    BY Zenon, <2>1 DEF DecryptedWasEncrypted
<1>1. CASE \E conf \in EncrypterConf : New(conf) \/ NewMulti(conf)
  <2>1. PICK conf \in EncrypterConf : New(conf) \/ NewMulti(conf)
    BY <1>1
  <2>2. conf.zip # "" => "zip" \notin DOMAIN conf.extra
    BY Zenon, ProducerAssumption
  <2>3. /\ at = "start" /\ at' \in {"failed", "ready"} /\ result' = result
        /\ encrypter' = NewEncrypter(conf) \/ encrypter' = NewMultiEncrypter(conf)
    BY <2>1 DEF New, NewMulti, Construct
  <2>4. Ready(encrypter')
    BY Zenon, <2>2, <2>3, ConstructedIsReady
  <2> QED
    BY <1>r, <2>3, <2>4 DEF SealInv
<1>2. CASE \E p \in Plaintext, aad \in Aad, r, k \in BOOLEAN : Encrypt(p, aad, r, k)
  <2>1. PICK p \in Plaintext, aad \in Aad, r \in BOOLEAN, k \in BOOLEAN : Encrypt(p, aad, r, k)
    BY <1>2
  <2>2. /\ at = "ready" /\ result' = result
        /\ at' \in {"crashed", "encrypted", "failed"}
        /\ at' = "encrypted" => encrypter.recipients # <<>> /\ obj' = EncryptObject(encrypter, p, aad)
    BY Zenon, <2>1 DEF Encrypt
  <2> DEFINE m == [plain |-> Sealed("", p), aad |-> aad, header |-> obj'.protected,
                   keys |-> [i \in DOMAIN encrypter.recipients |-> encrypter.recipients[i].key.id]]
  <2>3. at' = "encrypted" => made' = <<m>>
    BY Zenon, <2>1 DEF Encrypt
  <2>4. Meant(m, p, aad, obj'.protected, encrypter.recipients)
    BY DEF Meant
  <2>5. IsSeq(encrypter.recipients) /\ Ready(encrypter)
    BY Zenon, <2>2 DEF Shape, SealInv
  <2> HIDE DEF m
  <2>6. at' = "encrypted" => Holds(obj'.recipients, obj'.parts, m) /\ Consistent(obj')
    BY Zenon, <2>2, <2>4, <2>5, EncryptHolds
  <2>7. at' = "encrypted" => made'[1] = m
    BY <2>3
  <2>8. result' = NoResult
    BY ZenonT(30), <2>2 DEF SealInv
  <2> QED
    BY Zenon, <1>r, <2>2, <2>6, <2>7, <2>8 DEF SealInv
<1>3. CASE \E f \in Foreign : ForeignEncrypt(f)
  <2>1. PICK f \in Foreign : ForeignEncrypt(f)
    BY <1>3
  <2> DEFINE m == [plain |-> Sealed("", f.plain), aad |-> f.aad, header |-> HeaderPtr(f.bytes),
                   keys |-> [i \in DOMAIN f.recipients |-> f.recipients[i].key.id]]
  <2>2. at = "start" /\ at' = "wire" /\ msg' = ForeignMsg(f) /\ made' = <<m>> /\ result' = result
    BY Zenon, <2>1 DEF ForeignEncrypt
  <2>3. Meant(m, f.plain, f.aad, HeaderPtr(f.bytes), f.recipients)
    BY DEF Meant
  <2> HIDE DEF m
  <2>4. Holds(RawRecipients(ForeignMsg(f)), ForeignMsg(f).parts, m)
    BY <2>3, ForeignHolds
  <2>5. made'[1] = m /\ result' = NoResult
    BY Zenon, <2>2 DEF SealInv
  <2> QED
    BY <1>r, <2>2, <2>4, <2>5 DEF SealInv
<1>4. CASE SendCompact \/ SendFull
  <2>1. /\ at \in {"encrypted", "parsed"} /\ at' = "wire" /\ made' = made /\ result' = NoResult
        /\ msg' = CompactSerialize(obj) \/ msg' = FullSerialize(obj)
    BY <1>4 DEF SendCompact, SendFull, Send
  <2>2. obj.recipients # <<>> /\ IsSeq(obj.recipients)
    BY <2>1 DEF Shape
  <2>3. 1 \in DOMAIN obj.recipients
    BY Zenon, <2>2, Indices
  <2>4. msg'.parts = obj.parts /\ msg'.encryptedKey = obj.recipients[1].encryptedKey
    BY SMTT(20), <2>1 DEF CompactSerialize, FullSerialize
  <2>5. msg'.recipients \in {<<>>, obj.recipients}
    BY <2>1 DEF CompactSerialize, FullSerialize
  <2>6. \A i \in DOMAIN RawRecipients(msg') :
           i \in DOMAIN obj.recipients
           /\ RawRecipients(msg')[i].encryptedKey = obj.recipients[i].encryptedKey
    <3>1. CASE msg'.recipients = <<>>
      <4> DEFINE x == [header |-> msg'.header, encryptedKey |-> msg'.encryptedKey]
      <4>1. RawRecipients(msg') = <<x>>
        BY Zenon, <3>1 DEF RawRecipients
      <4>2. x.encryptedKey = obj.recipients[1].encryptedKey
        BY Zenon, <2>4
      <4>3. DOMAIN RawRecipients(msg') = {1} /\ RawRecipients(msg')[1] = x
        BY Zenon, <4>1, ShortSeqs
      <4> HIDE DEF x
      <4> QED
        BY Zenon, <2>3, <4>2, <4>3
    <3>2. CASE msg'.recipients # <<>>
      BY Zenon, <2>5, <3>2 DEF RawRecipients
    <3> QED
      BY Zenon, <3>1, <3>2
  <2>7. Holds(obj.recipients, obj.parts, made[1])
    BY SMTT(20), <2>1 DEF SealInv
  <2>8. Holds(RawRecipients(msg'), msg'.parts, made'[1])
    BY Zenon, <2>1, <2>4, <2>6, <2>7, HoldsSameKeys
  <2> QED
    BY Zenon, <1>r, <2>1, <2>8 DEF SealInv
<1>5. CASE \/ \E h \in AddedHeader : AddHeader(h)
           \/ \E b \in OtherBytes : DamageProtected(b)
           \/ DamageBody
  <2>1. at = "wire" /\ at' = at /\ made' = made /\ result' = result
    BY <1>5 DEF AddHeader, DamageProtected, DamageBody, InTransit
  <2>2. \/ \E x : msg' = [msg EXCEPT !.unprotected = x]
        \/ \E x : msg' = [msg EXCEPT !.header = x]
        \/ \E x : msg' = [msg EXCEPT !.protected = x]
        \/ msg' = [msg EXCEPT !.parts = <<"damaged">>]
        \/ \E x : msg' = [msg EXCEPT !.aad = x]
        \/ \E x : msg' = [msg EXCEPT !.form = x]
    BY <1>5 DEF AddHeader, DamageProtected, DamageBody, InTransit
  <2>3. /\ msg'.recipients = msg.recipients /\ msg'.encryptedKey = msg.encryptedKey
        /\ msg'.parts = msg.parts \/ msg'.parts = <<"damaged">>
    BY Zenon, <2>2 DEF IsMsg, Shape
  <2>4. Holds(RawRecipients(msg), msg.parts, made[1])
    BY Zenon, <2>1 DEF SealInv
  <2>5. \A i \in DOMAIN RawRecipients(msg') :
           i \in DOMAIN RawRecipients(msg)
           /\ RawRecipients(msg')[i].encryptedKey = RawRecipients(msg)[i].encryptedKey
    <3>1. CASE msg.recipients = <<>>
      <4> DEFINE x == [header |-> msg'.header, encryptedKey |-> msg'.encryptedKey]
                 y == [header |-> msg.header, encryptedKey |-> msg.encryptedKey]
      <4>1. RawRecipients(msg') = <<x>> /\ RawRecipients(msg) = <<y>>
        BY Zenon, <2>3, <3>1 DEF RawRecipients
      <4>2. x.encryptedKey = y.encryptedKey
        BY Zenon, <2>3
      <4>3. DOMAIN RawRecipients(msg') = {1} /\ RawRecipients(msg')[1] = x
        BY Zenon, <4>1, ShortSeqs
      <4>4. DOMAIN RawRecipients(msg) = {1} /\ RawRecipients(msg)[1] = y
        BY Zenon, <4>1, ShortSeqs
      <4> HIDE DEF x, y
      <4> QED
        BY Zenon, <4>2, <4>3, <4>4
    <3>2. CASE msg.recipients # <<>>
      BY Zenon, <2>3, <3>2 DEF RawRecipients
    <3> QED
      BY <3>1, <3>2
  <2>6. Holds(RawRecipients(msg'), msg'.parts, made'[1])
    <3>1. CASE msg'.parts = msg.parts
      BY Zenon, <2>1, <2>4, <2>5, <3>1, HoldsSameKeys
    <3>2. CASE msg'.parts = <<"damaged">>
      BY <3>2 DEF Holds
    <3> QED
      BY <2>3, <3>1, <3>2
  <2>7. result' = NoResult
    BY Zenon, <2>1 DEF SealInv
  <2> QED
    BY Zenon, <1>r, <2>1, <2>6, <2>7 DEF SealInv
<1>6. CASE \E a \in AllowLists : ParseEncrypted(a)
  <2>1. /\ at = "wire" /\ at' \in {"parsed", "refused"} /\ made' = made /\ result' = result
        /\ at' = "parsed" => obj' = Parse(msg)
    BY Zenon, <1>6 DEF ParseEncrypted
  <2>2. /\ Parse(msg).recipients = RawRecipients(msg) /\ Parse(msg).parts = msg.parts
        /\ Parse(msg).original = msg.protected /\ Parse(msg).protected = HeaderPtr(msg.protected)
    BY DEF Parse
  <2>3. HeaderPtr(Absent) = NoHeader
    BY Zenon DEF HeaderPtr, Absent, Kind
  <2>4. Consistent(Parse(msg))
    BY <2>2, <2>3 DEF Consistent
  <2>5. Holds(RawRecipients(msg), msg.parts, made[1]) /\ result' = NoResult
    BY Zenon, <2>1 DEF SealInv
  <2> QED
    BY <1>r, <2>1, <2>2, <2>4, <2>5 DEF SealInv
<1>7. CASE \E vk \in DecKeys : DecryptOne(vk) \/ DecryptMany(vk)
  <2>1. PICK vk \in DecKeys : DecryptOne(vk) \/ DecryptMany(vk)
    BY <1>7
  <2>2. /\ at \in {"encrypted", "parsed"} /\ at' = at /\ obj' = obj /\ made' = made
        /\ result'.vk = vk
    BY <2>1 DEF DecryptOne, DecryptMany
  <2>3. result'.ret = Decrypt(obj, vk) \/ result'.ret = DecryptMulti(obj, vk)
    BY SMTT(20), <2>1 DEF DecryptOne, DecryptMany
  <2>4. IsSeq(obj.recipients) /\ Holds(obj.recipients, obj.parts, made[1]) /\ Consistent(obj)
    BY ZenonT(30), <2>2 DEF Shape, SealInv
  <2> DEFINE ret == result'.ret
             m == made[1]
  <2>5. ret.outcome = "ok" =>
           /\ ret.plaintext = m.plain
           /\ m.header = obj.protected
           /\ m.aad = obj.aad
           /\ m.keys[ret.index] = TryJWKS(vk, obj.Header)[1].id
    <3> HIDE DEF ret, m
    <3>1. ret \in {Decrypt(obj, vk), DecryptMulti(obj, vk)} /\ Holds(obj.recipients, obj.parts, m)
      BY <2>3, <2>4 DEF ret, m
    <3> QED
      BY ZenonT(30), <2>4, <3>1, AnswerIsMeant
  <2>6. DecryptedWasEncrypted'
    BY Zenon, <2>2, <2>5 DEF DecryptedWasEncrypted
  <2> QED
    BY Zenon, <2>2, <2>4, <2>6 DEF SealInv
<1>8. CASE UNCHANGED vars
  BY <1>8 DEF vars, SealInv, DecryptedWasEncrypted
<1> QED
  BY Zenon, <1>1, <1>2, <1>3, <1>4, <1>5, <1>6, <1>7, <1>8 DEF Next

\* For every instance, Decrypt and DecryptMulti return only what a producer sealed,
\* under this protected header and aad, to the holder of a key it sealed it for.
THEOREM DecryptedWasEncryptedAlways == Spec => []DecryptedWasEncrypted
<1>1. Init => SealInv
  <2>1. NoResult.ret.outcome # "ok"
    BY Zenon DEF NoResult, Failure, Return
  <2> QED
    BY Zenon, <2>1 DEF Init, SealInv, DecryptedWasEncrypted
<1>2. SealInv => DecryptedWasEncrypted
  BY DEF SealInv
<1> QED
  BY <1>1, <1>2, ShapeAlways, SealInvStep, PTL DEF Spec

(***************************************************************************)
(* Merging headers.                                                        *)
(***************************************************************************)
\* A parameter that only one of two merged headers has keeps its value.
LEMMA MergedParameter ==
    ASSUME NEW h, NEW ptr, NEW k
    PROVE  LET g == MergePtr(h, ptr)
           IN  /\ (ptr = NoHeader \/ k \notin DOMAIN ptr[1]) =>
                     (k \in DOMAIN g <=> k \in DOMAIN h) /\ (k \in DOMAIN h => g[k] = h[k])
               /\ ptr # NoHeader /\ k \notin DOMAIN h =>
                     (k \in DOMAIN g <=> k \in DOMAIN ptr[1])
                     /\ (k \in DOMAIN ptr[1] => g[k] = ptr[1][k])
               /\ k \in DOMAIN g =>
                     \/ k \in DOMAIN h /\ g[k] = h[k]
                     \/ ptr # NoHeader /\ k \in DOMAIN ptr[1] /\ g[k] = ptr[1][k]
<1>1. CASE ptr = NoHeader
  BY Zenon, <1>1 DEF MergePtr
<1>2. CASE ptr # NoHeader
  <2>1. MergePtr(h, ptr) = Merge(h, ptr[1])
    BY Zenon, <1>2 DEF MergePtr
  <2>2. /\ DOMAIN Merge(h, ptr[1]) = DOMAIN h \cup DOMAIN ptr[1]
        /\ \A j \in DOMAIN h \cup DOMAIN ptr[1] :
              Merge(h, ptr[1])[j] = IF j \in DOMAIN ptr[1] /\ ~IsSet(h, j) THEN ptr[1][j] ELSE h[j]
    BY Zenon DEF Merge
  <2>3. k \notin DOMAIN h => ~IsSet(h, k)
    BY Zenon DEF IsSet, Present
  <2> QED
    BY Zenon, <1>2, <2>1, <2>2, <2>3
<1> QED
  BY Zenon, <1>1, <1>2

\* Two headers without errors of type merge into one.
LEMMA MergedSanitary ==
    ASSUME NEW h, NEW ptr, SanitizeOK(h), ptr # NoHeader => SanitizeOK(ptr[1])
    PROVE  SanitizeOK(MergePtr(h, ptr))
<1> SUFFICES ASSUME NEW k \in DOMAIN MergePtr(h, ptr) \cap DOMAIN TypedKeys
             PROVE  Kind(MergePtr(h, ptr)[k]) \in {"null", TypedKeys[k]}
  BY Zenon DEF SanitizeOK
<1>1. k \in DOMAIN MergePtr(h, ptr) /\ k \in DOMAIN TypedKeys
  BY Zenon
<1>2. \/ k \in DOMAIN h /\ MergePtr(h, ptr)[k] = h[k]
      \/ ptr # NoHeader /\ k \in DOMAIN ptr[1] /\ MergePtr(h, ptr)[k] = ptr[1][k]
  BY <1>1, MergedParameter
<1> QED
  BY Zenon, <1>1, <1>2 DEF SanitizeOK

\* Merging a header a second time, as opaqueKeyDecrypter does, changes nothing.
LEMMA MergeAgain ==
    ASSUME NEW g, NEW ptr
    PROVE  MergePtr(MergePtr(g, ptr), ptr) = MergePtr(g, ptr)
<1>1. CASE ptr = NoHeader
  BY Zenon, <1>1 DEF MergePtr
<1>2. CASE ptr # NoHeader
  <2> DEFINE s == ptr[1]
             h == Merge(g, s)
             D == DOMAIN g \cup DOMAIN s
  <2>1. MergePtr(g, ptr) = h /\ MergePtr(h, ptr) = Merge(h, s)
    BY Zenon, <1>2 DEF MergePtr
  <2>2. h = [k \in D |-> IF k \in DOMAIN s /\ ~IsSet(g, k) THEN s[k] ELSE g[k]] /\ DOMAIN h = D
    BY Zenon DEF Merge
  <2>3. Merge(h, s) = [k \in D \cup DOMAIN s |-> IF k \in DOMAIN s /\ ~IsSet(h, k) THEN s[k] ELSE h[k]]
    BY Zenon, <2>2 DEF Merge
  <2>4. D \cup DOMAIN s = D
    OBVIOUS
  <2>5. ASSUME NEW k \in D
        PROVE  (IF k \in DOMAIN s /\ ~IsSet(h, k) THEN s[k] ELSE h[k])
               = (IF k \in DOMAIN s /\ ~IsSet(g, k) THEN s[k] ELSE g[k])
    <3>1. h[k] = IF k \in DOMAIN s /\ ~IsSet(g, k) THEN s[k] ELSE g[k]
      BY Zenon, <2>2
    <3>2. k \in DOMAIN s /\ IsSet(g, k) => IsSet(h, k)
      BY Zenon, <2>2, <3>1 DEF IsSet, Present
    <3> QED
      BY Zenon, <3>1, <3>2
  <2>6. Merge(h, s) = h
    <3> HIDE DEF h, s
    <3>1. Merge(h, s) = [k \in D |-> IF k \in DOMAIN s /\ ~IsSet(h, k) THEN s[k] ELSE h[k]]
      BY Zenon, <2>3, <2>4
    <3>2. \A k \in D : Merge(h, s)[k] = h[k] 
      BY Zenon, <2>2, <2>5, <3>1
    <3> QED
      BY Zenon, <2>2, <3>1, <3>2
  <2> QED
    BY Zenon, <2>1, <2>6
<1> QED
  BY Zenon, <1>1, <1>2

(***************************************************************************)
(* What conveys a content key yields it.                                   *)
(***************************************************************************)
\* decryptKey of each kind of key finds the content key that was conveyed to it,
\* by the algorithm and the parameters in the headers.
LEMMA ConveyedKey ==
    ASSUME NEW key, NEW h, NEW r, NEW cek, NEW enc, SizeOf(cek) = ContentEncryption[enc],
           GetString(h, "enc") = enc, MergePtr(h, r.header) = h,
           key.type = "opaque" => SanitizeOK(h),
           Conveys(GetString(h, "alg"), key, h, r.encryptedKey, cek, enc)
    PROVE  NewDecrypterOK(key) /\ DecryptKey(key, h, r, ContentEncryption[enc]) = <<cek>>
<1> DEFINE alg == GetString(h, "alg")
           ek == r.encryptedKey
           size == ContentEncryption[enc]
           agreed(algID, n) ==
               DeriveECDHES(algID, GetBuf(h, "apu"), GetBuf(h, "apv"), key.id, Value(h["epk"]).id, n)
           agrees ==
               /\ Present(h, "epk") /\ Kind(h["epk"]) = "jwk" /\ Value(h["epk"]).curve = key.curve
               /\ BufOK(h, "apu") /\ BufOK(h, "apv")
<1>w. \A kek : Unwrap(kek, Wrapped(kek, cek)) = <<cek>> /\ Wrapped(kek, cek) # <<>>
  BY DEF Unwrap, Wrapped
<1>t. key.type \in Symmetric => key.type \notin {"rsa", "ec", "opaque"}
  BY DEF Symmetric
<1>s. key.type \in Symmetric => DecryptKey(key, h, r, size) = SymmetricDecryptKey(key, h, ek)
  BY Zenon, <1>t DEF DecryptKey
<1>r. key.type = "rsa" => DecryptKey(key, h, r, size) = RsaDecryptKey(key, h, ek, size)
  BY Zenon, <1>t DEF DecryptKey
<1>e. key.type = "ec" => DecryptKey(key, h, r, size) = EcDecryptKey(key, h, ek, size)
  BY Zenon, <1>t DEF DecryptKey
<1>o. key.type = "opaque" => DecryptKey(key, h, r, size) = OpaqueDecryptKey(key, h, r)
  BY Zenon, <1>t DEF DecryptKey
<1>n. key.type \in Symmetric \cup {"rsa", "ec", "opaque"} => NewDecrypterOK(key)
  BY Zenon DEF NewDecrypterOK
<1>a. /\ DIRECT \notin GcmKw \cup Kw \cup Pbes2Alg /\ GcmKw \cap Kw = {}
      /\ GcmKw \cap Pbes2Alg = {} /\ Kw \cap Pbes2Alg = {}
  BY DEF DIRECT, GcmKw, Kw, Pbes2Alg
<1>1. CASE key.type \in Symmetric /\ alg = DIRECT /\ cek = KeyBytes(key)
  <2>1. SymmetricDecryptKey(key, h, ek) = <<KeyBytes(key)>>
    BY Zenon, <1>1, <1>a DEF SymmetricDecryptKey
  <2> QED
    BY Zenon, <1>1, <1>n, <1>s, <2>1
<1>2. CASE /\ key.type \in Symmetric /\ alg \in GcmKw /\ key.size \in AesSizes
           /\ Present(h, "iv") /\ h["iv"] = GcmIV(key)
           /\ Present(h, "tag") /\ h["tag"] = GcmTag(key, cek)
           /\ ek = <<"gcm", KeyBytes(key), cek>>
  <2>1. ek # <<>> /\ ek[1] = "gcm" /\ ek[2] = KeyBytes(key) /\ ek[3] = cek
    BY <1>2
  <2> HIDE DEF ek
  <2>2. SymmetricDecryptKey(key, h, ek) = <<cek>>
    BY Zenon, <1>2, <1>a, <2>1 DEF SymmetricDecryptKey
  <2> QED
    BY Zenon, <1>2, <1>n, <1>s, <2>2
<1>3. CASE /\ key.type \in Symmetric /\ alg \in Kw /\ key.size \in AesSizes
           /\ ek = Wrapped(KeyBytes(key), cek)
  <2> HIDE DEF ek
  <2>1. ek # <<>> /\ Unwrap(KeyBytes(key), ek) = <<cek>>
    BY Zenon, <1>3, <1>w
  <2>2. SymmetricDecryptKey(key, h, ek) = <<cek>>
    BY Zenon, <1>3, <1>a, <2>1 DEF SymmetricDecryptKey
  <2> QED
    BY Zenon, <1>3, <1>n, <1>s, <2>2
<1>4. CASE /\ key.type \in Symmetric /\ alg \in Pbes2Alg
           /\ GetBuf(h, "p2s") # "" /\ Present(h, "p2c") /\ Kind(h["p2c"]) = "num"
           /\ Value(h["p2c"]) \in 1..maxP2C
           /\ ek = Wrapped(Pbkdf2(key, alg, GetBuf(h, "p2s"), Value(h["p2c"])), cek)
  <2> DEFINE kek == Pbkdf2(key, alg, GetBuf(h, "p2s"), Value(h["p2c"]))
  <2>c. Value(h["p2c"]) \in 1..maxP2C
    BY Zenon, <1>4
  <2>m. maxP2C \in Nat
    BY SMT DEF maxP2C
  <2>1. Value(h["p2c"]) > 0 /\ Value(h["p2c"]) <= maxP2C
    BY SMT, <2>c, <2>m
  <2>2. BufOK(h, "p2s")
    BY Zenon, <1>4 DEF GetBuf, BufOK
  <2> HIDE DEF ek
  <2>3. ek # <<>> /\ Unwrap(kek, ek) = <<cek>>
    BY Zenon, <1>4, <1>w
  <2>4. SymmetricDecryptKey(key, h, ek) = Unwrap(kek, ek)
    BY Zenon, <1>4, <1>a, <2>1, <2>2, <2>3 DEF SymmetricDecryptKey
  <2> QED
    BY Zenon, <1>4, <1>n, <1>s, <2>3, <2>4
<1>5. CASE /\ key.type = "rsa" /\ alg \in RsaAlg
           /\ alg = "RSA1_5" => key.size \in Nat /\ key.size % 8 = 0
           /\ ek = RsaEncrypt(key, alg, cek)
  <2>1. /\ ek # <<>> /\ ek[1] = "rsa" /\ ek[2] = alg /\ ek[3] = key.id /\ ek[4] = cek
        /\ ek[5] = Octets(key)
    BY <1>5 DEF RsaEncrypt
  <2>2. alg = "RSA1_5" => key.size \div 8 = Octets(key)
    BY <1>5 DEF Octets
  <2> HIDE DEF ek
  <2>3. RsaDecryptKey(key, h, ek, size) = <<cek>>
    BY Zenon, <1>5, <2>1, <2>2 DEF RsaDecryptKey
  <2> QED
    BY Zenon, <1>5, <1>n, <1>r, <2>3
<1>6. CASE key.type = "ec" /\ alg = "ECDH_ES" /\ agrees /\ cek = agreed(enc, size)
  <2>1. EcDecryptKey(key, h, ek, size) = <<agreed(enc, size)>>
    BY Zenon, <1>6 DEF EcDecryptKey, EcdhKw
  <2> QED
    BY Zenon, <1>6, <1>n, <1>e, <2>1
<1>7. CASE key.type = "ec" /\ alg \in DOMAIN EcdhKw /\ agrees /\ ek = Wrapped(agreed(alg, EcdhKw[alg]), cek)
  <2> HIDE DEF ek
  <2>1. ek # <<>> /\ Unwrap(agreed(alg, EcdhKw[alg]), ek) = <<cek>>
    BY ZenonT(30), <1>7, <1>w
  <2>2. alg # "ECDH_ES"
    BY <1>7 DEF EcdhKw
  <2>3. EcDecryptKey(key, h, ek, size) = Unwrap(agreed(alg, EcdhKw[alg]), ek)
    BY Zenon, <1>7, <2>1, <2>2 DEF EcDecryptKey
  <2> QED
    BY Zenon, <1>7, <1>n, <1>e, <2>1, <2>3
<1>8. CASE key.type = "opaque" /\ ek = <<"opaque", alg, key.id, cek>>
  <2>1. ek # <<>> /\ ek[1] = "opaque" /\ ek[2] = alg /\ ek[3] = key.id /\ ek[4] = cek
    BY <1>8
  <2>2. Sanitized(h).alg = alg
    BY DEF Sanitized
  <2>3. OpaqueDecryptKey(key, h, r) = <<cek>>
    BY Zenon, <1>8, <2>1, <2>2 DEF OpaqueDecryptKey
  <2> QED
    BY Zenon, <1>8, <1>n, <1>o, <2>3
<1> QED
  BY Zenon, <1>1, <1>2, <1>3, <1>4, <1>5, <1>6, <1>7, <1>8 DEF Conveys

\* The headers h convey cek for key.
KeyConveyed(key, h, r, cek, enc) ==
    /\ SizeOf(cek) = ContentEncryption[enc]
    /\ GetString(h, "enc") = enc /\ MergePtr(h, r.header) = h
    /\ key.type = "opaque" => SanitizeOK(h)
    /\ Conveys(GetString(h, "alg"), key, h, r.encryptedKey, cek, enc)

\* decryptKey gets cek.
KeyGot(key, h, r, cek, enc) ==
    NewDecrypterOK(key) /\ DecryptKey(key, h, r, ContentEncryption[enc]) = <<cek>>

\* ConveyedKey with its conditions and its conclusion under one name each.
LEMMA ConveyedKeyIs ==
    ASSUME NEW key, NEW h, NEW r, NEW cek, NEW enc, KeyConveyed(key, h, r, cek, enc)
    PROVE  KeyGot(key, h, r, cek, enc)
<1>1. /\ SizeOf(cek) = ContentEncryption[enc]
      /\ GetString(h, "enc") = enc /\ MergePtr(h, r.header) = h
      /\ key.type = "opaque" => SanitizeOK(h)
      /\ Conveys(GetString(h, "alg"), key, h, r.encryptedKey, cek, enc)
  BY Zenon DEF KeyConveyed
<1> QED
  BY <1>1, ConveyedKey DEF KeyGot

(***************************************************************************)
(* Opening the content.                                                    *)
(***************************************************************************)
\* DecryptMulti finds the first place that the key opens, and Decrypt the only one.
LEMMA DecryptsWithKey ==
    ASSUME NEW o, IsSeq(o.recipients), NEW key, NewDecrypterOK(key),
           NEW i \in DOMAIN o.recipients, NEW pt, OpenWith(o, key, i) = <<pt>>,
           \A j : OpenWith(o, key, j) \in {<<>>, <<pt>>},
           CheckNoCritical(GlobalHeaders(o)), EncOf(o) \in DOMAIN ContentEncryption,
           NEW out, Decompress(o, pt) = <<out>>
    PROVE  /\ \E g \in DOMAIN o.recipients :
                 /\ g <= i /\ OpenWith(o, key, g) # <<>>
                 /\ SanitizeOK(RecipientHeaders(o, o.recipients[g])) =>
                       DecryptMulti(o, <<"key", key>>) =
                           Return("ok", g, Sanitized(RecipientHeaders(o, o.recipients[g])), out)
           /\ Len(o.recipients) = 1 /\ i = 1 =>
                 \A vk : TryJWKS(vk, o.Header) = <<key>> => Decrypt(o, vk).outcome = "ok"
<1>t. TryJWKS(<<"key", key>>, o.Header) = <<key>>
  BY DEF TryJWKS, Kind, Value
<1>k. <<key>> # <<>> /\ <<key>>[1] = key /\ <<pt>> # <<>> /\ <<pt>>[1] = pt /\ <<out>> # <<>> /\ <<out>>[1] = out
  OBVIOUS
<1>r. \A vk : TryJWKS(vk, o.Header) = <<key>> => Refusal(o, vk) = "none"
  BY Zenon, <1>k DEF Refusal
<1>n. o.recipients # <<>> /\ DOMAIN o.recipients \subseteq Nat
  BY Indices
<1>1. ASSUME Len(o.recipients) = 1, i = 1, NEW vk, TryJWKS(vk, o.Header) = <<key>>
      PROVE  Decrypt(o, vk).outcome = "ok"
  <2>1. ~(Len(o.recipients) > 1)
    BY <1>1
  <2>2. TryJWKS(vk, o.Header)[1] = key /\ Refusal(o, vk) = "none" /\ OpenWith(o, key, 1) = <<pt>>
    BY Zenon, <1>1, <1>k, <1>r
  <2>3. Decrypt(o, vk) = Return("ok", 1, ZeroHeader, out)
    BY Zenon, <1>k, <1>n, <2>1, <2>2 DEF Decrypt
  <2> QED
    BY SMTT(20), <2>3 DEF Return
<1>2. \E g \in DOMAIN o.recipients :
         /\ g <= i /\ OpenWith(o, key, g) # <<>>
         /\ SanitizeOK(RecipientHeaders(o, o.recipients[g])) =>
               DecryptMulti(o, <<"key", key>>) =
                   Return("ok", g, Sanitized(RecipientHeaders(o, o.recipients[g])), out)
  <2> DEFINE vk == <<"key", key>>
             Opened(j) == OpenWith(o, TryJWKS(vk, o.Header)[1], j)
             good == {j \in DOMAIN o.recipients : Opened(j) # <<>>}
             first == CHOOSE g \in good : \A j \in good : g <= j
             Hd(j) == RecipientHeaders(o, o.recipients[j])
  <2>0. Refusal(o, vk) = "none" /\ \A j : Opened(j) = OpenWith(o, key, j)
    BY Zenon, <1>k, <1>r, <1>t
  <2>1. good \subseteq Nat /\ i \in good
    BY Zenon, <1>k, <1>n, <2>0
  <2>2. \E g \in good : \A j \in good : g <= j
    <3> HIDE DEF good
    <3> QED
      BY Zenon, <2>1, LeastNatural
  <2>3. first \in good /\ \A j \in good : first <= j
    <3> HIDE DEF good
    <3> QED
      BY Zenon, <2>2
  <2>4. first \in DOMAIN o.recipients /\ OpenWith(o, key, first) # <<>>
    <3> HIDE DEF first
    <3> QED
      BY Zenon, <2>0, <2>3
  <2>5. OpenWith(o, key, first) = <<pt>> /\ first <= i /\ good # {}
    <3> HIDE DEF first, good
    <3> QED
      BY Zenon, <2>1, <2>3, <2>4
  <2>6. DecryptMulti(o, vk) = IF ~SanitizeOK(Hd(first)) THEN Failure("header")
                              ELSE Return("ok", first, Sanitized(Hd(first)), out)
    <3>1. DecryptMulti(o, vk) =
              IF Refusal(o, vk) # "none" THEN Failure(Refusal(o, vk))
              ELSE IF o.recipients = <<>> THEN Failure("norecipients")
              ELSE IF good = {} THEN Failure("crypto")
              ELSE IF Decompress(o, Opened(first)[1]) = <<>> THEN Failure("zip")
              ELSE IF ~SanitizeOK(Hd(first)) THEN Failure("header")
              ELSE Return("ok", first, Sanitized(Hd(first)),
                          Decompress(o, Opened(first)[1])[1])
      BY ZenonT(30) DEF DecryptMulti
    <3> HIDE DEF first, good, Hd, vk, Opened
    <3> QED
      BY Zenon, <1>k, <1>n, <2>0, <2>5, <3>1
  <2> HIDE DEF first, good
  <2> QED
    BY Zenon, <2>4, <2>5, <2>6
<1> QED
  BY Zenon, <1>1, <1>2

\* Recipient i of o conveys cek for key, and cek seals pt, which decompresses to out.
Conveyed(o, i, h, key, cek, pt, out) ==
    /\ IsSeq(o.recipients) /\ i \in DOMAIN o.recipients /\ h = RecipientHeaders(o, o.recipients[i])
    /\ CheckNoCritical(GlobalHeaders(o)) /\ EncOf(o) \in DOMAIN ContentEncryption
    /\ key.type = "opaque" => SanitizeOK(h)
    /\ SizeOf(cek) = ContentEncryption[EncOf(o)]
    /\ Conveys(GetString(h, "alg"), key, h, o.recipients[i].encryptedKey, cek, EncOf(o))
    /\ o.parts = Seal(EncOf(o), cek, AuthData(o.original, o.protected, o.aad), pt)
    /\ Decompress(o, pt) = <<out>>

\* DecryptMulti returns out from a place up to i.
OpenedUpTo(o, i, key, out) ==
    /\ NewDecrypterOK(key)
    /\ \E g \in DOMAIN o.recipients :
          /\ g <= i /\ OpenWith(o, key, g) # <<>>
          /\ SanitizeOK(RecipientHeaders(o, o.recipients[g])) =>
                DecryptMulti(o, <<"key", key>>) =
                    Return("ok", g, Sanitized(RecipientHeaders(o, o.recipients[g])), out)

\* Decrypt opens an object that has no other place.
OpenedAlone(o, i, key) ==
    Len(o.recipients) = 1 /\ i = 1 =>
        \A vk : TryJWKS(vk, o.Header) = <<key>> => Decrypt(o, vk).outcome = "ok"

\* A recipient whose content key is conveyed opens the content that was sealed with
\* it, DecryptMulti returns it from the first place that opens, and Decrypt from the
\* only one.
LEMMA ConveyedOpens ==
    ASSUME NEW o, NEW i, NEW h, NEW key, NEW cek, NEW pt, NEW out,
           Conveyed(o, i, h, key, cek, pt, out)
    PROVE  OpenedUpTo(o, i, key, out) /\ OpenedAlone(o, i, key)
<1> DEFINE enc == EncOf(o)
           r == o.recipients[i]
           auth == AuthData(o.original, o.protected, o.aad)
           Cek(j) == DecryptKey(key, RecipientHeaders(o, o.recipients[j]), o.recipients[j],
                                ContentEncryption[enc])
<1>a. /\ IsSeq(o.recipients) /\ i \in DOMAIN o.recipients
      /\ CheckNoCritical(GlobalHeaders(o)) /\ EncOf(o) \in DOMAIN ContentEncryption
      /\ Decompress(o, pt) = <<out>>
  BY Zenon DEF Conveyed
<1>b. /\ h = RecipientHeaders(o, o.recipients[i]) /\ SizeOf(cek) = ContentEncryption[EncOf(o)]
      /\ key.type = "opaque" => SanitizeOK(h)
      /\ Conveys(GetString(h, "alg"), key, h, o.recipients[i].encryptedKey, cek, EncOf(o))
  BY Zenon DEF Conveyed
<1>c. o.parts = Seal(EncOf(o), cek, AuthData(o.original, o.protected, o.aad), pt)
  BY Zenon DEF Conveyed
<1>1. GetString(h, "enc") = enc
  <2>1. enc # ""
    BY Zenon, <1>a DEF ContentEncryption
  <2> QED
    BY Zenon, <1>b, <2>1, StringSurvives DEF EncOf, RecipientHeaders
<1>2. MergePtr(h, r.header) = h
  BY ZenonT(30), <1>b, MergeAgain DEF RecipientHeaders
<1>3. NewDecrypterOK(key) /\ DecryptKey(key, h, r, ContentEncryption[enc]) = <<cek>>
  <2>1. KeyConveyed(key, h, r, cek, enc)
    BY Zenon, <1>a, <1>b, <1>1, <1>2 DEF KeyConveyed
  <2> HIDE DEF enc, r
  <2>2. KeyGot(key, h, r, cek, enc)
    BY Zenon, <2>1, ConveyedKeyIs
  <2> QED
    BY Zenon, <2>2 DEF KeyGot
<1>4. \A j : OpenWith(o, key, j) = IF Cek(j) = <<>> THEN <<>> ELSE Open(enc, Cek(j)[1], auth, o.parts)
  BY Zenon DEF OpenWith
<1>5. Cek(i) = <<cek>> /\ SizeOf(cek) = ContentEncryption[enc] /\ enc \in DOMAIN ContentEncryption
  BY Zenon, <1>a, <1>b, <1>3
<1>6. o.parts = Seal(enc, cek, auth, pt)
  BY Zenon, <1>c
<1> HIDE DEF enc, auth, Cek
<1>7. /\ Open(enc, cek, auth, o.parts) = <<pt>>
      /\ \A c : Open(enc, c, auth, o.parts) \in {<<>>, <<pt>>}
  BY Zenon, <1>5, <1>6, SealedOpens
<1>8. <<cek>> # <<>> /\ <<cek>>[1] = cek
  BY Zenon, ShortSeqs
<1>9. OpenWith(o, key, i) = <<pt>> /\ \A j : OpenWith(o, key, j) \in {<<>>, <<pt>>}
  BY Zenon, <1>4, <1>5, <1>7, <1>8
<1> QED
  BY ZenonT(30), <1>a, <1>3, <1>9, DecryptsWithKey DEF OpenedUpTo, OpenedAlone

\* A place that a key opens was made for that key.
LEMMA OpenedIsMine ==
    ASSUME NEW o, NEW m, Holds(o.recipients, o.parts, m), Consistent(o),
           NEW key, NewDecrypterOK(key), NEW g \in DOMAIN o.recipients, OpenWith(o, key, g) # <<>>
    PROVE  m.keys[g] = key.id
<1> DEFINE r == o.recipients[g]
           enc == EncOf(o)
           h == RecipientHeaders(o, r)
           size == ContentEncryption[enc]
           cek == DecryptKey(key, h, r, size)
           auth == AuthData(o.original, o.protected, o.aad)
<1>1. cek # <<>> /\ OpenWith(o, key, g) = Open(enc, cek[1], auth, o.parts)
  BY Zenon DEF OpenWith
<1>2. Len(o.parts) = 4 /\ o.parts[2] = cek[1]
  <2> HIDE DEF cek, auth, enc
  <2>1. Open(enc, cek[1], auth, o.parts) # <<>>
    BY Zenon, <1>1
  <2>2. SealedWith(o.parts, cek[1])
    BY Zenon, <2>1, OpenNeedsKey
  <2> QED
    BY Zenon, <2>2 DEF SealedWith
<1>3. MadeFor(r.encryptedKey, o.parts[2], m.keys[g])
  BY Zenon, <1>2, HeldSealed
<1> HIDE DEF r, h, size
<1> QED
  BY Zenon, <1>1, <1>2, <1>3, KeyIsMeant

(***************************************************************************)
(* Messages of other implementations.                                      *)
(***************************************************************************)
\* The parser finds a foreign message's headers, encrypted keys and content.
LEMMA ForeignParsed ==
    ASSUME NEW f \in Foreign
    PROVE  LET o == Parse(ForeignMsg(f))
           IN  /\ DOMAIN o.recipients = DOMAIN f.recipients /\ IsSeq(o.recipients)
               /\ \A i \in DOMAIN f.recipients :
                     /\ o.recipients[i].encryptedKey = f.recipients[i].ek
                     /\ RecipientHeaders(o, o.recipients[i]) = ForeignHeaders(f, i)
               /\ o.protected = HeaderPtr(f.bytes) /\ o.original = f.bytes
               /\ o.parts = Seal(f.enc, f.cek, AuthData(o.original, o.protected, o.aad),
                                 Sealed(f.zip, f.plain))
<1> DEFINE m == ForeignMsg(f)
           o == Parse(m)
           rs == [i \in DOMAIN f.recipients |->
                     [header |-> f.recipients[i].header, encryptedKey |-> f.recipients[i].ek]]
<1>a. /\ f.recipients # <<>> /\ IsSeq(f.recipients) /\ (f.flat => Len(f.recipients) = 1)
      /\ f.aad # EmptyBytes
  BY Zenon, ProducerAssumption, ForeignAssumption DEF IsSeq
<1>1. /\ m.protected = f.bytes /\ m.unprotected = f.unprotected /\ m.aad = f.aad
      /\ m.recipients = IF f.flat THEN <<>> ELSE rs
      /\ f.flat => m.header = rs[1].header /\ m.encryptedKey = rs[1].encryptedKey
      /\ m.parts = Seal(f.enc, f.cek, AuthData(f.bytes, NoHeader, f.aad), Sealed(f.zip, f.plain))
  BY Zenon DEF ForeignMsg
<1>2. /\ o.protected = HeaderPtr(m.protected) /\ o.unprotected = m.unprotected
      /\ o.recipients = RawRecipients(m) /\ o.aad = ParsedAad(m)
      /\ o.original = m.protected /\ o.parts = m.parts
  BY Zenon DEF Parse
<1>3. DOMAIN rs = DOMAIN f.recipients /\ IsSeq(rs) /\ rs # <<>>
  <2>1. IsSeq(rs) /\ Len(rs) = Len(f.recipients)
    BY <1>a, MapIsSeq
  <2> QED
    BY <1>a, <2>1, Indices
<1>r. \A i \in DOMAIN rs : rs[i].header = f.recipients[i].header /\ rs[i].encryptedKey = f.recipients[i].ek
  OBVIOUS
<1> HIDE DEF m, o, rs
<1>4. /\ DOMAIN o.recipients = DOMAIN f.recipients /\ IsSeq(o.recipients)
      /\ \A i \in DOMAIN f.recipients :
            /\ o.recipients[i].encryptedKey = f.recipients[i].ek
            /\ o.recipients[i].header = f.recipients[i].header
  <2>1. CASE f.flat
    <3>1. DOMAIN f.recipients = {1}
      BY <1>a, <2>1, Indices
    <3> DEFINE x == [header |-> m.header, encryptedKey |-> m.encryptedKey]
    <3>2. x.header = m.header /\ x.encryptedKey = m.encryptedKey
      OBVIOUS
    <3>3. o.recipients = <<x>>
      BY Zenon, <1>1, <1>2, <2>1 DEF RawRecipients
    <3> HIDE DEF x
    <3>4. DOMAIN o.recipients = {1} /\ o.recipients[1] = x /\ IsSeq(o.recipients)
      BY Zenon, <3>3, ShortSeqs
    <3>5. rs[1].header = f.recipients[1].header /\ rs[1].encryptedKey = f.recipients[1].ek
      BY <1>3, <1>r, <3>1
    <3> QED
      BY <1>1, <2>1, <3>1, <3>2, <3>4, <3>5
  <2>2. CASE ~f.flat
    <3>1. o.recipients = rs
      BY Zenon, <1>1, <1>2, <1>3, <2>2 DEF RawRecipients
    <3> QED
      BY Zenon, <1>3, <1>r, <3>1
  <2> QED
    BY Zenon, <2>1, <2>2
<1>5. \A i \in DOMAIN f.recipients : RecipientHeaders(o, o.recipients[i]) = ForeignHeaders(f, i)
  BY Zenon, <1>1, <1>2, <1>4 DEF RecipientHeaders, GlobalHeaders, ForeignHeaders
<1>6. AuthData(f.bytes, NoHeader, f.aad) = AuthData(o.original, o.protected, o.aad)
  <2>1. o.aad = f.aad /\ o.original = f.bytes /\ o.protected = HeaderPtr(f.bytes)
    BY Zenon, <1>a, <1>1, <1>2 DEF ParsedAad
  <2>2. HeaderPtr(Absent) = NoHeader
    BY DEF HeaderPtr, Absent, Kind
  <2>3. CASE f.bytes = Absent
    BY Zenon, <2>1, <2>2, <2>3
  <2>4. CASE f.bytes # Absent
    BY <2>1, <2>4 DEF AuthData
  <2> QED
    BY Zenon, <2>3, <2>4
<1> QED
  BY Zenon, <1>1, <1>2, <1>4, <1>5, <1>6 DEF o, m

\* A place of a foreign message that a key opens was made for that key.
LEMMA ForeignOpenedIsMine ==
    ASSUME NEW f \in Foreign, NEW o, o = Parse(ForeignMsg(f)), NEW key, NewDecrypterOK(key),
           NEW g \in DOMAIN o.recipients, OpenWith(o, key, g) # <<>>
    PROVE  f.recipients[g].key.id = key.id
<1> DEFINE keys == [j \in DOMAIN f.recipients |-> f.recipients[j].key.id]
           m == [plain |-> Sealed("", f.plain), aad |-> f.aad, header |-> HeaderPtr(f.bytes),
                 keys |-> keys]
<1>1. DOMAIN o.recipients = DOMAIN f.recipients /\ o.protected = HeaderPtr(f.bytes) /\ o.original = f.bytes
  BY Zenon, ForeignParsed
<1>2. Meant(m, f.plain, f.aad, HeaderPtr(f.bytes), f.recipients)
  BY ZenonT(30) DEF Meant
<1>3. m.keys[g] = f.recipients[g].key.id
  BY <1>1
<1> HIDE DEF m
<1>4. Holds(RawRecipients(ForeignMsg(f)), ForeignMsg(f).parts, m)
  BY Zenon, <1>2, ForeignHolds
<1>5. Holds(o.recipients, o.parts, m)
  BY Zenon, <1>4 DEF Parse
<1>6. Consistent(o)
  <2>1. HeaderPtr(Absent) = NoHeader
    BY DEF HeaderPtr, Absent, Kind
  <2> QED
    BY Zenon, <1>1, <2>1 DEF Consistent
<1>7. m.keys[g] = key.id
  BY ZenonT(30), <1>5, <1>6, OpenedIsMine
<1> QED
  BY Zenon, <1>3, <1>7

\* Place g of the parsed foreign message f opens for key.
OpenedPlace(f, o, key, g) ==
    f \in Foreign /\ o = Parse(ForeignMsg(f)) /\ NewDecrypterOK(key)
    /\ g \in DOMAIN o.recipients /\ OpenWith(o, key, g) # <<>>

\* Place g of f is for key.
IsMine(f, key, g) == f.recipients[g].key.id = key.id

\* ForeignOpenedIsMine with its conditions and its conclusion under one name each.
LEMMA OpenedPlaceIsMine ==
    ASSUME NEW f, NEW o, NEW key, NEW g, OpenedPlace(f, o, key, g)
    PROVE  IsMine(f, key, g)
<1>1. f \in Foreign /\ o = Parse(ForeignMsg(f)) /\ NewDecrypterOK(key)
      /\ g \in DOMAIN o.recipients /\ OpenWith(o, key, g) # <<>>
  BY Zenon DEF OpenedPlace
<1> QED
  BY <1>1, ForeignOpenedIsMine DEF IsMine

\* A foreign message as it came in opens for its recipients.
LEMMA ForeignOpens ==
    ASSUME NEW f \in Foreign, NEW o, o = Parse(ForeignMsg(f)),
           EncOf(o) = f.enc, CheckNoCritical(GlobalHeaders(o)),
           Inflates(f.zip, f.plain),
           NEW i \in DOMAIN f.recipients,
           GetString(RecipientHeaders(o, o.recipients[i]), "alg") = f.recipients[i].alg,
           \A j \in 1..i : f.recipients[j].key.id = f.recipients[i].key.id =>
                              SanitizeOK(RecipientHeaders(o, o.recipients[j]))
    PROVE  LET ret == DecryptMulti(o, <<"key", f.recipients[i].key>>)
           IN  ret.outcome = "ok" /\ ret.plaintext = Sealed("", f.plain)
<1> DEFINE key == f.recipients[i].key
           r == o.recipients[i]
           h == RecipientHeaders(o, r)
           pt == Sealed(f.zip, f.plain)
           out == Sealed("", f.plain)
<1>1. /\ DOMAIN o.recipients = DOMAIN f.recipients /\ IsSeq(o.recipients)
      /\ r.encryptedKey = f.recipients[i].ek /\ h = ForeignHeaders(f, i)
      /\ o.protected = HeaderPtr(f.bytes) /\ o.original = f.bytes
      /\ o.parts = Seal(f.enc, f.cek, AuthData(o.original, o.protected, o.aad), pt)
  BY Zenon, ForeignParsed
<1>2. /\ f.enc \in DOMAIN ContentEncryption /\ SizeOf(f.cek) = ContentEncryption[f.enc]
      /\ GetString(HeaderOf(f.bytes), "zip") = f.zip
      /\ GetString(h, "alg") = f.recipients[i].alg =>
            Conveys(f.recipients[i].alg, key, h, r.encryptedKey, f.cek, f.enc)
  BY Zenon, <1>1, ForeignAssumption
<1>5. i \in 1..i /\ SanitizeOK(h)
  <2>1. IsSeq(f.recipients)
    BY Zenon, ProducerAssumption DEF IsSeq
  <2>2. i \in 1..i
    BY SMTT(20), <2>1, Indices
  <2> QED
    BY Zenon, <2>2
<1>8. Decompress(o, pt) = <<out>>
  <2> DEFINE comp == IF o.protected = NoHeader THEN "" ELSE GetString(o.protected[1], "zip")
  <2>1. comp = f.zip
    <3>1. CASE Kind(f.bytes) = "json"
      <4>1. HeaderPtr(f.bytes) # NoHeader /\ HeaderPtr(f.bytes)[1] = HeaderOf(f.bytes)
        BY <3>1 DEF HeaderPtr, HeaderOf, NoHeader
      <4> QED
        BY Zenon, <1>1, <1>2, <4>1
    <3>2. CASE Kind(f.bytes) # "json"
      <4>1. HeaderPtr(f.bytes) = NoHeader /\ GetString(HeaderOf(f.bytes), "zip") = ""
        BY Zenon, <3>2 DEF HeaderPtr, HeaderOf, GetString, EmptyHeader
      <4> QED
        BY Zenon, <1>1, <1>2, <4>1
    <3> QED
      BY Zenon, <3>1, <3>2
  <2>2. Decompress(o, pt) = CASE comp = "" -> <<pt>> [] comp = "DEF" -> Inflate(pt) [] OTHER -> <<>>
    BY Zenon DEF Decompress
  <2>3. pt[1] = f.zip /\ pt[2] = f.plain
    BY Zenon DEF Sealed
  <2> HIDE DEF comp
  <2>4. CASE f.zip = ""
    BY Zenon, <2>1, <2>2, <2>4
  <2>5. CASE f.zip # ""
    <3>1. Inflate(pt) = <<out>>
      BY ZenonT(30), <2>3, <2>5 DEF Inflate, Inflates
    <3> QED
      BY Zenon, <2>1, <2>2, <2>5, <3>1 DEF Inflates
  <2> QED
    BY Zenon, <2>4, <2>5
<1>6. /\ NewDecrypterOK(key)
      /\ \E g \in DOMAIN o.recipients :
            /\ g <= i /\ OpenWith(o, key, g) # <<>>
            /\ SanitizeOK(RecipientHeaders(o, o.recipients[g])) =>
                  DecryptMulti(o, <<"key", key>>) =
                      Return("ok", g, Sanitized(RecipientHeaders(o, o.recipients[g])), out)
  <2>1. Conveyed(o, i, h, key, f.cek, pt, out)
    BY Zenon, <1>1, <1>2, <1>5, <1>8 DEF Conveyed
  <2> HIDE DEF pt, out, key, h
  <2>2. OpenedUpTo(o, i, key, out)
    BY Zenon, <2>1, ConveyedOpens
  <2> QED
    BY Zenon, <2>2 DEF OpenedUpTo
<1>9. PICK g \in DOMAIN o.recipients :
         /\ g <= i /\ OpenWith(o, key, g) # <<>>
         /\ SanitizeOK(RecipientHeaders(o, o.recipients[g])) =>
               DecryptMulti(o, <<"key", key>>) =
                   Return("ok", g, Sanitized(RecipientHeaders(o, o.recipients[g])), out)
  BY ZenonT(30), <1>6
<1>10. f.recipients[g].key.id = key.id
  <2> HIDE DEF key
  <2>1. OpenedPlace(f, o, key, g)
    BY Zenon, <1>6, <1>9 DEF OpenedPlace
  <2>2. IsMine(f, key, g)
    BY Zenon, <2>1, OpenedPlaceIsMine
  <2> QED
    BY Zenon, <2>2 DEF IsMine
<1>11. g \in 1..i
  <2>1. DOMAIN o.recipients = 1..Len(o.recipients) /\ Len(o.recipients) \in Nat
    BY Zenon, <1>1, Indices
  <2>2. g \in DOMAIN o.recipients /\ i \in DOMAIN o.recipients /\ g <= i
    BY Zenon, <1>1, <1>9
  <2> QED
    BY <2>1, <2>2
<1>12. SanitizeOK(RecipientHeaders(o, o.recipients[g]))
  BY Zenon, <1>10, <1>11 DEF key
<1>13. \A hd : Return("ok", g, hd, out).outcome = "ok" /\ Return("ok", g, hd, out).plaintext = out
  BY Zenon DEF Return
<1> QED
  BY Zenon, <1>9, <1>12, <1>13 DEF key

=============================================================================
