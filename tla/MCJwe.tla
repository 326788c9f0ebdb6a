------------------------------- MODULE MCJwe --------------------------------
(***************************************************************************)
(* A small instance of Jwe: a key of every type, every family of key       *)
(* algorithms for one recipient, mixed pairs for two, the constructor's    *)
(* error cases, and foreign messages that keep their headers in places     *)
(* this library never writes them to.                                      *)
(***************************************************************************)
EXTENDS Jwe

K(id, type, size) ==
    [id |-> id, type |-> type, size |-> size, valid |-> TRUE, curve |-> "P-256",
     kid |-> "", algs |-> {}]
R1 == K("r1", "rsa", 2048)
R2 == K("r2", "rsa", 2052)
E1 == K("e1", "ec", 0)
E0 == [K("e0", "ec", 0) EXCEPT !.valid = FALSE]
K1 == K("k1", "oct", 16)
K2 == K("k2", "oct", 32)
S1 == K("s1", "string", 20)
X1 == K("x1", "ed", 0)
O1 == [K("o1", "opaque", 0) EXCEPT !.kid = "O", !.algs = {"RSA_OAEP"}]

\* A Recipient with a bare key, with a JSONWebKey, and for PBES2.
Bare(alg, key) == [alg |-> alg, key |-> key, jwk |-> <<>>, KeyID |-> "", p2c |-> 0, p2s |-> ""]
Jwk(alg, key, kid) == [Bare(alg, key) EXCEPT !.jwk = <<kid>>]
Pbe(count, salt) == [Bare("PBES2_HS256_A128KW", S1) EXCEPT !.p2c = count, !.p2s = salt]

Conf(enc, zip, extra, rs) == [enc |-> enc, zip |-> zip, extra |-> extra, recipients |-> rs]

OneRecipient ==
    {Jwk("RSA_OAEP", R1, "A"), Bare("RSA1_5", R1), Bare("RSA1_5", R2),
     [Bare(DIRECT, K1) EXCEPT !.KeyID = "D"], Jwk("ECDH_ES", E1, "B"), Bare("ECDH_ES", E0),
     Bare("ECDH_ES_A128KW", E1), Bare("ECDH_ES_A128KW", E0), Bare("A128KW", K1),
     Bare("A128KW", S1), Bare("A256GCMKW", K2), Bare(DIRECT, S1), Pbe(0, ""), Pbe(2000000, "salt"),
     Bare("RSA_OAEP", O1), Bare("A128KW", O1), Bare("ECDH_ES", K1)}

TwoRecipients ==
    {<<Jwk("RSA_OAEP", R1, "A"), Bare("ECDH_ES_A128KW", E1)>>,
     <<Bare("A256GCMKW", K2), [Bare("A128KW", K1) EXCEPT !.KeyID = "D"]>>,
     <<Pbe(1000, "salt"), Bare("RSA1_5", R1)>>,
     <<Bare("A128KW", K1), Bare(DIRECT, K1)>>,
     <<Bare("A128KW", S1), Pbe(0, "")>>}

MCEncrypterConf ==
    {Conf("A128GCM", "", EmptyHeader, <<r>>) : r \in OneRecipient}
    \cup {Conf("A128GCM", "", EmptyHeader, rs) : rs \in TwoRecipients}
    \cup {Conf("A128GCM", "DEF", EmptyHeader, <<Bare("A128KW", K1)>>),
          Conf("A128GCM", "LZ", EmptyHeader, <<Bare("A128KW", K1)>>),
          Conf("A128CBC_HS256", "", EmptyHeader, <<Bare(DIRECT, K1)>>),
          Conf("A128CBC_HS256", "", [nonce |-> Str("n1")], <<Bare(DIRECT, K2)>>),
          Conf("A128CTR", "", EmptyHeader, <<Bare("A128KW", K1)>>),
          Conf("A128GCM", "", EmptyHeader, <<>>),
          Conf("A128GCM", "", [kid |-> Str("B"), typ |-> Str("t")], <<Jwk("RSA_OAEP", R1, "A")>>),
          Conf("A128GCM", "", [alg |-> Str("A256GCMKW")], <<Bare("A128KW", K1)>>),
          Conf("A128GCM", "", [enc |-> Str("A256GCM")], <<Bare("A128KW", K1)>>),
          Conf("A128CBC_HS256", "", [enc |-> Str("A256CBC_HS512")], <<Bare("A128KW", K1)>>),
          Conf("A128GCM", "", [apu |-> Buf("u")], <<Bare("ECDH_ES", E1)>>)}

MCPlaintext ==
    {[id |-> "small", len |-> 10, zlen |-> 12], [id |-> "tenfold", len |-> 300000, zlen |-> 30000],
     [id |-> "over", len |-> 250001, zlen |-> 300]}
MCAad == {NilBytes, EmptyBytes, "x"}

Loose(h) == <<"json", h, FALSE>>
FR(key, alg, header, ek) == [key |-> key, alg |-> alg, header |-> header, ek |-> ek]
F(bytes, unprotected, cek, flat, rs) ==
    [enc |-> "A128GCM", bytes |-> bytes, unprotected |-> unprotected, cek |-> cek, flat |-> flat,
     recipients |-> rs, aad |-> NilBytes, zip |-> "", plain |-> [id |-> "f", len |-> 5, zlen |-> 7]]
Cek == RandomKey(16)
GcmHeader == [alg |-> Str("A128GCMKW"), iv |-> GcmIV(K1), tag |-> GcmTag(K1, Cek)]
EpkHeader == [alg |-> Str("ECDH_ES"), epk |-> JwkOf(Epk(E1)), apu |-> Buf("u"), apv |-> Null]
PbeHeader == [alg |-> Str("PBES2_HS256_A128KW"), p2s |-> Buf("s"), p2c |-> Num(4096)]
Enc == [enc |-> Str("A128GCM")]
KwEk == Wrapped(KeyBytes(K1), Cek)

MCForeign ==
    {F(Loose(Override(Enc, [alg |-> Str("A128KW")])), NoHeader, Cek, TRUE,
       <<FR(K1, "A128KW", NoHeader, KwEk)>>),
     F(Absent, <<Override(Enc, [zip |-> Str("DEF")])>>, Cek, TRUE,
       <<FR(K1, "A128KW", <<[alg |-> Str("A128KW")]>>, KwEk)>>),
     F(<<"empty">>, <<Enc>>, Cek, FALSE,
       <<FR(K1, "A128GCMKW", <<GcmHeader>>, <<"gcm", KeyBytes(K1), Cek>>)>>),
     F(<<"nulltext">>, <<Enc>>, Cek, FALSE,
       <<FR(K1, "A128KW", <<[alg |-> Str("A128KW")]>>, KwEk)>>),
     F(Loose(Enc), NoHeader, Cek, FALSE,
       <<FR(R1, "RSA_OAEP", <<[alg |-> Str("RSA_OAEP"), kid |-> Bool(TRUE)]>>,
            RsaEncrypt(R1, "RSA_OAEP", Cek)),
         FR(K1, "A128KW", <<[alg |-> Str("A128KW"), kid |-> Str("A")]>>, KwEk)>>),
     F(Canonical(Override(Enc, [alg |-> Str(""), kid |-> Null])), NoHeader,
       DeriveECDHES("A128GCM", "u", "", "e1", Epk(E1).id, 16), TRUE,
       <<FR(E1, "ECDH_ES", <<EpkHeader>>, <<>>)>>),
     F(Canonical([alg |-> Str("A128KW")]), NoHeader, Cek, FALSE,
       <<FR(K1, "A128KW", <<Override(Enc, [crit |-> Names({"exp"})])>>, KwEk)>>),
     F(Canonical(Override(Enc, [alg |-> Str("RSA1_5"), crit |-> Names({"exp"})])), NoHeader, Cek,
       TRUE, <<FR(R1, "RSA1_5", NoHeader, RsaEncrypt(R1, "RSA1_5", Cek))>>),
     F(Canonical(Override(Enc, [alg |-> Str("A128KW")])), NoHeader, Cek, FALSE,
       <<FR(K1, "A128KW", <<[alg |-> Str("none"), nonce |-> Str("")]>>, KwEk)>>),
     F(Canonical(Override(Enc, [alg |-> Str("RSA_OAEP"), kid |-> Str("A")])), NoHeader, Cek, TRUE,
       <<FR(R2, "RSA1_5", NoHeader, RsaEncrypt(R2, "RSA1_5", Cek))>>),
     [F(Loose(Override(Enc, [zip |-> Str("DEF")])), NoHeader, Cek, FALSE,
        <<FR(K1, "A128KW", <<[alg |-> Str("A128KW"), kid |-> Bool(TRUE)]>>, KwEk),
          FR(S1, "PBES2_HS256_A128KW", <<PbeHeader>>,
             Wrapped(Pbkdf2(S1, "PBES2_HS256_A128KW", "s", 4096), Cek)),
          FR(K1, "A128GCMKW", <<GcmHeader>>, <<"gcm", KeyBytes(K1), Cek>>)>>)
      EXCEPT !.zip = "DEF"]}

MCAddedHeader ==
    {[kid |-> Str("B")], [nonce |-> Str("n2")], [crit |-> Null], [alg |-> Str("A128KW")]}
MCOtherBytes == {<<"junk">>, <<"empty">>, Loose(Override(Enc, [alg |-> Str("A128KW")]))}

EveryAlg == AlgsOf("oct") \cup AlgsOf("rsa") \cup AlgsOf("ec")
MCAllowLists ==
    {[algs |-> EveryAlg, encs |-> DOMAIN ContentEncryption],
     [algs |-> {"RSA_OAEP", "A128KW"}, encs |-> {"A128GCM"}],
     [algs |-> {}, encs |-> {"A128GCM"}]}

MCDecKeys ==
    {<<"key", k>> : k \in {R1, E1, K1, K2, S1, X1, O1}}
    \cup {<<"jwks", <<[kid |-> "A", key |-> R1], [kid |-> "B", key |-> E1],
                      [kid |-> "A", key |-> K1], [kid |-> "D", key |-> K1]>>>>}
=============================================================================
