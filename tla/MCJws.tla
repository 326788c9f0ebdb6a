------------------------------- MODULE MCJws --------------------------------
(***************************************************************************)
(* A small instance of Jws: two EC keys and an HMAC key, one and two       *)
(* recipients, the option combinations that change the header, and         *)
(* messages of foreign producers with headers this library never writes.   *)
(***************************************************************************)
EXTENDS Jws

E1 == [id |-> "e1", type |-> "ec", bits |-> 256]
E2 == [id |-> "e2", type |-> "ec", bits |-> 256]
M1 == [id |-> "m1", type |-> "mac", bits |-> 256]
MCKey == {E1, E2, M1}

\* "YQ" is the base64url form of "a", so a raw payload can look encoded.
MCPayload == {NilBytes, EmptyBytes, "a", "YQ"}
MCB64 == [p \in MCPayload |->
            CASE p \in {NilBytes, EmptyBytes} -> "" [] p = "a" -> "YQ" [] p = "YQ" -> "WVE"]
MCRaw == [p \in MCPayload |-> IF p = NilBytes THEN "" ELSE p]

R(key, alg, kid) == [key |-> key, alg |-> alg, kid |-> kid]
One   == <<R(E1, "ES256", "A")>>
Two   == <<R(E1, "ES256", "A"), R(M1, "HS256", "M")>>
Clash == <<R(E1, "ES256", "A"), R(E2, "ES256", "")>>
Short == <<R(E1, "ES256", "A"), R(M1, "HS384", "M")>>

Conf(rs, embed, nonce, extra) ==
    [recipients |-> rs, embedJWK |-> embed, nonce |-> nonce, extra |-> extra]

Unencoded == [b64 |-> Bool(FALSE), crit |-> Names({"b64"})]

MCSignerConf ==
    {Conf(rs, FALSE, "", e) : rs \in {One, Two, Clash}, e \in {EmptyHeader, Unencoded}}
    \cup {Conf(One, TRUE, "n1", EmptyHeader), Conf(Two, TRUE, "", EmptyHeader),
          Conf(One, FALSE, "error", EmptyHeader), Conf(<<>>, FALSE, "error", EmptyHeader),
          Conf(Short, FALSE, "", EmptyHeader),
          Conf(<<R(M1, "ES256", "")>>, FALSE, "", EmptyHeader),
          Conf(One, FALSE, "", [alg |-> Str("HS256")]),
          Conf(One, FALSE, "", [kid |-> Str("B"), b64 |-> Str("no")]),
          Conf(One, FALSE, "", [kid |-> Str("B")]),
          Conf(One, FALSE, "", [crit |-> Names({"exp"})])}

F(key, alg, bytes, header) == [key |-> key, alg |-> alg, bytes |-> bytes, header |-> header]
Loose(h) == <<"json", h, FALSE>>

MCForeign ==
    {[payload |-> "a", sigs |-> ss] : ss \in
        {<<F(E1, "ES256", Loose([alg |-> Str("ES256"), kid |-> Str("A")]), NoHeader)>>,
         <<F(E1, "ES256", Loose([alg |-> Str(""), kid |-> Null]),
             <<[alg |-> Str("ES256"), kid |-> Str("A")]>>)>>,
         <<F(E1, "ES256", Absent, <<[alg |-> Str("ES256")]>>)>>,
         <<F(E1, "ES256", <<"empty">>, <<[alg |-> Str("ES256")]>>)>>,
         <<F(M1, "HS256", Loose([alg |-> Str("HS256"), b64 |-> Null, crit |-> Null]),
             <<[crit |-> Null]>>)>>,
         <<F(E1, "ES256", Loose([alg |-> Str("ES256"), nonce |-> Bool(TRUE)]), NoHeader)>>,
         <<F(E1, "ES256", Canonical([alg |-> Str("ES256"),
                jwk |-> JwkOf([id |-> "e1", public |-> FALSE])]), NoHeader)>>,
         <<F(E1, "ES256", Loose([alg |-> Str("ES256")]), <<[kid |-> Str("A")]>>),
           F(M1, "HS256", Loose([alg |-> Str("HS256"), crit |-> Str("b64")]), NoHeader),
           F(E2, "ES256", Canonical([alg |-> Str("ES256"), b64 |-> Bool(FALSE)]),
             <<[kid |-> Str("B")]>>)>>}}

MCAddedHeader ==
    {[kid |-> Str("B")], [nonce |-> Str("n2")], [crit |-> Names({"b64"})],
     [alg |-> Str("HS256")]}

MCOtherBytes ==
    {<<"junk">>, <<"empty">>, Canonical([alg |-> Str("ES256"), kid |-> Str("A")]),
     Loose([alg |-> Str("ES256"), kid |-> Str("A")])}

MCAllowLists == {{}, {"ES256"}, {"ES256", "HS256"}}

MCVerKeys ==
    {<<"key", E1>>, <<"key", M1>>,
     <<"jwks", <<[kid |-> "A", key |-> E1], [kid |-> "B", key |-> E2],
                 [kid |-> "A", key |-> E2]>>>>}
=============================================================================
