------------------------------- MODULE MCJwk --------------------------------
(***************************************************************************)
(* Bytes of two bits, coordinates and Ed25519 keys of two bytes; sound and *)
(* unsound keys of every kind, with and without certificates.              *)
(***************************************************************************)
EXTENDS Jwk, TLC

MCOnCurve == {<< <<1>>, <<1, 1>> >>, << <<1, 3>>, <<2>> >>}
Ec(x, y) == "x" :> x @@ "y" :> y
Rsa(n, e) == "n" :> n @@ "e" :> e
\* 3 * 5, 3 * 3 = 9 is 1 modulo 2 and modulo 4
RsaSecret == "d" :> <<3>> @@ "p" :> <<3>> @@ "q" :> <<1, 1>>
MCCertKey == [A |-> Key("EC", "public", "P-256", Ec(<<1>>, <<1, 1>>)), B |-> Key("RSA", "public", "none", Rsa(<<3, 3>>, <<3>>)),
              C |-> Key("OKP", "public", "Ed25519", "x" :> <<0, 1>>), D |-> NoKey]

Keys ==
    {Key("EC", "public", c, f) : c \in {"none", "P-224", "P-256"}, f \in {Ec(<<1>>, <<1, 1>>), Ec(<<1, 3>>, <<2>>), Ec(<<2>>, <<2>>), Ec(<<1, 0, 0>>, <<1, 1>>), "x" :> <<1>>}}
    \cup {Key("EC", "private", "P-256", Ec(<<1>>, <<1, 1>>) @@ d) : d \in {NoFields, "d" :> <<2>>, "d" :> <<1, 0, 0>>}}
    \cup {Key("RSA", "public", "none", f) : f \in {Rsa(<<3, 3>>, <<3>>), Rsa(<<3, 3>>, <<>>), "e" :> <<3>>}}
    \cup {Key("RSA", "private", "none", Rsa(<<3, 3>>, <<3>>) @@ f) :
             f \in {NoFields, RsaSecret, RsaSecret @@ "r" :> <<1, 3>>, RsaSecret @@ "dp" :> <<1>> @@ "qi" :> <<2>>}}
    \cup {Key("OKP", "public", "Ed25519", "x" :> x) : x \in {<<0, 1>>, <<1>>}}
    \cup {Key("OKP", "private", "Ed25519", "x" :> x @@ "d" :> d) : x \in {<<0, 1>>}, d \in {<<2, 0>>}}
    \cup {Key("OKP", "private", "Ed25519", "x" :> <<>> @@ "d" :> <<1>>)}
    \cup {Key("oct", "public", "none", f) : f \in {NoFields, "k" :> <<>>, "k" :> <<0, 1>>}}
    \cup {Key("opaque", "public", "none", NoFields), NoKey}
SomePrints(v, w) == "x5t" :> v @@ "x5t#S256" :> w
MCCallerKeys ==
    {Jwk(key, "kid", <<>>, url, NoPrints) : key \in Keys, url \in {"none", "u"}}
    \cup {Jwk(key, "kid", <<c>>, "none", p) : key \in Keys, c \in {"A", "B", "C", "D"},
             p \in {NoPrints, SomePrints("A", "none"), SomePrints("B", "B"), SomePrints("none", "odd"), SomePrints("C", "A")}}

EcRaw == {"x" :> x @@ "y" :> y @@ d : x \in {<<0, 1>>, <<1>>}, y \in {<<1, 1>>, <<0, 1, 1>>},
             d \in {NoFields, "d" :> <<0, 2>>, "d" :> <<1, 0, 2>>, "d" :> <<>>}}
RsaRaw == {"n" :> n @@ "e" :> e @@ d : n \in {<<3, 3>>, <<0, 3, 3>>, <<>>}, e \in {<<3>>, <<>>, <<1, 0, 3>>, <<1, 0, 0>>},
             d \in {NoFields, "d" :> <<3>>, "d" :> <<0, 3>> @@ "p" :> <<3>> @@ "q" :> <<1, 1>>,
                    "d" :> <<3>> @@ "p" :> <<3>> @@ "q" :> <<1, 2>> @@ "dq" :> <<3>>}}
EdRaw == {"x" :> x @@ d : x \in {<<0, 1>>, <<>>, <<0, 1, 2>>}, d \in {NoFields, "d" :> <<1>>}}
OctRaw == {NoFields, "k" :> <<>>, "k" :> <<0, 1>>}
Plain(kty, crv, m) == [NoRaw EXCEPT !.kty = kty, !.crv = crv, !.m = m]
PlainRaws == {Plain("EC", c, m) : c \in {"P-256", "P-224"}, m \in EcRaw} \cup {Plain("RSA", "none", m) : m \in RsaRaw}
    \cup {Plain("OKP", c, m) : c \in {"Ed25519", "X25519"}, m \in EdRaw} \cup {Plain("oct", "none", m) : m \in OctRaw}
    \cup {Plain("none", "none", NoFields)}
F(form, v) == [form |-> form, v |-> v]
Forms == {F("none", "none"), F("hex", "A"), F("bytes", "B"), F("bytes", "odd"), F("badbase64", "none"), F("badhex", "none")}
CertRaws == {[Plain(t[1], t[2], t[3]) EXCEPT !.x5c = c, !.x5u = u, !.x5t = SomePrints(a, b)] :
               t \in {<<"EC", "P-256", "x" :> <<0, 1>> @@ "y" :> <<1, 1>> @@ "d" :> <<0, 2>>>>,
                      <<"EC", "P-256", "x" :> <<0, 1>> @@ "y" :> <<1, 1>>>>,
                      <<"RSA", "none", "n" :> <<3, 3>> @@ "e" :> <<3>>>>, <<"oct", "none", "k" :> <<1>>>>},
               c \in {<<>>, <<"A">>, <<"B">>, <<"D">>}, u \in {"u", "bad"}, a \in Forms, b \in Forms \ {F("hex", "A"), F("badhex", "none")}}
MCForeignRaws == PlainRaws \cup CertRaws
=============================================================================
