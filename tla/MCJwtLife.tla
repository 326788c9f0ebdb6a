------------------------------ MODULE MCJwtLife -----------------------------
(***************************************************************************)
(* Two names, plain values and algorithms of each sort; half seconds, dates*)
(* from just before the epoch to five ticks after it.                      *)
(***************************************************************************)
EXTENDS JwtLife, TLC

MCStructs == {"iss" :> "y", "sub" :> "ref", "iss" :> "bad"}

Named(i, s, j, a) == [iss |-> i, sub |-> s, jti |-> j, aud |-> a]
Issued(n, exp, nbf, iat) ==
    [iss |-> n.iss, sub |-> n.sub, jti |-> n.jti, aud |-> n.aud, exp |-> exp, nbf |-> nbf, iat |-> iat]
Full == Named("i", "s", "j", {"a", "b"})
Dates == {{}} \cup {{d} : d \in -1..5}
\* All the dates with one set of names, and a date with all the names.
MCTokens == {Issued(Full, e, n, i) : e \in Dates, n \in Dates, i \in {{}, {3}}}
            \cup {Issued(Named(i, s, j, a), {3}, {}, {}) :
                    i \in {"", "i"}, s \in {"", "s"}, j \in {"", "j"}, a \in {{}, {"a"}, {"b"}}}
MCExpectations == {Named("", "", "", {}), Named("i", "s", "j", {"b", "c"})}
MCSkews == {-1, 0, 1}
MCLeeways == {-1, 0, 1, 2}
=============================================================================
