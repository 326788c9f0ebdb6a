---------------------------- MODULE CbcHmacProofs ---------------------------
(***************************************************************************)
(* For every block size, block cipher, key length and number of calls:     *)
(* what Seal returns opens to its plaintext, and Open returns nothing that *)
(* a holder of the key did not make.                                       *)
(***************************************************************************)
EXTENDS CbcHmac, TLAPS

(***************************************************************************)
(* Facts about sequences.                                                  *)
(***************************************************************************)
\* Only the empty sequence has no element.
LEMMA EmptySeq ==
    ASSUME NEW S
    PROVE  /\ <<>> \in Seq(S) /\ Len(<<>>) = 0
           /\ \A s \in Seq(S) : s # <<>> => Len(s) \in Nat \ {0}
OBVIOUS

\* Replacing an element keeps the length and the other elements.
LEMMA ExceptSeq ==
    ASSUME NEW S, NEW s \in Seq(S), NEW n \in 1 .. Len(s), NEW x \in S
    PROVE  LET t == [s EXCEPT ![n] = x]
           IN  /\ t \in Seq(S) /\ Len(t) = Len(s)
               /\ \A i \in 1 .. Len(s) : t[i] = IF i = n THEN x ELSE s[i]
OBVIOUS

\* Sequences are equal when their elements are.
LEMMA SeqEqual ==
    ASSUME NEW S, NEW s \in Seq(S), NEW t \in Seq(S), Len(s) = Len(t),
           \A i \in 1 .. Len(s) : s[i] = t[i]
    PROVE  s = t
OBVIOUS

\* The elements of a concatenation.
LEMMA ConcatProperties ==
    ASSUME NEW S, NEW s \in Seq(S), NEW t \in Seq(S)
    PROVE  /\ s \o t \in Seq(S) /\ Len(s \o t) = Len(s) + Len(t)
           /\ \A i \in 1 .. Len(s) + Len(t) :
                 (s \o t)[i] = IF i <= Len(s) THEN s[i] ELSE t[i - Len(s)]
OBVIOUS

\* The elements of a subsequence.
LEMMA SubSeqProperties ==
    ASSUME NEW S, NEW s, NEW m \in Int, NEW n \in Int, \A i \in m .. n : s[i] \in S
    PROVE  LET t == SubSeq(s, m, n)
           IN  /\ t \in Seq(S) /\ Len(t) = IF m <= n THEN n - m + 1 ELSE 0
               /\ \A i \in 1 .. n - m + 1 : t[i] = s[m + i - 1]
OBVIOUS

\* One more element at the end.
LEMMA AppendProperties ==
    ASSUME NEW S, NEW s \in Seq(S), NEW x \in S
    PROVE  LET t == Append(s, x)
           IN  /\ t \in Seq(S) /\ t # <<>> /\ Len(t) = Len(s) + 1 /\ t[Len(s) + 1] = x
               /\ \A i \in 1 .. Len(s) : t[i] = s[i]
OBVIOUS

\* Appending an element is concatenating a sequence of one.
LEMMA AppendIsConcat ==
    ASSUME NEW S, NEW s \in Seq(S), NEW x \in S
    PROVE  Append(s, x) = s \o <<x>>
OBVIOUS

(***************************************************************************)
(* Arithmetic of the padding.                                              *)
(***************************************************************************)
\* A remainder is what is left of whole blocks.
LEMMA DivMod ==
    ASSUME NEW L \in Nat, NEW B \in Nat \ {0}
    PROVE  /\ L % B \in 0..(B - 1) /\ L \div B \in Nat
           /\ L = B * (L \div B) + (L % B)
  OBVIOUS

\* Quotient and remainder are unique.
LEMMA ModUnique ==
    ASSUME NEW q \in Nat, NEW B \in Nat \ {0}, NEW r \in 0..(B - 1)
    PROVE  (B * q + r) % B = r
  OBVIOUS

\* padBuffer reaches a whole number of blocks with at least one byte.
LEMMA PadLength ==
    ASSUME NEW L \in Nat, NEW B \in Nat \ {0}
    PROVE  /\ B - (L % B) \in 1..B
           /\ (L + (B - (L % B))) % B = 0
<1> DEFINE q == L \div B
           r == L % B
<1>1. r \in 0..(B - 1) /\ q \in Nat /\ L = B * q + r
  BY Zenon, DivMod
<1> HIDE DEF q, r
<1>2. L + (B - r) = B * (q + 1) + 0
  BY <1>1
<1>3. (B * (q + 1) + 0) % B = 0
  <2>1. q + 1 \in Nat /\ 0 \in 0..(B - 1)
    BY <1>1
  <2> QED
    BY <2>1, ModUnique
<1>4. B - r \in 1..B /\ (L + (B - r)) % B = 0
  BY <1>1, <1>2, <1>3
<1> QED
  BY <1>4 DEF r

\* Taking between one byte and one block off whole blocks, padBuffer would put
\* as many back.
LEMMA UnpadLength ==
    ASSUME NEW L \in Nat, NEW B \in Nat \ {0}, NEW c \in 1..B, c <= L, L % B = 0
    PROVE  B - ((L - c) % B) = c
<1> DEFINE q == L \div B
<1>1. q \in Nat /\ L = B * q + 0
  BY DivMod
<1> HIDE DEF q
<1>2. q # 0
  BY <1>1
<1>3. q - 1 \in Nat /\ B - c \in 0..(B - 1)
  BY <1>1, <1>2
<1>4. L - c = B * (q - 1) + (B - c)
  BY <1>1
<1>5. (B * (q - 1) + (B - c)) % B = B - c
  BY Zenon, <1>3, ModUnique
<1>6. (L - c) % B = B - c
  BY <1>4, <1>5
<1> QED
  BY <1>6

(***************************************************************************)
(* Padding.                                                                *)
(***************************************************************************)
\* A buffer is a sequence of bytes of bounded length.
LEMMA BufferFacts ==
    /\ \A b \in Buffers : b \in Seq(Byte) /\ Len(b) <= MaxLen
    /\ \A b \in Seq(Byte) : Len(b) <= MaxLen => b \in Buffers
<1>1. ASSUME NEW b \in Buffers PROVE b \in Seq(Byte) /\ Len(b) <= MaxLen
  <2>1. PICK n \in 0..MaxLen : b \in [1..n -> Byte]
    BY DEF Buffers
  <2> QED
    BY <2>1, SizeAssumption
<1>2. ASSUME NEW b \in Seq(Byte), Len(b) <= MaxLen PROVE b \in Buffers
  <2>1. Len(b) \in 0..MaxLen /\ b \in [1..Len(b) -> Byte]
    BY <1>2, SizeAssumption
  <2> QED
    BY <2>1 DEF Buffers
<1> QED
  BY <1>1, <1>2

\* What padBuffer returns, byte by byte.
LEMMA PadFacts ==
    ASSUME NEW b \in Seq(Byte)
    PROVE  LET n == BlockSize - (Len(b) % BlockSize)
           IN  /\ n \in 1..BlockSize
               /\ Pad(b) \in Seq(Byte) /\ Len(Pad(b)) = Len(b) + n
               /\ Len(Pad(b)) % BlockSize = 0
               /\ \A i \in 1..(Len(b) + n) : Pad(b)[i] = IF i <= Len(b) THEN b[i] ELSE <<n>>
<1> DEFINE n == BlockSize - (Len(b) % BlockSize)
<1>0. BlockSize \in Nat \ {0} /\ BlockSize <= MaxByte /\ MaxByte \in Nat /\ Len(b) \in Nat
  BY SizeAssumption
<1>1. n \in 1..BlockSize /\ (Len(b) + n) % BlockSize = 0
  BY Zenon, <1>0, PadLength
<1> HIDE DEF n
<1>2. n % (MaxByte + 1) = n
  BY <1>0, <1>1
<1>3. <<n>> \in Byte
  BY <1>0, <1>1 DEF Byte
<1>4. Padding(n) \in Seq(Byte) /\ Len(Padding(n)) = n /\ \A i \in 1..n : Padding(n)[i] = <<n>>
  BY <1>1, <1>2, <1>3, <1>0 DEF Padding
<1>5. Pad(b) = b \o Padding(n)
  BY DEF Pad, n
<1>6. /\ Pad(b) \in Seq(Byte) /\ Len(Pad(b)) = Len(b) + n
      /\ \A i \in 1..(Len(b) + n) : Pad(b)[i] = IF i <= Len(b) THEN b[i] ELSE Padding(n)[i - Len(b)]
  BY <1>4, <1>5, <1>1, <1>0, ConcatProperties
<1>7. \A i \in 1..(Len(b) + n) : i > Len(b) => Padding(n)[i - Len(b)] = <<n>>
  BY <1>4, <1>1, <1>0
<1>8. \A i \in 1..(Len(b) + n) : Pad(b)[i] = IF i <= Len(b) THEN b[i] ELSE <<n>>
  <2> TAKE i \in 1..(Len(b) + n)
  <2>1. Pad(b)[i] = IF i <= Len(b) THEN b[i] ELSE Padding(n)[i - Len(b)]
    BY <1>6
  <2>2. CASE i <= Len(b)
    BY <2>1, <2>2
  <2>3. CASE ~(i <= Len(b))
    <3>1. i > Len(b)
      BY <1>0, <1>1, <2>3
    <3>2. Padding(n)[i - Len(b)] = <<n>>
      BY <1>7, <3>1
    <3> QED
      BY <2>1, <2>3, <3>2
  <2> QED
    BY <2>2, <2>3
<1>9. Len(Pad(b)) % BlockSize = 0
  BY <1>1, <1>6
<1> QED
  BY <1>1, <1>6, <1>8, <1>9 DEF n

\* unpadBuffer accepts what padBuffer returned, and takes off what it added.
THEOREM UnpadPad ==
    ASSUME NEW b \in Seq(Byte)
    PROVE  UnpadOK(Pad(b)) /\ Unpad(Pad(b)) = b
<1> DEFINE n == BlockSize - (Len(b) % BlockSize)
           p == Pad(b)
<1>0. BlockSize \in Nat \ {0} /\ Len(b) \in Nat
  BY SizeAssumption
<1>1. /\ n \in 1..BlockSize /\ p \in Seq(Byte) /\ Len(p) = Len(b) + n /\ Len(p) % BlockSize = 0
      /\ \A i \in 1..(Len(b) + n) : p[i] = IF i <= Len(b) THEN b[i] ELSE <<n>>
  BY Zenon, PadFacts
<1> HIDE DEF n, p
<1>2. p[Len(p)] = <<n>>
  BY <1>0, <1>1
<1>3. Count(p) = n
  BY <1>2 DEF Count
<1>a. p # <<>> /\ Len(p) \in Nat /\ n <= Len(p) /\ n <= BlockSize /\ n # 0
  BY <1>0, <1>1
<1>b. \A i \in (Len(p) - n + 1)..Len(p) : p[i] = <<n>>
  BY <1>0, <1>1
<1>4. UnpadOK(p)
  BY SMTT(20), <1>0, <1>1, <1>3, <1>a, <1>b DEF UnpadOK
<1>5. Unpad(p) = SubSeq(p, 1, Len(b))
  BY <1>0, <1>1, <1>3 DEF Unpad
<1>6. SubSeq(p, 1, Len(b)) = b
  <2>1. /\ SubSeq(p, 1, Len(b)) \in Seq(Byte) /\ Len(SubSeq(p, 1, Len(b))) = Len(b)
        /\ \A i \in 1..Len(b) : SubSeq(p, 1, Len(b))[i] = p[i]
    BY <1>0, <1>1, SubSeqProperties
  <2>2. \A i \in 1..Len(b) : SubSeq(p, 1, Len(b))[i] = b[i]
    BY <1>0, <1>1, <2>1
  <2> QED
    BY Zenon, <2>1, <2>2, SeqEqual
<1> QED
  BY <1>4, <1>5, <1>6 DEF p

\* unpadBuffer accepts nothing else: putting the padding back gives the buffer.
THEOREM PadUnpad ==
    ASSUME NEW b \in Seq(Byte), b # <<>>, UnpadOK(b)
    PROVE  Unpad(b) \in Seq(Byte) /\ Pad(Unpad(b)) = b
<1> DEFINE c == Count(b)
           L == Len(b)
           u == Unpad(b)
<1>0. BlockSize \in Nat \ {0} /\ L \in Nat /\ L > 0
  BY SizeAssumption, EmptySeq
<1>1. b[L] \in Byte
  BY <1>0
<1>2. PICK k \in 0..MaxByte : b[L] = <<k>>
  BY <1>1 DEF Byte
<1>3. c = k
  BY <1>2 DEF Count
<1>4. /\ c \in 1..BlockSize /\ c <= L /\ L % BlockSize = 0 /\ b[L] = <<c>>
      /\ \A i \in (L - c + 1)..L : b[i] = b[L]
  BY <1>0, <1>2, <1>3, SizeAssumption DEF UnpadOK
<1>5. u = SubSeq(b, 1, L - c)
  BY DEF Unpad
<1> HIDE DEF c, L, u
<1>b. \A i \in 1..L : b[i] \in Byte
  BY DEF L
<1>6. u \in Seq(Byte) /\ Len(u) = L - c /\ \A i \in 1..(L - c) : u[i] = b[i]
  <2>1. \A i \in 1..(L - c) : b[i] \in Byte
    BY <1>0, <1>4, <1>b
  <2>2. /\ SubSeq(b, 1, L - c) \in Seq(Byte)
        /\ Len(SubSeq(b, 1, L - c)) = IF 1 <= L - c THEN L - c - 1 + 1 ELSE 0
        /\ \A i \in 1..(L - c - 1 + 1) : SubSeq(b, 1, L - c)[i] = b[1 + i - 1]
    BY <1>0, <1>4, <2>1, SubSeqProperties
  <2> QED
    BY <1>0, <1>4, <1>5, <2>2
<1>7. BlockSize - (Len(u) % BlockSize) = c
  BY Zenon, <1>0, <1>4, <1>6, UnpadLength
<1>8. /\ Pad(u) \in Seq(Byte) /\ Len(Pad(u)) = Len(u) + c
      /\ \A i \in 1..(Len(u) + c) : Pad(u)[i] = IF i <= Len(u) THEN u[i] ELSE <<c>>
  BY Zenon, <1>6, <1>7, PadFacts
<1>9. Len(Pad(u)) = L /\ \A i \in 1..L : Pad(u)[i] = b[i]
  <2>1. Len(u) + c = L /\ Len(u) = L - c
    BY <1>0, <1>4, <1>6
  <2>2. ASSUME NEW i \in 1..L PROVE Pad(u)[i] = b[i]
    <3>1. Pad(u)[i] = IF i <= Len(u) THEN u[i] ELSE <<c>>
      BY <1>8, <2>1
    <3>2. CASE i <= Len(u)
      <4>1. i \in 1..(L - c)
        BY <3>2, <2>1, <1>0, <1>4
      <4> QED
        BY <3>1, <3>2, <4>1, <1>6
    <3>3. CASE ~(i <= Len(u))
      <4>1. i \in (L - c + 1)..L
        BY <3>3, <2>1, <1>0, <1>4
      <4>2. b[i] = <<c>>
        BY <4>1, <1>4
      <4> QED
        BY <3>1, <3>3, <4>2
    <3> QED
      BY <3>2, <3>3
  <2> QED
    BY <1>8, <2>1, <2>2
<1>10. Pad(u) = b
  BY <1>8, <1>9, SeqEqual DEF L
<1> QED
  BY <1>6, <1>10 DEF u

(***************************************************************************)
(* The tag.                                                                *)
(***************************************************************************)
\* x is a, n and c one behind the other.
InParts(S, x, a, n, c) ==
    /\ x \in Seq(S) /\ Len(x) = Len(a) + Len(n) + Len(c)
    /\ \A i \in 1..Len(a) : x[i] = a[i]
    /\ \A i \in 1..Len(n) : x[Len(a) + i] = n[i]
    /\ \A i \in 1..Len(c) : x[Len(a) + Len(n) + i] = c[i]

\* The parts of a concatenation of three.
LEMMA ThreeParts ==
    ASSUME NEW S, NEW a \in Seq(S), NEW n \in Seq(S), NEW c \in Seq(S)
    PROVE  InParts(S, a \o n \o c, a, n, c)
<1>1. /\ a \o n \in Seq(S) /\ Len(a \o n) = Len(a) + Len(n)
      /\ \A i \in 1..(Len(a) + Len(n)) : (a \o n)[i] = IF i <= Len(a) THEN a[i] ELSE n[i - Len(a)]
  BY ConcatProperties
<1> DEFINE an == a \o n
<1> HIDE DEF an
<1>2. /\ an \o c \in Seq(S) /\ Len(an \o c) = Len(an) + Len(c)
      /\ \A i \in 1..(Len(an) + Len(c)) : (an \o c)[i] = IF i <= Len(an) THEN an[i] ELSE c[i - Len(an)]
  BY <1>1, ConcatProperties DEF an
<1> DEFINE anc == an \o c
<1> HIDE DEF anc
<1>4. /\ an \in Seq(S) /\ Len(an) = Len(a) + Len(n)
      /\ \A i \in 1..(Len(a) + Len(n)) : an[i] = IF i <= Len(a) THEN a[i] ELSE n[i - Len(a)]
  BY <1>1 DEF an
<1>5. /\ anc \in Seq(S) /\ Len(anc) = Len(an) + Len(c)
      /\ \A i \in 1..(Len(an) + Len(c)) : anc[i] = IF i <= Len(an) THEN an[i] ELSE c[i - Len(an)]
  BY <1>2 DEF anc
<1>6. \A i \in 1..Len(a) : anc[i] = a[i]
  BY <1>4, <1>5
<1>7. \A i \in 1..Len(n) : anc[Len(a) + i] = n[i]
  BY <1>4, <1>5
<1>8. ASSUME NEW i \in 1..Len(c) PROVE anc[Len(a) + Len(n) + i] = c[i]
  <2> DEFINE j == Len(an) + i
  <2>1. j \in 1..(Len(an) + Len(c)) /\ ~(j <= Len(an)) /\ j - Len(an) = i
    BY <1>4
  <2>2. j = Len(a) + Len(n) + i
    BY <1>4
  <2> HIDE DEF j
  <2>3. anc[j] = c[i]
    BY <1>5, <2>1
  <2> QED
    BY <2>2, <2>3
<1>9. anc \in Seq(S) /\ Len(anc) = Len(a) + Len(n) + Len(c)
  BY <1>4, <1>5
<1> QED
  BY <1>6, <1>7, <1>8, <1>9 DEF anc, an, InParts

\* With nonces of one length, what is written to the HMAC has one reading.
THEOREM MacInputInjective ==
    ASSUME NEW S, NEW a1 \in Seq(S), NEW a2 \in Seq(S), NEW n1 \in Seq(S), NEW n2 \in Seq(S),
           NEW c1 \in Seq(S), NEW c2 \in Seq(S), Len(n1) = Len(n2),
           MacInput(a1, n1, c1) = MacInput(a2, n2, c2)
    PROVE  a1 = a2 /\ n1 = n2 /\ c1 = c2
<1> DEFINE l(a) == <<8 * Len(a), 0, 0>>
           T == S \cup {l(a1), l(a2)}
           x1 == a1 \o n1 \o c1
           x2 == a2 \o n2 \o c2
<1>1. x1 \o <<l(a1)>> = x2 \o <<l(a2)>>
  BY Zenon DEF MacInput
<1> HIDE DEF l, T
<1>i. InParts(S, x1, a1, n1, c1) /\ InParts(S, x2, a2, n2, c2)
  BY ThreeParts
<1> HIDE DEF x1, x2
<1>a. /\ x1 \in Seq(S) /\ Len(x1) = Len(a1) + Len(n1) + Len(c1)
      /\ \A i \in 1..Len(a1) : x1[i] = a1[i]
      /\ \A i \in 1..Len(n1) : x1[Len(a1) + i] = n1[i]
      /\ \A i \in 1..Len(c1) : x1[Len(a1) + Len(n1) + i] = c1[i]
  BY <1>i DEF InParts
<1>b. /\ x2 \in Seq(S) /\ Len(x2) = Len(a2) + Len(n2) + Len(c2)
      /\ \A i \in 1..Len(a2) : x2[i] = a2[i]
      /\ \A i \in 1..Len(n2) : x2[Len(a2) + i] = n2[i]
      /\ \A i \in 1..Len(c2) : x2[Len(a2) + Len(n2) + i] = c2[i]
  BY <1>i DEF InParts
<1>3. l(a1) = l(a2) /\ x1 = x2
  <2>1. x1 \in Seq(T) /\ x2 \in Seq(T) /\ l(a1) \in T /\ l(a2) \in T
    BY <1>a, <1>b DEF T
  <2> DEFINE y1 == Append(x1, l(a1))
             y2 == Append(x2, l(a2))
  <2>2. y1 = x1 \o <<l(a1)>> /\ y2 = x2 \o <<l(a2)>>
    BY Zenon, <2>1, AppendIsConcat
  <2>3. y1 = y2
    BY Zenon, <2>2, <1>1
  <2>4. /\ Len(y1) = Len(x1) + 1 /\ Len(y2) = Len(x2) + 1
        /\ y1[Len(x1) + 1] = l(a1) /\ y2[Len(x2) + 1] = l(a2)
        /\ \A i \in 1..Len(x1) : y1[i] = x1[i]
        /\ \A i \in 1..Len(x2) : y2[i] = x2[i]
    BY <2>1, AppendProperties
  <2> HIDE DEF y1, y2
  <2>5. Len(x1) \in Nat /\ Len(x2) \in Nat
    BY <2>1
  <2>6. Len(x1) = Len(x2) /\ l(a1) = l(a2)
    BY <2>3, <2>4, <2>5
  <2>7. \A i \in 1..Len(x1) : x1[i] = x2[i]
    BY <2>3, <2>4, <2>6
  <2> QED
    BY <2>1, <2>6, <2>7, SeqEqual
<1>4. Len(a1) = Len(a2)
  <2>1. l(a1)[1] = l(a2)[1]
    BY <1>3
  <2>2. 8 * Len(a1) = 8 * Len(a2)
    BY <2>1 DEF l
  <2>3. Len(a1) \in Nat /\ Len(a2) \in Nat
    OBVIOUS
  <2> QED
    BY <2>2, <2>3
<1>5. Len(c1) = Len(c2)
  <2>1. Len(a1) \in Nat /\ Len(n1) \in Nat /\ Len(c1) \in Nat /\ Len(c2) \in Nat
    OBVIOUS
  <2> QED
    BY <2>1, <1>a, <1>b, <1>3, <1>4
<1>6. \A i \in 1..Len(a1) : a1[i] = a2[i]
  BY <1>a, <1>b, <1>3, <1>4
<1>7. \A i \in 1..Len(n1) : n1[i] = n2[i]
  BY <1>a, <1>b, <1>3, <1>4
<1>8. \A i \in 1..Len(c1) : c1[i] = c2[i]
  BY <1>a, <1>b, <1>3, <1>4, <1>5
<1>9. a1 = a2
  BY <1>4, <1>6, SeqEqual
<1>10. n1 = n2
  BY <1>7, SeqEqual
<1>11. c1 = c2
  BY <1>5, <1>8, SeqEqual
<1> QED
  BY <1>9, <1>10, <1>11

(***************************************************************************)
(* The inductive invariant.  A tag in memory or in a message was computed  *)
(* for a message in made; without that, a tag that matches says nothing.   *)
(***************************************************************************)
TagSize == ctx.hash = "set" => ctx.tag # 0

Fresh == ctx.state # "ready" => made = {} /\ sealed = {} /\ got = NoCall

MadeOK == \A m \in made : m.nonce \in IVs /\ m.aad \in Seq(Byte) /\ m.ct \in Buffers

SealedOK ==
    \A s \in sealed :
        /\ s.nonce \in IVs /\ s.aad \in Seq(Byte) /\ s.pt \in Seq(Byte) /\ Pad(s.pt) \in Buffers
        /\ s.bytes = SealBytes(s.pt, s.nonce, s.aad)
        /\ ctx.hash = "set"

Inv == TypeOK /\ TagSize /\ Fresh /\ MadeOK /\ SealedOK /\ RoundTrip /\ OpensOnlyMade

\* Sequences over a set are sequences over a larger one.
LEMMA SeqMono ==
    ASSUME NEW S, NEW T, S \subseteq T
    PROVE  Seq(S) \subseteq Seq(T)
  OBVIOUS

\* A nonce of the right length is a sequence of bytes, and the other way round.
LEMMA IVFacts ==
    /\ \A v \in IVs : v \in Seq(Byte) /\ Len(v) = nonceBytes
    /\ \A v \in Seq(Byte) : Len(v) = nonceBytes => v \in IVs
  BY SizeAssumption DEF IVs

\* A byte is no byte of a tag.
LEMMA TagNoByte ==
    ASSUME NEW M, NEW j
    PROVE  <<M, j>> \notin Byte
<1>1. ASSUME NEW n, <<M, j>> = <<n>> PROVE FALSE
  <2>1. Len(<<M, j>>) = 2 /\ Len(<<n>>) = 1
    OBVIOUS
  <2> QED
    BY <1>1, <2>1
<1> QED
  BY <1>1 DEF Byte

\* Open succeeds only on a ciphertext in made, and returns what it encrypts.
LEMMA OpenOK ==
    ASSUME ctx.tag \in Nat, ctx.hash \in {"nil", "set"}, TagSize, MadeOK,
           NEW nonce \in IVs, NEW aad \in Seq(Byte), NEW x \in Seq(Cell),
           OpenRes(nonce, x, aad) = "ok"
    PROVE  /\ Opened(nonce, x) \in Seq(Byte)
           /\ \E m \in made : /\ m.nonce = nonce /\ m.aad = aad
                              /\ m.ct = CBCEncrypt(nonce, Pad(Opened(nonce, x)))
<1> DEFINE t == ctx.tag
           L == Len(x)
           M == MacInput(aad, nonce, Body(x))
           b == CBCDecrypt(nonce, Body(x))
<1>1. /\ ~(L < t) /\ ctx.hash # "nil" /\ AuthTag(aad, nonce, Body(x)) = SubSeq(x, L - t + 1, L)
      /\ ~(Len(Body(x)) % BlockSize > 0) /\ Body(x) # <<>> /\ UnpadOK(b)
  BY DEF OpenRes
<1>2. t \in Nat \ {0} /\ L \in Nat /\ t <= L
  BY <1>1 DEF TagSize
<1>3. x[L - t + 1] \in Cell
  BY <1>2
<1>4. x[L - t + 1] = <<M, 1>>
  <2>1. \A i \in (L - t + 1)..L : x[i] \in Cell
    BY <1>2
  <2>2. SubSeq(x, L - t + 1, L)[1] = x[L - t + 1]
    BY <1>2, <2>1, SubSeqProperties
  <2>3. AuthTag(aad, nonce, Body(x))[1] = <<M, 1>>
    BY <1>2 DEF AuthTag
  <2> QED
    BY Zenon, <1>1, <2>2, <2>3
<1> HIDE DEF M
<1>5. <<M, 1>> \in TagCells
  BY <1>3, <1>4, TagNoByte DEF Cell
<1>6. PICK m \in made, j \in 1..t : <<M, 1>> = <<MacInput(m.aad, m.nonce, m.ct), j>>
  BY <1>5 DEF TagCells
<1>7. MacInput(aad, nonce, Body(x)) = MacInput(m.aad, m.nonce, m.ct)
  BY <1>6 DEF M
<1>8. /\ Body(x) \in Seq(Cell)
      /\ aad \in Seq(Cell) /\ nonce \in Seq(Cell)
      /\ m.aad \in Seq(Cell) /\ m.nonce \in Seq(Cell) /\ m.ct \in Seq(Cell)
      /\ Len(nonce) = Len(m.nonce)
  <2>1. \A i \in 1..(L - t) : x[i] \in Cell
    BY <1>2
  <2>2. Body(x) \in Seq(Cell)
    BY <1>2, <2>1, SubSeqProperties DEF Body
  <2>3. m.nonce \in IVs /\ m.aad \in Seq(Byte) /\ m.ct \in Seq(Byte)
    BY BufferFacts DEF MadeOK
  <2>4. /\ nonce \in Seq(Byte) /\ Len(nonce) = nonceBytes
        /\ m.nonce \in Seq(Byte) /\ Len(m.nonce) = nonceBytes
    BY <2>3, IVFacts
  <2>5. Seq(Byte) \subseteq Seq(Cell)
    BY SeqMono DEF Cell
  <2>6. m.aad \in Seq(Cell) /\ m.nonce \in Seq(Cell) /\ m.ct \in Seq(Cell) /\ nonce \in Seq(Cell)
    BY Zenon, <2>3, <2>4, <2>5
  <2>7. aad \in Seq(Cell)
    BY Zenon, <2>5
  <2>8. Len(nonce) = Len(m.nonce)
    BY Zenon, <2>4
  <2> QED
    BY <2>2, <2>6, <2>7, <2>8
<1>9. aad = m.aad /\ nonce = m.nonce /\ Body(x) = m.ct
  <2>1. \A a1, n1, c1, a2, n2, c2 \in Seq(Cell) :
            Len(n1) = Len(n2) /\ MacInput(a1, n1, c1) = MacInput(a2, n2, c2)
            => a1 = a2 /\ n1 = n2 /\ c1 = c2
    BY SMTT(20), MacInputInjective
  <2> QED
    BY SMTT(20), <1>7, <1>8, <2>1
<1>10. Body(x) \in Buffers /\ Len(Body(x)) % BlockSize = 0
  <2>1. Body(x) \in Buffers
    BY <1>9 DEF MadeOK
  <2>2. Len(Body(x)) \in Nat /\ BlockSize \in Nat \ {0}
    BY <1>8, SizeAssumption
  <2>3. Len(Body(x)) % BlockSize \in Nat
    BY <2>2, DivMod
  <2> QED
    BY <1>1, <2>1, <2>3
<1>11. b \in Buffers /\ Len(b) = Len(Body(x)) /\ CBCEncrypt(nonce, b) = Body(x)
  BY <1>10, CipherAssumption
<1>12. b \in Seq(Byte) /\ b # <<>>
  <2>1. Len(Body(x)) # 0
    BY <1>1, <1>8, EmptySeq
  <2>2. b \in Seq(Byte)
    BY <1>11, BufferFacts
  <2> QED
    BY <1>11, <2>1, <2>2, EmptySeq
<1> HIDE DEF b
<1>13. Unpad(b) \in Seq(Byte) /\ Pad(Unpad(b)) = b
  BY <1>1, <1>12, PadUnpad
<1>14. Opened(nonce, x) = Unpad(b)
  BY DEF Opened, b
<1> QED
  BY <1>9, <1>11, <1>13, <1>14

\* x is s1 and s2 one behind the other, and can be cut where they meet.
Joined(S, x, s1, s2) ==
    /\ x \in Seq(S) /\ Len(x) = Len(s1) + Len(s2)
    /\ SubSeq(x, 1, Len(s1)) = s1 /\ SubSeq(x, Len(s1) + 1, Len(x)) = s2

\* Cutting a concatenation where it was joined.
LEMMA Halves ==
    ASSUME NEW S, NEW s1 \in Seq(S), NEW s2 \in Seq(S)
    PROVE  Joined(S, s1 \o s2, s1, s2)
<1> DEFINE x == s1 \o s2
<1>1. /\ x \in Seq(S) /\ Len(x) = Len(s1) + Len(s2)
      /\ \A i \in 1..(Len(s1) + Len(s2)) : x[i] = IF i <= Len(s1) THEN s1[i] ELSE s2[i - Len(s1)]
  BY ConcatProperties
<1> HIDE DEF x
<1>0. Len(s1) \in Nat /\ Len(s2) \in Nat
  OBVIOUS
<1>2. /\ \A i \in 1..Len(s1) : x[i] = s1[i] /\ x[i] \in S
      /\ \A i \in 1..Len(s2) : x[Len(s1) + i] = s2[i]
      /\ \A i \in (Len(s1) + 1)..Len(x) : x[i] \in S
  <2>1. \A i \in 1..Len(x) : x[i] \in S
    BY <1>1
  <2>2. ASSUME NEW i \in 1..Len(s1) PROVE x[i] = s1[i] /\ x[i] \in S
    BY <1>0, <1>1, <2>1
  <2>3. ASSUME NEW i \in 1..Len(s2) PROVE x[Len(s1) + i] = s2[i]
    <3> DEFINE j == Len(s1) + i
    <3>1. j \in 1..(Len(s1) + Len(s2)) /\ ~(j <= Len(s1)) /\ j - Len(s1) = i
      BY <1>0
    <3> HIDE DEF j
    <3>2. x[j] = s2[i]
      BY <1>1, <3>1
    <3> QED
      BY <3>2 DEF j
  <2>4. ASSUME NEW i \in (Len(s1) + 1)..Len(x) PROVE x[i] \in S
    BY <1>0, <1>1, <2>1
  <2> QED
    BY <2>2, <2>3, <2>4
<1>3. SubSeq(x, 1, Len(s1)) = s1
  <2> DEFINE y == SubSeq(x, 1, Len(s1))
  <2>1. y \in Seq(S) /\ Len(y) = Len(s1) /\ \A i \in 1..Len(s1) : y[i] = x[i]
    BY <1>0, <1>2, SubSeqProperties
  <2> HIDE DEF y
  <2>2. \A i \in 1..Len(y) : y[i] = s1[i]
    BY <1>2, <2>1
  <2>3. y = s1
    BY <2>1, <2>2, SeqEqual
  <2> QED
    BY <2>3 DEF y
<1>4. SubSeq(x, Len(s1) + 1, Len(x)) = s2
  <2> DEFINE y == SubSeq(x, Len(s1) + 1, Len(x))
  <2>1. y \in Seq(S) /\ Len(y) = Len(s2) /\ \A i \in 1..Len(s2) : y[i] = x[Len(s1) + 1 + i - 1]
    BY <1>0, <1>1, <1>2, SubSeqProperties
  <2> HIDE DEF y
  <2>2. ASSUME NEW i \in 1..Len(y) PROVE y[i] = s2[i]
    <3>1. i \in 1..Len(s2) /\ Len(s1) + 1 + i - 1 = Len(s1) + i
      BY <1>0, <2>1
    <3>2. y[i] = x[Len(s1) + i]
      BY <2>1, <3>1
    <3> QED
      BY <1>2, <3>1, <3>2
  <2>3. y = s2
    BY <2>1, <2>2, SeqEqual
  <2> QED
    BY <2>3 DEF y
<1> QED
  BY <1>1, <1>3, <1>4 DEF x, Joined

\* What Seal returns, opened with the same nonce and data.
LEMMA SealOpens ==
    ASSUME ctx.tag \in Nat, ctx.hash = "set",
           NEW nonce \in IVs, NEW aad \in Seq(Byte), NEW pt \in Seq(Byte), Pad(pt) \in Buffers
    PROVE  /\ OpenRes(nonce, SealBytes(pt, nonce, aad), aad) = "ok"
           /\ Opened(nonce, SealBytes(pt, nonce, aad)) = pt
           /\ SealBytes(pt, nonce, aad) # <<>>
<1> DEFINE ct == CBCEncrypt(nonce, Pad(pt))
           tg == AuthTag(aad, nonce, ct)
           x == SealBytes(pt, nonce, aad)
           T == Byte \cup {<<MacInput(aad, nonce, ct), j>> : j \in 1..ctx.tag}
<1>0. BlockSize \in Nat \ {0}
  BY SizeAssumption
<1>1. Pad(pt) \in Seq(Byte) /\ Len(Pad(pt)) \in Nat \ {0} /\ Len(Pad(pt)) % BlockSize = 0
  <2> DEFINE n == BlockSize - (Len(pt) % BlockSize)
  <2>1. n \in 1..BlockSize /\ Pad(pt) \in Seq(Byte) /\ Len(Pad(pt)) = Len(pt) + n
        /\ Len(Pad(pt)) % BlockSize = 0
    BY Zenon, PadFacts
  <2> HIDE DEF n
  <2>2. Len(pt) \in Nat
    OBVIOUS
  <2> QED
    BY <1>0, <2>1, <2>2
<1>2. ct \in Buffers /\ Len(ct) = Len(Pad(pt)) /\ CBCDecrypt(nonce, ct) = Pad(pt)
  BY <1>1, CipherAssumption
<1>3. ct \in Seq(Byte)
  BY <1>2, BufferFacts
<1>4. ct \in Seq(T)
  BY <1>3, SeqMono
<1>5. tg \in Seq(T) /\ Len(tg) = ctx.tag
  BY SMTT(20) DEF AuthTag
<1>6. x = ct \o tg
  BY DEF SealBytes
<1> HIDE DEF ct, tg, x, T
<1>7. /\ x \in Seq(T) /\ Len(x) = Len(ct) + ctx.tag
      /\ SubSeq(x, 1, Len(ct)) = ct /\ SubSeq(x, Len(ct) + 1, Len(x)) = tg
  <2>1. Joined(T, x, ct, tg)
    BY <1>4, <1>5, <1>6, Halves
  <2> QED
    BY Zenon, <1>5, <2>1 DEF Joined
<1>8. Len(ct) \in Nat \ {0} /\ Len(x) - ctx.tag = Len(ct) /\ ~(Len(x) < ctx.tag)
  <2>1. Len(ct) \in Nat \ {0} /\ Len(x) = Len(ct) + ctx.tag
    BY <1>1, <1>2, <1>7
  <2> QED
    BY <2>1
<1>9. Body(x) = ct
  BY Zenon, <1>7, <1>8 DEF Body
<1>10. SubSeq(x, Len(x) - ctx.tag + 1, Len(x)) = tg
  BY Zenon, <1>7, <1>8
<1>11. AuthTag(aad, nonce, Body(x)) = tg
  BY <1>9 DEF tg
<1>12. ~(Len(Body(x)) % BlockSize > 0) /\ Body(x) # <<>>
  BY <1>1, <1>2, <1>8, <1>9
<1>13. UnpadOK(CBCDecrypt(nonce, Body(x))) /\ Unpad(CBCDecrypt(nonce, Body(x))) = pt
  BY <1>2, <1>9, UnpadPad
<1>14. OpenRes(nonce, x, aad) = "ok"
  BY <1>8, <1>10, <1>11, <1>12, <1>13 DEF OpenRes
<1>15. Opened(nonce, x) = pt
  BY <1>13 DEF Opened
<1>16. x # <<>>
  BY <1>7, <1>8
<1> QED
  BY <1>14, <1>15, <1>16 DEF x

(***************************************************************************)
(* Slices.                                                                 *)
(***************************************************************************)
\* Reading a slice that lies in the array.
LEMMA CutOK ==
    ASSUME NEW S, NEW b \in Seq(S), NEW i \in Nat, NEW j \in Nat, j <= Len(b)
    PROVE  LET c == SubSeq(b, i + 1, j)
           IN  /\ c \in Seq(S)
               /\ i <= j => Len(c) = j - i /\ \A k \in 1..(j - i) : c[k] = b[i + k]
<1> DEFINE c == SubSeq(b, i + 1, j)
<1>1. \A k \in (i + 1)..j : b[k] \in S
  OBVIOUS
<1>2. /\ c \in Seq(S)
      /\ Len(c) = IF i + 1 <= j THEN j - (i + 1) + 1 ELSE 0
      /\ \A k \in 1..(j - (i + 1) + 1) : c[k] = b[(i + 1) + k - 1]
  BY <1>1, SubSeqProperties
<1>3. j - (i + 1) + 1 = j - i /\ \A k \in Int : (i + 1) + k - 1 = i + k
  OBVIOUS
<1> HIDE DEF c
<1>l. Len(c) = IF i + 1 <= j THEN j - (i + 1) + 1 ELSE 0
  BY Zenon, <1>2
<1>4. i <= j => Len(c) = j - i
  BY <1>l
<1>5. \A k \in 1..(j - i) : c[k] = b[i + k]
  BY <1>2, <1>3
<1> QED
  BY <1>2, <1>4, <1>5 DEF c

\* Storing keeps the array, but for the room behind the slice.
LEMMA StoreOK ==
    ASSUME NEW S, NEW b \in Seq(S), NEW x \in Seq(S), NEW s,
           s.off \in Nat, s.len \in Nat, s.cap \in Nat, s.off + s.cap <= Len(b)
    PROVE  /\ Store(b, s, x) \in Seq(S) /\ Len(Store(b, s, x)) = Len(b)
           /\ \A i \in 1..Len(b) : Store(b, s, x)[i] # b[i] =>
                /\ s.off + s.len < i /\ i <= s.off + s.len + Len(x)
                /\ i <= s.off + s.cap
<1>1. CASE ~(s.cap >= s.len + Len(x))
  BY <1>1 DEF Store
<1>2. CASE s.cap >= s.len + Len(x)
  <2> DEFINE at == s.off + s.len
             y == [i \in 1..Len(b) |-> IF i \in (at + 1)..(at + Len(x)) THEN x[i - at] ELSE b[i]]
  <2>1. Store(b, s, x) = y
    BY <1>2 DEF Store
  <2>0. at \in Nat /\ Len(x) \in Nat /\ Len(b) \in Nat
    OBVIOUS
  <2>2. \A i \in 1..Len(b) : y[i] \in S
    BY SMTT(20), <2>0
  <2>3. y \in Seq(S) /\ Len(y) = Len(b)
    BY <2>0, <2>2
  <2>4. \A i \in 1..Len(b) : y[i] # b[i] => i \in (at + 1)..(at + Len(x))
    OBVIOUS
  <2>5. at + Len(x) <= s.off + s.cap
    BY <1>2, <2>0
  <2> HIDE DEF y
  <2>6. \A i \in 1..Len(b) : y[i] # b[i] => at < i /\ i <= at + Len(x) /\ i <= s.off + s.cap
    BY <2>0, <2>4, <2>5
  <2> QED
    BY Zenon, <2>1, <2>3, <2>6
<1> QED
  BY <1>1, <1>2

\* Slices of the caller's memory.
LEMMA ReadOK ==
    ASSUME TypeOK, NEW s \in Sources \cup Rooms
    PROVE  /\ Read(buf, s) \in Seq(Cell)
           /\ s.off \in Nat /\ s.len \in Nat /\ s.cap \in Nat /\ s.off + s.cap <= Len(buf)
<1>1. /\ buf \in Seq(Cell) /\ Len(buf) = Len(Memory)
      /\ s.off \in Nat /\ s.len \in Nat /\ s.cap \in Nat
      /\ s.len <= s.cap /\ s.off + s.cap <= Len(Memory)
  BY InputAssumption DEF TypeOK
<1>2. s.off + s.len \in Nat /\ s.off + s.len <= Len(buf)
  BY <1>1
<1>3. SubSeq(buf, s.off + 1, s.off + s.len) \in Seq(Cell)
  BY Zenon, <1>1, <1>2, CutOK
<1> QED
  BY <1>1, <1>3 DEF Read

(***************************************************************************)
(* What the steps share.                                                   *)
(***************************************************************************)
\* More messages, more tags.
LEMMA CellGrow ==
    ASSUME ctx' = ctx, made \subseteq made'
    PROVE  Cell \subseteq Cell' /\ Seq(Cell) \subseteq Seq(Cell') /\ Seq(Byte) \subseteq Seq(Cell')
<1>1. TagCells \subseteq TagCells'
  BY DEF TagCells
<1>2. Cell \subseteq Cell' /\ Byte \subseteq Cell'
  BY <1>1 DEF Cell
<1> QED
  BY <1>2, SeqMono

\* The tag of a message in made is made of cells.
LEMMA TagOK ==
    ASSUME ctx.tag \in Nat, ctx' = ctx, NEW aad, NEW nonce, NEW ct,
           [nonce |-> nonce, aad |-> aad, ct |-> ct] \in made'
    PROVE  AuthTag(aad, nonce, ct) \in Seq(Cell')
<1> DEFINE M == MacInput(aad, nonce, ct)
           m == [nonce |-> nonce, aad |-> aad, ct |-> ct]
<1>0. m.nonce = nonce /\ m.aad = aad /\ m.ct = ct /\ m \in made'
  OBVIOUS
<1> HIDE DEF m
<1>1. ASSUME NEW j \in 1..ctx.tag PROVE <<M, j>> \in Cell'
  <2>1. <<MacInput(m.aad, m.nonce, m.ct), j>> \in TagCells'
    BY <1>0 DEF TagCells
  <2> QED
    BY <1>0, <2>1 DEF Cell
<1>2. AuthTag(aad, nonce, ct) = [j \in 1..ctx.tag |-> <<M, j>>]
  BY DEF AuthTag
<1> HIDE DEF M
<1> QED
  BY SMTT(20), <1>1, <1>2

\* Seal and encrypt.
LEMMA SealStep ==
    ASSUME Inv, ctx' = ctx, ctx.hash = "set",
           NEW nonce \in IVs, NEW aad \in Seq(Byte), NEW pt \in Seq(Byte), Pad(pt) \in Buffers,
           Remember(pt, nonce, aad)
    PROVE  /\ made \subseteq made' /\ MadeOK' /\ SealedOK'
           /\ SealBytes(pt, nonce, aad) \in Seq(Cell')
           /\ Len(SealBytes(pt, nonce, aad)) - ctx.tag = Len(CBCEncrypt(nonce, Pad(pt)))
<1> DEFINE ct == CBCEncrypt(nonce, Pad(pt))
           m == [nonce |-> nonce, aad |-> aad, ct |-> ct]
           x == SealBytes(pt, nonce, aad)
           z == [nonce |-> nonce, aad |-> aad, pt |-> pt, bytes |-> x]
<1>1. made' = made \cup {m} /\ sealed' = sealed \cup {z}
  BY DEF Remember
<1>2. ct \in Buffers
  <2>1. Len(Pad(pt)) % BlockSize = 0
    BY Zenon, PadFacts
  <2> QED
    BY <2>1, CipherAssumption
<1>3. m.nonce \in IVs /\ m.aad \in Seq(Byte) /\ m.ct \in Buffers
  BY Zenon, <1>2
<1>4. MadeOK'
  BY <1>1, <1>3 DEF MadeOK, Inv
<1>5. \A p, v, a : SealBytes(p, v, a)' = SealBytes(p, v, a)
  BY DEF SealBytes, AuthTag
<1>6. /\ z.nonce \in IVs /\ z.aad \in Seq(Byte) /\ z.pt \in Seq(Byte) /\ Pad(z.pt) \in Buffers
      /\ z.bytes = SealBytes(z.pt, z.nonce, z.aad)
  OBVIOUS
<1>t. ctx.tag \in Nat
  BY DEF Inv, TypeOK
<1>7. AuthTag(aad, nonce, ct) \in Seq(Cell')
  BY Zenon, <1>1, <1>t, TagOK
<1>8. ct \in Seq(Cell')
  BY <1>1, <1>2, BufferFacts, CellGrow
<1>9. x = ct \o AuthTag(aad, nonce, ct) /\ Len(AuthTag(aad, nonce, ct)) = ctx.tag
  BY <1>t DEF SealBytes, AuthTag
<1> HIDE DEF ct, x, z
<1>10. SealedOK'
  <2> SUFFICES ASSUME NEW s \in sealed'
               PROVE  /\ s.nonce \in IVs /\ s.aad \in Seq(Byte) /\ s.pt \in Seq(Byte) /\ Pad(s.pt) \in Buffers
                      /\ s.bytes = SealBytes(s.pt, s.nonce, s.aad)'
                      /\ ctx'.hash = "set"
    BY DEF SealedOK
  <2>1. CASE s \in sealed
    BY <2>1, <1>5 DEF SealedOK, Inv
  <2>2. CASE s = z
    BY <2>2, <1>5, <1>6
  <2> QED
    BY <1>1, <2>1, <2>2
<1>11. Joined(Cell', x, ct, AuthTag(aad, nonce, ct))
  BY <1>7, <1>8, <1>9, Halves
<1>12. Len(ct) \in Nat
  BY <1>8
<1>13. x \in Seq(Cell') /\ Len(x) - ctx.tag = Len(ct)
  BY SMTT(20), <1>9, <1>11, <1>12, <1>t DEF Joined
<1> QED
  BY <1>1, <1>4, <1>10, <1>13 DEF x, ct

\* Open and decrypt.
LEMMA OpenStep ==
    ASSUME Inv, ctx' = ctx, made' = made, sealed' = sealed,
           NEW nonce \in IVs, NEW aad \in Seq(Byte), NEW x \in Seq(Cell), NEW pre \in Seq(Cell),
           NEW call, NEW dst,
           got' = Result(call, OpenRes(nonce, x, aad), nonce, aad, x, dst, pre, Opened(nonce, x))
    PROVE  RoundTrip' /\ OpensOnlyMade'
<1> DEFINE res == OpenRes(nonce, x, aad)
           u == Opened(nonce, x)
<1>0. /\ ctx.tag \in Nat /\ ctx.hash \in {"nil", "set"} /\ TagSize /\ MadeOK /\ SealedOK
  BY DEF Inv, TypeOK
<1>1. /\ got'.res = res /\ got'.nonce = nonce /\ got'.aad = aad /\ got'.in = x /\ got'.pre = pre
      /\ res = "ok" => got'.out = pre \o u
  BY DEF Result
<1>2. RoundTrip'
  <2> SUFFICES ASSUME NEW s \in sealed, nonce = s.nonce, aad = s.aad, x = s.bytes
               PROVE  res = "ok" /\ u = s.pt
    BY Zenon, <1>1 DEF RoundTrip, Opening
  <2>1. /\ s.nonce \in IVs /\ s.aad \in Seq(Byte) /\ s.pt \in Seq(Byte) /\ Pad(s.pt) \in Buffers
        /\ s.bytes = SealBytes(s.pt, s.nonce, s.aad) /\ ctx.hash = "set"
    BY <1>0 DEF SealedOK
  <2>2. OpenRes(s.nonce, SealBytes(s.pt, s.nonce, s.aad), s.aad) = "ok"
        /\ Opened(s.nonce, SealBytes(s.pt, s.nonce, s.aad)) = s.pt
    BY <1>0, <2>1, SealOpens
  <2> QED
    BY <2>1, <2>2
<1>3. OpensOnlyMade'
  <2> SUFFICES ASSUME res = "ok"
               PROVE  \E m \in made : /\ m.nonce = nonce /\ m.aad = aad
                         /\ m.ct = CBCEncrypt(nonce, Pad(SubSeq(got'.out, Len(pre) + 1, Len(got'.out))))
    BY <1>1 DEF OpensOnlyMade, Opening
  <2>1. /\ u \in Seq(Byte)
        /\ \E m \in made : m.nonce = nonce /\ m.aad = aad /\ m.ct = CBCEncrypt(nonce, Pad(u))
    BY <1>0, OpenOK
  <2>2. u \in Seq(Cell)
    BY <2>1, SeqMono DEF Cell
  <2> HIDE DEF u
  <2>3. Joined(Cell, got'.out, pre, u)
    BY Zenon, <1>1, <2>2, Halves DEF u
  <2>4. SubSeq(got'.out, Len(pre) + 1, Len(got'.out)) = u
    BY Zenon, <2>3 DEF Joined
  <2> QED
    BY Zenon, <2>1, <2>4
<1> QED
  BY <1>2, <1>3

(***************************************************************************)
(* Messages.                                                               *)
(***************************************************************************)
PartsOK(p, S) ==
    /\ p.iv \in Seq(Byte) /\ p.aad \in Seq(Byte)
    /\ p.arr \in Seq(S) /\ p.tag \in Seq(S) /\ p.len \in 0..Len(p.arr)

\* The slices of the parts lie in their array.
LEMMA PartsFacts ==
    ASSUME NEW S, NEW p, PartsOK(p, S)
    PROVE  /\ Ciphertext(p) \in Seq(S) /\ Len(Ciphertext(p)) = p.len
           /\ \A i \in 1..p.len : Ciphertext(p)[i] = p.arr[i]
           /\ TagOf(p) \in Seq(S)
           /\ p.layout = "behind" =>
                /\ Len(TagOf(p)) = Len(p.arr) - p.len
                /\ \A i \in 1..(Len(p.arr) - p.len) : TagOf(p)[i] = p.arr[p.len + i]
<1>0. p.arr \in Seq(S) /\ p.tag \in Seq(S) /\ p.len \in Nat /\ p.len <= Len(p.arr) /\ Len(p.arr) \in Nat
  BY DEF PartsOK
<1> DEFINE n == Len(p.arr)
           c == SubSeq(p.arr, 1, p.len)
           t == SubSeq(p.arr, p.len + 1, n)
<1>1. \A i \in 1..n : p.arr[i] \in S
  BY <1>0
<1>2. c \in Seq(S) /\ Len(c) = p.len /\ \A i \in 1..p.len : c[i] = p.arr[i]
  <2>1. 0 + 1 = 1 /\ p.len - 0 = p.len /\ 0 <= p.len /\ \A i \in Nat : 0 + i = i
    BY <1>0
  <2>2. c \in Seq(S) /\ Len(c) = p.len - 0 /\ \A i \in 1..(p.len - 0) : c[i] = p.arr[0 + i]
    BY <1>0, <2>1, CutOK
  <2> HIDE DEF c
  <2> QED
    BY <2>1, <2>2
<1>3. t \in Seq(S) /\ Len(t) = n - p.len /\ \A i \in 1..(n - p.len) : t[i] = p.arr[p.len + i]
  <2>2. t \in Seq(S) /\ Len(t) = n - p.len /\ \A i \in 1..(n - p.len) : t[i] = p.arr[p.len + i]
    BY SMTT(20), <1>0, CutOK
  <2> HIDE DEF t
  <2>3. Len(t) = n - p.len
    BY <1>0, <2>2
  <2>4. ASSUME NEW i \in 1..(n - p.len) PROVE t[i] = p.arr[p.len + i]
    <3>1. i \in 1..(n - (p.len + 1) + 1) /\ (p.len + 1) + i - 1 = p.len + i
      BY <1>0
    <3> QED
      BY <2>2, <3>1
  <2> QED
    BY <2>2, <2>3, <2>4
<1>4. Ciphertext(p) = c /\ TagOf(p) = IF p.layout = "behind" THEN t ELSE p.tag
  BY DEF Ciphertext, TagOf
<1> HIDE DEF c, t
<1> QED
  BY <1>0, <1>2, <1>3, <1>4

\* A parsed message.
LEMMA ParsedOK ==
    ASSUME NEW S, Byte \subseteq S, NEW iv \in Seq(Byte), NEW aad \in Seq(Byte),
           NEW ct \in Seq(S), NEW tag \in Seq(S), NEW spare \in Nat
    PROVE  PartsOK(Parsed(iv, aad, ct, tag, spare), S)
<1> DEFINE z == [i \in 1..spare |-> <<0>>]
           p == Parsed(iv, aad, ct, tag, spare)
<1>1. <<0>> \in S
  BY SizeAssumption DEF Byte
<1>2. z \in Seq(S)
  BY <1>1
<1>3. p.iv = iv /\ p.aad = aad /\ p.arr = ct \o z /\ p.len = Len(ct) /\ p.tag = tag
  BY DEF Parsed
<1> HIDE DEF z, p
<1>4. Joined(S, p.arr, ct, z)
  BY <1>2, <1>3, Halves
<1>5. p.arr \in Seq(S) /\ Len(p.arr) = Len(ct) + Len(z)
  BY <1>4 DEF Joined
<1>6. Len(ct) \in Nat /\ Len(z) \in Nat
  BY <1>2
<1>7. p.len \in 0..Len(p.arr)
  BY <1>3, <1>5, <1>6
<1>8. PartsOK(p, S)
  BY <1>3, <1>5, <1>7 DEF PartsOK
<1> QED
  BY <1>8 DEF p

\* Associated data and nonce on the line are bytes.
LEMMA LineOK ==
    ASSUME NEW S, Byte \subseteq S, NEW p, PartsOK(p, S)
    PROVE  /\ Line(p) \in Seq(S)
           /\ Len(Line(p)) = Len(p.aad) + Len(p.iv) + p.len + Len(TagOf(p))
           /\ \A i \in 1..(Len(p.aad) + Len(p.iv)) : Line(p)[i] \in Byte
<1> DEFINE x == p.aad \o p.iv \o Ciphertext(p)
<1>1. /\ p.aad \in Seq(Byte) /\ p.iv \in Seq(Byte) /\ p.len \in Nat
      /\ Ciphertext(p) \in Seq(S) /\ Len(Ciphertext(p)) = p.len /\ TagOf(p) \in Seq(S)
  BY PartsFacts DEF PartsOK
<1>2. p.aad \in Seq(S) /\ p.iv \in Seq(S)
  BY <1>1, SeqMono
<1>3. InParts(S, x, p.aad, p.iv, Ciphertext(p))
  BY <1>1, <1>2, ThreeParts
<1>4. Line(p) = x \o TagOf(p)
  BY DEF Line
<1> HIDE DEF x
<1> DEFINE a == Len(p.aad)
           v == Len(p.iv)
           tg == TagOf(p)
           ln == Line(p)
<1>5. /\ x \in Seq(S) /\ Len(x) = a + v + p.len
      /\ \A i \in 1..a : x[i] = p.aad[i]
      /\ \A i \in 1..v : x[a + i] = p.iv[i]
  BY Zenon, <1>1, <1>3 DEF InParts
<1>6. a \in Nat /\ v \in Nat /\ Len(tg) \in Nat
  BY <1>1
<1>7. /\ \A i \in 1..a : p.aad[i] \in Byte
      /\ \A i \in 1..v : p.iv[i] \in Byte
  BY <1>1
<1>t. tg \in Seq(S)
  BY <1>1
<1> HIDE DEF a, v, tg
<1>8. ASSUME NEW i \in 1..(a + v) PROVE x[i] \in Byte
  <2>1. CASE i <= a
    BY <1>5, <1>6, <1>7, <2>1
  <2>2. CASE ~(i <= a)
    <3>1. i - a \in 1..v /\ a + (i - a) = i
      BY <1>6, <2>2
    <3> QED
      BY <1>5, <1>7, <3>1
  <2> QED
    BY <2>1, <2>2
<1>9. /\ x \o tg \in Seq(S) /\ Len(x \o tg) = Len(x) + Len(tg)
      /\ \A i \in 1..(Len(x) + Len(tg)) : (x \o tg)[i] = IF i <= Len(x) THEN x[i] ELSE tg[i - Len(x)]
  BY Zenon, <1>5, <1>t, ConcatProperties
<1>10. ln = x \o tg
  BY <1>4 DEF tg
<1> HIDE DEF ln
<1>11. /\ ln \in Seq(S) /\ Len(ln) = Len(x) + Len(tg)
       /\ \A i \in 1..(Len(x) + Len(tg)) : ln[i] = IF i <= Len(x) THEN x[i] ELSE tg[i - Len(x)]
  BY <1>9, <1>10
<1>12. ASSUME NEW i \in 1..(a + v) PROVE ln[i] \in Byte
  <2>1. i <= Len(x) /\ i \in 1..(Len(x) + Len(tg))
    BY <1>1, <1>5, <1>6
  <2> QED
    BY Zenon, <1>8, <1>11, <2>1
<1>13. Len(ln) = a + v + p.len + Len(tg)
  BY <1>5, <1>11
<1> QED
  BY Zenon, <1>11, <1>12, <1>13 DEF ln, a, v, tg

(***************************************************************************)
(* The invariant is inductive.                                             *)
(***************************************************************************)
\* The inputs of a call.
LEMMA Inputs ==
    /\ Nonces \subseteq IVs /\ Aads \subseteq Seq(Byte)
    /\ Forms \subseteq Buffers /\ Forms \subseteq Seq(Byte)
  BY InputAssumption, BufferFacts

\* What a step after NewCBCHMAC has to show.
LEMMA StepInv ==
    ASSUME Inv, Called, made \subseteq made', MadeOK', SealedOK',
           buf' \in Seq(Cell'), Len(buf') = Len(buf), PartsOK(parts', Cell'),
           RoundTrip', OpensOnlyMade'
    PROVE  Inv'
<1>1. ctx' = ctx /\ cipher' = cipher /\ ctx.state = "ready"
  BY DEF Called
<1>2. TypeOK'
  BY <1>1 DEF Inv, TypeOK, PartsOK
<1>3. TagSize' /\ Fresh'
  BY <1>1 DEF Inv, TagSize, Fresh
<1> QED
  BY <1>2, <1>3 DEF Inv

\* The same for steps that compute no tag.
LEMMA Quiet ==
    ASSUME Inv, Called, made' = made, sealed' = sealed
    PROVE  made \subseteq made' /\ MadeOK' /\ SealedOK' /\ Cell' = Cell
<1>1. ctx' = ctx
  BY DEF Called
<1>2. \A p, v, a : SealBytes(p, v, a)' = SealBytes(p, v, a)
  BY <1>1 DEF SealBytes, AuthTag
<1>3. MadeOK'
  BY DEF Inv, MadeOK
<1>4. SealedOK'
  <2> SUFFICES ASSUME NEW s \in sealed
               PROVE  /\ s.nonce \in IVs /\ s.aad \in Seq(Byte) /\ s.pt \in Seq(Byte) /\ Pad(s.pt) \in Buffers
                      /\ s.bytes = SealBytes(s.pt, s.nonce, s.aad)' /\ ctx'.hash = "set"
    BY DEF SealedOK
  <2> QED
    BY <1>1, <1>2 DEF Inv, SealedOK
<1>5. Cell' = Cell
  BY <1>1 DEF Cell, TagCells
<1> QED
  BY <1>3, <1>4, <1>5

\* Calls that open nothing leave the properties of openings alone.
LEMMA NotOpening ==
    ASSUME got'.call \notin {"open", "decrypt"}
    PROVE  RoundTrip' /\ OpensOnlyMade'
  BY Zenon DEF RoundTrip, OpensOnlyMade, Opening

\* NewCBCHMAC: no tag exists yet.
LEMMA NewInv ==
    ASSUME Inv, NEW len \in KeyLens, NEW k \in HashKeys, NewCBCHMAC(len, k)
    PROVE  Inv'
<1> DEFINE n == len \div 2
<1>1. n \in Nat /\ k \in Nat /\ (n \in HashKeys => n # 0)
  BY SizeAssumption
<1>2. /\ ctx.state = "none" /\ cipher' = k
      /\ ctx' = IF len - n \notin AesKeys
                THEN [state |-> "error", tag |-> 0, hash |-> "nil"]
                ELSE [state |-> "ready", tag |-> n, hash |-> IF n \in HashKeys THEN "set" ELSE "nil"]
      /\ buf' = buf /\ parts' = parts /\ made' = made /\ sealed' = sealed /\ got' = got
  BY DEF NewCBCHMAC
<1> HIDE DEF n
<1>3. /\ ctx'.state \in {"error", "ready"} /\ ctx'.tag \in Nat /\ ctx'.hash \in {"nil", "set"}
      /\ ctx'.hash = "set" => ctx'.tag # 0
  BY <1>1, <1>2
<1>4. made = {} /\ sealed = {} /\ got = NoCall
  BY Zenon, <1>2 DEF Inv, Fresh
<1>5. Cell = Byte /\ Cell' = Byte
  BY <1>2, <1>4 DEF Cell, TagCells
<1>6. TypeOK'
  BY Zenon, <1>1, <1>2, <1>3, <1>5 DEF Inv, TypeOK
<1>7. TagSize' /\ Fresh' /\ MadeOK' /\ SealedOK'
  BY Zenon, <1>2, <1>3, <1>4 DEF TagSize, Fresh, MadeOK, SealedOK
<1>8. RoundTrip' /\ OpensOnlyMade'
  BY <1>2, <1>4, NotOpening DEF NoCall
<1> QED
  BY <1>6, <1>7, <1>8 DEF Inv

\* Seal.
LEMMA SealInv ==
    ASSUME Inv, NEW dst \in Rooms, NEW src \in Sources, NEW nonce \in Nonces, NEW aad \in Aads,
           Seal(dst, src, nonce, aad)
    PROVE  Inv'
<1> DEFINE pt == Read(buf, src)
           x == SealBytes(pt, nonce, aad)
<1>1. Called /\ Plaintext(src) /\ parts' = parts /\ ctx' = ctx /\ got'.call = "seal"
  BY DEF Seal, Called, Result
<1>2. nonce \in IVs /\ aad \in Seq(Byte)
  BY Inputs
<1>3. RoundTrip' /\ OpensOnlyMade'
  BY Zenon, <1>1, NotOpening
<1>4. CASE ctx.hash = "set"
  <2>1. Remember(pt, nonce, aad) /\ buf' = Store(buf, dst, x)
    BY <1>4 DEF Seal
  <2>2. pt \in Seq(Byte) /\ Pad(pt) \in Buffers
    <3>1. pt \in Seq(Byte) /\ Len(Pad(pt)) <= MaxLen
      BY <1>1, BufferFacts DEF Plaintext
    <3>2. Pad(pt) \in Seq(Byte)
      BY Zenon, <3>1, PadFacts
    <3> QED
      BY <3>1, <3>2, BufferFacts
  <2> HIDE DEF pt
  <2>3. made \subseteq made' /\ MadeOK' /\ SealedOK' /\ x \in Seq(Cell')
    BY <1>1, <1>2, <1>4, <2>1, <2>2, SealStep
  <2> HIDE DEF x
  <2>4. Seq(Cell) \subseteq Seq(Cell')
    BY <1>1, <2>3, CellGrow
  <2>5. buf \in Seq(Cell') /\ PartsOK(parts', Cell')
    BY <1>1, <2>4 DEF Inv, TypeOK, PartsOK
  <2>6. dst.off \in Nat /\ dst.len \in Nat /\ dst.cap \in Nat /\ dst.off + dst.cap <= Len(buf)
    BY ZenonT(30), ReadOK DEF Inv
  <2>7. buf' \in Seq(Cell') /\ Len(buf') = Len(buf)
    BY <2>1, <2>3, <2>5, <2>6, StoreOK
  <2> QED
    BY Zenon, <1>1, <1>3, <2>3, <2>5, <2>7, StepInv
<1>5. CASE ctx.hash = "nil"
  <2>1. buf' = buf /\ made' = made /\ sealed' = sealed
    BY <1>5 DEF Seal
  <2>2. made \subseteq made' /\ MadeOK' /\ SealedOK' /\ Cell' = Cell
    BY <1>1, <2>1, Quiet
  <2>3. buf' \in Seq(Cell') /\ PartsOK(parts', Cell')
    BY <1>1, <2>1, <2>2 DEF Inv, TypeOK, PartsOK
  <2> QED
    BY Zenon, <1>1, <1>3, <2>1, <2>2, <2>3, StepInv
<1>6. ctx.hash \in {"nil", "set"}
  BY DEF Inv, TypeOK
<1> QED
  BY Zenon, <1>4, <1>5, <1>6

\* Open.
LEMMA OpenInv ==
    ASSUME Inv, NEW dst \in Rooms, NEW src \in Sources, NEW nonce \in Nonces, NEW aad \in Aads,
           Open(dst, src, nonce, aad)
    PROVE  Inv'
<1> DEFINE x == Read(buf, src)
           pre == Read(buf, dst)
           u == Opened(nonce, x)
           res == OpenRes(nonce, x, aad)
<1>1. /\ Called /\ parts' = parts /\ made' = made /\ sealed' = sealed /\ ctx' = ctx
      /\ got' = Result("open", res, nonce, aad, x, dst, pre, u)
      /\ buf' = IF res = "ok" THEN Store(buf, dst, u) ELSE buf
  BY DEF Open, Called
<1>2. nonce \in IVs /\ aad \in Seq(Byte)
  BY Inputs
<1>3. /\ x \in Seq(Cell) /\ pre \in Seq(Cell)
      /\ dst.off \in Nat /\ dst.len \in Nat /\ dst.cap \in Nat /\ dst.off + dst.cap <= Len(buf)
  BY Zenon, ReadOK DEF Inv
<1> HIDE DEF x, pre
<1>4. RoundTrip' /\ OpensOnlyMade'
  BY Zenon, <1>1, <1>2, <1>3, OpenStep
<1>5. made \subseteq made' /\ MadeOK' /\ SealedOK' /\ Cell' = Cell
  BY <1>1, Quiet
<1>6. buf \in Seq(Cell) /\ PartsOK(parts, Cell)
  BY DEF Inv, TypeOK, PartsOK
<1>7. buf' \in Seq(Cell) /\ Len(buf') = Len(buf)
  <2>1. CASE res = "ok"
    <3>1. ctx.tag \in Nat /\ ctx.hash \in {"nil", "set"} /\ TagSize /\ MadeOK
      BY DEF Inv, TypeOK
    <3>2. u \in Seq(Byte)
      BY <1>2, <1>3, <2>1, <3>1, OpenOK
    <3>3. u \in Seq(Cell)
      BY <3>2, SeqMono DEF Cell
    <3> HIDE DEF u
    <3> QED
      BY <1>1, <1>3, <1>6, <2>1, <3>3, StoreOK
  <2>2. CASE res # "ok"
    BY Zenon, <1>1, <1>6, <2>2
  <2> QED
    BY Zenon, <2>1, <2>2
<1> QED
  BY Zenon, <1>1, <1>4, <1>5, <1>6, <1>7, StepInv

\* aeadContentCipher.encrypt.
LEMMA EncryptInv ==
    ASSUME Inv, NEW src \in Sources, NEW nonce \in Nonces, NEW aad \in Aads, Encrypt(src, nonce, aad)
    PROVE  Inv'
<1> DEFINE pt == Read(buf, src)
           x == SealBytes(pt, nonce, aad)
           ct == CBCEncrypt(nonce, Pad(pt))
<1>1. /\ Called /\ Plaintext(src) /\ buf' = buf /\ ctx' = ctx /\ got'.call = "encrypt"
      /\ ctx.hash = "set" /\ ctx.tag = cipher /\ Remember(pt, nonce, aad)
      /\ parts' = [iv |-> nonce, aad |-> aad, arr |-> x, len |-> Len(x) - cipher,
                   tag |-> <<>>, layout |-> "behind"]
  BY DEF Encrypt, Called, Result
<1>2. nonce \in IVs /\ nonce \in Seq(Byte) /\ aad \in Seq(Byte)
  BY Inputs, IVFacts
<1>3. pt \in Seq(Byte) /\ Pad(pt) \in Buffers
  <2>1. pt \in Seq(Byte) /\ Len(Pad(pt)) <= MaxLen
    BY <1>1, BufferFacts DEF Plaintext
  <2>2. Pad(pt) \in Seq(Byte)
    BY Zenon, <2>1, PadFacts
  <2> QED
    BY Zenon, <2>1, <2>2, BufferFacts
<1> HIDE DEF pt
<1>4. /\ made \subseteq made' /\ MadeOK' /\ SealedOK' /\ x \in Seq(Cell')
      /\ Len(x) - ctx.tag = Len(ct)
  BY <1>1, <1>2, <1>3, SealStep
<1>5. Len(ct) \in Nat
  <2>1. Len(Pad(pt)) % BlockSize = 0
    BY Zenon, <1>3, PadFacts
  <2>2. ct \in Buffers
    BY <1>2, <1>3, <2>1, CipherAssumption
  <2> QED
    BY <2>2, BufferFacts
<1> HIDE DEF x, ct
<1>6. ctx.tag \in Nat /\ Len(x) \in Nat
  BY <1>4 DEF Inv, TypeOK
<1>7. PartsOK(parts', Cell')
  <2>1. Len(x) - cipher \in 0..Len(x)
    BY <1>1, <1>4, <1>5, <1>6
  <2> QED
    BY <1>1, <1>2, <1>4, <2>1 DEF PartsOK
<1>8. buf' \in Seq(Cell')
  BY Zenon, <1>1, <1>4, CellGrow DEF Inv, TypeOK
<1>9. RoundTrip' /\ OpensOnlyMade'
  BY <1>1, NotOpening
<1> QED
  BY Zenon, <1>1, <1>4, <1>7, <1>8, <1>9, StepInv

\* Another holder of the key.
LEMMA ForeignInv ==
    ASSUME Inv, NEW ct \in Forms, NEW nonce \in Nonces, NEW aad \in Aads, Foreign(ct, nonce, aad)
    PROVE  Inv'
<1> DEFINE m == [nonce |-> nonce, aad |-> aad, ct |-> ct]
           tg == AuthTag(aad, nonce, ct)
<1>1. /\ Called /\ ctx' = ctx /\ got' = NoCall /\ buf' = buf /\ sealed' = sealed
      /\ parts' = Parsed(nonce, aad, ct, tg, 0) /\ made' = made \cup {m}
  BY DEF Foreign, Arrives, Called
<1>2. nonce \in IVs /\ nonce \in Seq(Byte) /\ aad \in Seq(Byte) /\ ct \in Buffers /\ ct \in Seq(Byte)
  BY Zenon, Inputs, IVFacts
<1>3. made \subseteq made' /\ m \in made'
  BY Zenon, <1>1
<1>4. MadeOK'
  BY <1>1, <1>2 DEF Inv, MadeOK
<1>5. SealedOK'
  <2>1. \A p, v, a : SealBytes(p, v, a)' = SealBytes(p, v, a)
    BY Zenon, <1>1 DEF SealBytes, AuthTag
  <2> SUFFICES ASSUME NEW s \in sealed
               PROVE  /\ s.nonce \in IVs /\ s.aad \in Seq(Byte) /\ s.pt \in Seq(Byte) /\ Pad(s.pt) \in Buffers
                      /\ s.bytes = SealBytes(s.pt, s.nonce, s.aad)' /\ ctx'.hash = "set"
    BY Zenon, <1>1 DEF SealedOK
  <2> QED
    BY <1>1, <2>1 DEF Inv, SealedOK
<1>6. tg \in Seq(Cell')
  BY <1>1, <1>3, TagOK DEF Inv, TypeOK
<1> HIDE DEF tg, m
<1>7. buf' \in Seq(Cell') /\ ct \in Seq(Cell') /\ Byte \subseteq Cell'
  BY Zenon, <1>1, <1>2, <1>3, CellGrow DEF Inv, TypeOK, Cell
<1>8. PartsOK(parts', Cell')
  BY Zenon, <1>1, <1>2, <1>6, <1>7, ParsedOK
<1>9. RoundTrip' /\ OpensOnlyMade'
  BY Zenon, <1>1, NotOpening DEF NoCall
<1> QED
  BY Zenon, <1>1, <1>3, <1>4, <1>5, <1>7, <1>8, <1>9, StepInv

\* What arrives after a passage that computes no tag.
LEMMA ArriveInv ==
    ASSUME Inv, NEW z \in Seq(Cell), NEW a \in Nat, NEW v \in Nat, NEW c \in Nat, NEW spare \in Nat,
           a + v + c <= Len(z), SubSeq(z, 1, a) \in Seq(Byte), SubSeq(z, a + 1, a + v) \in Seq(Byte),
           made' = made,
           Arrives(Parsed(SubSeq(z, a + 1, a + v), SubSeq(z, 1, a), SubSeq(z, a + v + 1, a + v + c),
                          SubSeq(z, a + v + c + 1, Len(z)), spare))
    PROVE  Inv'
<1> DEFINE iv == SubSeq(z, a + 1, a + v)
           aad == SubSeq(z, 1, a)
           ct == SubSeq(z, a + v + 1, a + v + c)
           tg == SubSeq(z, a + v + c + 1, Len(z))
<1>1. Called /\ got' = NoCall /\ parts' = Parsed(iv, aad, ct, tg, spare) /\ buf' = buf /\ sealed' = sealed
  BY DEF Arrives
<1>2. ct \in Seq(Cell)
  <2>1. a + v \in Nat /\ a + v + c \in Nat
    OBVIOUS
  <2> QED
    BY <2>1, CutOK
<1>3. tg \in Seq(Cell)
  <2>1. a + v + c \in Nat /\ Len(z) \in Nat
    OBVIOUS
  <2> QED
    BY <2>1, CutOK
<1>4. made \subseteq made' /\ MadeOK' /\ SealedOK' /\ Cell' = Cell
  BY <1>1, Quiet
<1>5. iv \in Seq(Byte) /\ aad \in Seq(Byte) /\ Byte \subseteq Cell
  BY DEF Cell
<1> HIDE DEF iv, aad, ct, tg
<1>6. PartsOK(parts', Cell)
  BY Zenon, <1>1, <1>2, <1>3, <1>5, ParsedOK
<1>7. buf' \in Seq(Cell) /\ Len(buf') = Len(buf)
  BY <1>1 DEF Inv, TypeOK
<1>8. RoundTrip' /\ OpensOnlyMade'
  BY <1>1, NotOpening DEF NoCall
<1> QED
  BY Zenon, <1>1, <1>4, <1>6, <1>7, <1>8, StepInv

\* A message split at other places.
LEMMA ResplitInv ==
    ASSUME Inv, NEW a \in Nat, NEW v \in Nat, NEW c \in Nat, NEW spare \in 0..MaxSpare,
           Resplit(a, v, c, spare)
    PROVE  Inv'
<1> DEFINE z == Line(parts)
           h == SubSeq(z, 1, a + v)
<1>1. /\ a + v + c <= Len(z) /\ h \in Seq(Byte) /\ made' = made
      /\ Arrives(Parsed(SubSeq(z, a + 1, a + v), SubSeq(z, 1, a), SubSeq(z, a + v + 1, a + v + c),
                        SubSeq(z, a + v + c + 1, Len(z)), spare))
  BY DEF Resplit
<1>2. z \in Seq(Cell)
  <2>1. PartsOK(parts, Cell) /\ Byte \subseteq Cell
    BY DEF Inv, TypeOK, PartsOK, Cell
  <2> QED
    BY Zenon, <2>1, LineOK
<1>3. spare \in Nat
  BY SizeAssumption
<1> HIDE DEF z
<1>4. \A i \in 1..(a + v) : z[i] \in Byte
  <2>1. /\ Len(z) \in Nat /\ a + v \in Nat /\ a + v <= Len(z) /\ 0 <= a + v
        /\ 0 + 1 = 1 /\ (a + v) - 0 = a + v /\ \A i \in Nat : 0 + i = i
    BY <1>1, <1>2
  <2>2. Len(h) = (a + v) - 0 /\ \A i \in 1..((a + v) - 0) : h[i] = z[0 + i]
    BY <1>2, <2>1, CutOK
  <2> HIDE DEF h
  <2>3. \A i \in 1..(a + v) : h[i] = z[i] /\ i \in 1..Len(h)
    BY <2>1, <2>2
  <2> QED
    BY SMTT(20), <1>1, <2>3
<1>5. SubSeq(z, 1, a) \in Seq(Byte)
  <2>1. \A i \in 1..a : z[i] \in Byte
    BY <1>4
  <2> QED
    BY <2>1, SubSeqProperties
<1>6. SubSeq(z, a + 1, a + v) \in Seq(Byte)
  <2>1. \A i \in (a + 1)..(a + v) : z[i] \in Byte
    BY <1>4
  <2> QED
    BY <2>1, SubSeqProperties
<1> QED
  BY Zenon, <1>1, <1>2, <1>3, <1>5, <1>6, ArriveInv

\* A message with one byte changed.
LEMMA DamageInv ==
    ASSUME Inv, NEW k \in 1..Len(Line(parts)), NEW b \in Byte, Damage(k, b)
    PROVE  Inv'
<1> DEFINE ln == Line(parts)
           z == [ln EXCEPT ![k] = b]
           a == Len(parts.aad)
           v == Len(parts.iv)
           c == parts.len
<1>1. /\ made' = made
      /\ Arrives(Parsed(SubSeq(z, a + 1, a + v), SubSeq(z, 1, a), SubSeq(z, a + v + 1, a + v + c),
                        SubSeq(z, a + v + c + 1, Len(z)), 0))
  BY Zenon DEF Damage
<1>2. PartsOK(parts, Cell) /\ Byte \subseteq Cell
  BY DEF Inv, TypeOK, PartsOK, Cell
<1>3. ln \in Seq(Cell) /\ Len(ln) = a + v + c + Len(TagOf(parts)) /\ \A i \in 1..(a + v) : ln[i] \in Byte
  BY Zenon, <1>2, LineOK
<1>4. a \in Nat /\ v \in Nat /\ c \in Nat /\ Len(TagOf(parts)) \in Nat
  BY <1>2, PartsFacts DEF PartsOK
<1> HIDE DEF ln, a, v, c
<1>5. k \in 1..Len(ln) /\ b \in Cell
  BY <1>2 DEF ln
<1>6. z \in Seq(Cell) /\ Len(z) = Len(ln) /\ \A i \in 1..Len(ln) : z[i] = IF i = k THEN b ELSE ln[i]
  BY <1>3, <1>5, ExceptSeq
<1> HIDE DEF z
<1>7. a + v + c <= Len(z)
  BY <1>3, <1>4, <1>6
<1>8. ASSUME NEW i \in 1..(a + v) PROVE z[i] \in Byte
  <2>1. i \in 1..Len(ln)
    BY <1>3, <1>4
  <2> QED
    BY <1>3, <1>6, <2>1
<1>9. SubSeq(z, 1, a) \in Seq(Byte)
  <2>1. \A i \in 1..a : z[i] \in Byte
    BY <1>4, <1>8
  <2> QED
    BY <1>4, <2>1, SubSeqProperties
<1>10. SubSeq(z, a + 1, a + v) \in Seq(Byte)
  <2>1. \A i \in (a + 1)..(a + v) : z[i] \in Byte
    BY <1>4, <1>8
  <2> QED
    BY <1>4, <2>1, SubSeqProperties
<1>11. 0 \in Nat
  OBVIOUS
<1> QED
  BY Zenon, <1>1, <1>4, <1>6, <1>7, <1>9, <1>10, <1>11, ArriveInv

\* append(parts.ciphertext, parts.tag...) keeps the ciphertext, and writes the
\* tag over itself when it lies behind the ciphertext.
LEMMA AppendedOK ==
    ASSUME NEW S, NEW p, PartsOK(p, S)
    PROVE  /\ Appended(p) \in Seq(S) /\ Len(Appended(p)) = Len(p.arr)
           /\ \A i \in 1..p.len : Appended(p)[i] = p.arr[i]
           /\ p.layout = "behind" => Appended(p) = p.arr
<1> DEFINE s == [off |-> 0, len |-> p.len, cap |-> Len(p.arr)]
           t == TagOf(p)
           y == Appended(p)
<1>0. p.arr \in Seq(S) /\ p.len \in Nat /\ p.len <= Len(p.arr) /\ Len(p.arr) \in Nat
  BY DEF PartsOK
<1>1. /\ t \in Seq(S)
      /\ p.layout = "behind" => /\ Len(t) = Len(p.arr) - p.len
                                /\ \A i \in 1..(Len(p.arr) - p.len) : t[i] = p.arr[p.len + i]
  BY Zenon, PartsFacts
<1>2. y = Store(p.arr, s, t)
  BY DEF Appended
<1> HIDE DEF t, y
<1>3. s.off = 0 /\ s.len = p.len /\ s.cap = Len(p.arr)
  OBVIOUS
<1> HIDE DEF s
<1>4. /\ Store(p.arr, s, t) \in Seq(S) /\ Len(Store(p.arr, s, t)) = Len(p.arr)
      /\ \A i \in 1..Len(p.arr) : Store(p.arr, s, t)[i] # p.arr[i] => s.off + s.len < i
  <2>1. s.off \in Nat /\ s.len \in Nat /\ s.cap \in Nat /\ s.off + s.cap <= Len(p.arr)
    BY <1>0, <1>3
  <2> QED
    BY Zenon, <1>0, <1>1, <2>1, StoreOK
<1>5. y \in Seq(S) /\ Len(y) = Len(p.arr) /\ \A i \in 1..p.len : y[i] = p.arr[i]
  BY <1>0, <1>2, <1>3, <1>4
<1>6. ASSUME p.layout = "behind" PROVE y = p.arr
  <2>1. Len(t) = Len(p.arr) - p.len
    BY <1>1, <1>6
  <2>2. s.cap >= s.len + Len(t)
    BY <1>0, <1>3, <2>1
  <2> DEFINE at == s.off + s.len
  <2>3. y = [i \in 1..Len(p.arr) |-> IF i \in (at + 1)..(at + Len(t)) THEN t[i - at] ELSE p.arr[i]]
    BY <1>2, <2>2 DEF Store
  <2>4. at = p.len
    BY <1>0, <1>3
  <2> HIDE DEF at
  <2>5. ASSUME NEW i \in 1..Len(p.arr) PROVE y[i] = p.arr[i]
    <3>1. y[i] = IF i \in (p.len + 1)..(p.len + Len(t)) THEN t[i - p.len] ELSE p.arr[i]
      BY Zenon, <2>3, <2>4
    <3>2. CASE i \in (p.len + 1)..(p.len + Len(t))
      <4>1. i - p.len \in 1..(Len(p.arr) - p.len) /\ p.len + (i - p.len) = i
        BY <1>0, <2>1, <3>2
      <4>2. t[i - p.len] = p.arr[p.len + (i - p.len)]
        BY Zenon, <1>1, <1>6, <4>1
      <4> QED
        BY <3>1, <3>2, <4>1, <4>2
    <3> QED
      BY Zenon, <3>1, <3>2
  <2> QED
    BY Zenon, <1>0, <1>5, <2>5, SeqEqual
<1> QED
  BY <1>5, <1>6 DEF y

\* aeadContentCipher.decrypt.
LEMMA DecryptInv ==
    ASSUME Inv, Decrypt
    PROVE  Inv'
<1> DEFINE x == Ciphertext(parts) \o TagOf(parts)
<1>1. Called /\ buf' = buf /\ made' = made /\ sealed' = sealed /\ ctx' = ctx
  BY DEF Decrypt, Called
<1>2. made \subseteq made' /\ MadeOK' /\ SealedOK' /\ Cell' = Cell
  BY <1>1, Quiet
<1>3. PartsOK(parts, Cell) /\ buf \in Seq(Cell)
  BY DEF Inv, TypeOK, PartsOK
<1>4. x \in Seq(Cell)
  <2>1. Ciphertext(parts) \in Seq(Cell) /\ TagOf(parts) \in Seq(Cell)
    BY <1>3, PartsFacts
  <2>2. Joined(Cell, x, Ciphertext(parts), TagOf(parts))
    BY <2>1, Halves
  <2> QED
    BY Zenon, <2>2 DEF Joined
<1> HIDE DEF x
<1>5. CASE /\ Len(parts.iv) # nonceBytes \/ Len(TagOf(parts)) < cipher
           /\ got' = Result("decrypt", "refused", parts.iv, parts.aad, <<>>, Nil, <<>>, <<>>)
           /\ parts' = parts
  <2>1. got'.in = <<>> /\ got'.res = "refused"
    BY Zenon, <1>5 DEF Result
  <2>2. OpensOnlyMade'
    BY Zenon, <2>1 DEF OpensOnlyMade
  <2>3. RoundTrip'
    <3> SUFFICES ASSUME NEW s \in sealed PROVE s.bytes # <<>>
      BY Zenon, <1>1, <2>1 DEF RoundTrip
    <3>1. /\ s.nonce \in IVs /\ s.aad \in Seq(Byte) /\ s.pt \in Seq(Byte) /\ Pad(s.pt) \in Buffers
          /\ s.bytes = SealBytes(s.pt, s.nonce, s.aad) /\ ctx.hash = "set" /\ ctx.tag \in Nat
      BY DEF Inv, SealedOK, TypeOK
    <3> QED
      BY Zenon, <3>1, SealOpens
  <2> QED
    BY Zenon, <1>1, <1>2, <1>3, <1>5, <2>2, <2>3, StepInv
<1>6. CASE /\ Len(parts.iv) = nonceBytes /\ Len(TagOf(parts)) >= cipher
           /\ parts' = InArray(parts, Appended(parts))
           /\ got' = Result("decrypt", OpenRes(parts.iv, x, parts.aad), parts.iv, parts.aad, x,
                            Nil, <<>>, Opened(parts.iv, x))
  <2>1. parts.iv \in IVs /\ parts.aad \in Seq(Byte) /\ <<>> \in Seq(Cell)
    BY <1>3, <1>6, IVFacts DEF PartsOK
  <2>2. RoundTrip' /\ OpensOnlyMade'
    BY Zenon, <1>1, <1>4, <1>6, <2>1, OpenStep
  <2>3. Appended(parts) \in Seq(Cell) /\ Len(Appended(parts)) = Len(parts.arr)
    BY Zenon, <1>3, AppendedOK
  <2>4. PartsOK(parts', Cell)
    BY <1>3, <1>6, <2>3 DEF PartsOK, InArray
  <2> QED
    BY Zenon, <1>1, <1>2, <1>3, <2>2, <2>4, StepInv
<1> QED
  BY Zenon, <1>5, <1>6 DEF Decrypt, x

\* At the start there are bytes and no messages.
LEMMA InitInv == Init => Inv
<1> SUFFICES ASSUME Init PROVE Inv
  OBVIOUS
<1>1. Memory \in Seq(Byte) /\ Seq(Byte) \subseteq Seq(Cell)
  BY Zenon, InputAssumption, SeqMono DEF Cell
<1>2. TypeOK
  BY SMTT(20), <1>1 DEF Init, TypeOK, NoCtx, NoParts
<1>3. TagSize /\ Fresh /\ MadeOK /\ SealedOK
  BY ZenonT(30) DEF Init, TagSize, Fresh, MadeOK, SealedOK, NoCtx
<1>4. RoundTrip /\ OpensOnlyMade
  BY Zenon DEF Init, RoundTrip, OpensOnlyMade, Opening, NoCall
<1> QED
  BY <1>2, <1>3, <1>4 DEF Inv

\* One case per action.
LEMMA NextInv == Inv /\ [Next]_vars => Inv'
<1> SUFFICES ASSUME Inv, [Next]_vars PROVE Inv'
  OBVIOUS
<1>1. CASE \E len \in KeyLens, k \in HashKeys : NewCBCHMAC(len, k)
  BY <1>1, NewInv
<1>2. CASE \E nonce \in Nonces, aad \in Aads, dst \in Rooms, src \in Sources : Seal(dst, src, nonce, aad)
  BY <1>2, SealInv
<1>3. CASE \E nonce \in Nonces, aad \in Aads, dst \in Rooms, src \in Sources : Open(dst, src, nonce, aad)
  BY <1>3, OpenInv
<1>4. CASE \E nonce \in Nonces, aad \in Aads, src \in Sources : Encrypt(src, nonce, aad)
  BY <1>4, EncryptInv
<1>5. CASE \E nonce \in Nonces, aad \in Aads, ct \in Forms : Foreign(ct, nonce, aad)
  BY <1>5, ForeignInv
<1>6. CASE Decrypt
  BY <1>6, DecryptInv
<1>7. CASE \E a \in 0..Len(Line(parts)), v \in {nonceBytes, nonceBytes - 1} \ {-1},
              c \in 0..Len(Line(parts)), spare \in 0..MaxSpare : Resplit(a, v, c, spare)
  <2>1. PICK a \in 0..Len(Line(parts)), v \in {nonceBytes, nonceBytes - 1} \ {-1},
              c \in 0..Len(Line(parts)), spare \in 0..MaxSpare : Resplit(a, v, c, spare)
    BY <1>7
  <2>2. a \in Nat /\ v \in Nat /\ c \in Nat
    BY SizeAssumption
  <2> QED
    BY <2>1, <2>2, ResplitInv
<1>8. CASE \E i \in 1..Len(Line(parts)), b \in Byte : Damage(i, b)
  BY <1>8, DamageInv
<1>9. CASE UNCHANGED vars
  <2>0. /\ ctx' = ctx /\ cipher' = cipher /\ buf' = buf /\ parts' = parts
        /\ made' = made /\ sealed' = sealed /\ got' = got
    BY Zenon, <1>9 DEF vars
  <2>1. Cell' = Cell
    BY <2>0 DEF Cell, TagCells
  <2>2. TypeOK' /\ TagSize' /\ Fresh' /\ MadeOK'
    BY <2>0, <2>1 DEF Inv, TypeOK, TagSize, Fresh, MadeOK
  <2>3. \A p, v, a : SealBytes(p, v, a)' = SealBytes(p, v, a)
    BY Zenon, <2>0 DEF SealBytes, AuthTag
  <2>4. SealedOK'
    BY <2>0, <2>3 DEF Inv, SealedOK
  <2>5. RoundTrip' /\ OpensOnlyMade'
    BY Zenon, <2>0 DEF Inv, RoundTrip, OpensOnlyMade, Opening
  <2> QED
    BY <2>2, <2>4, <2>5 DEF Inv
<1> QED
  BY <1>1, <1>2, <1>3, <1>4, <1>5, <1>6, <1>7, <1>8, <1>9 DEF Next

\* The invariant holds in every reachable state.
LEMMA Invariant == Spec => []Inv
  BY InitInv, NextInv, PTL DEF Spec

\* What Seal returned opens to its plaintext, for every block size, cipher, key
\* length and history of calls.
THEOREM SealedOpens == Spec => []RoundTrip
<1>1. Inv => RoundTrip
  BY DEF Inv
<1> QED
  BY Invariant, <1>1, PTL

\* Open and decrypt return a plaintext only for a nonce, data and ciphertext
\* that a holder of the key computed the tag of.
THEOREM OnlyMadeOpens == Spec => []OpensOnlyMade
<1>1. Inv => OpensOnlyMade
  BY DEF Inv
<1> QED
  BY Invariant, <1>1, PTL

(***************************************************************************)
(* What a step may not do.                                                 *)
(***************************************************************************)
RoomStep ==
    \A i \in 1..Len(buf) : buf'[i] # buf[i] =>
        /\ got'.call \in {"seal", "open"} /\ got'.res = "ok"
        /\ got'.dst.off + got'.dst.len < i /\ i <= got'.dst.off + Len(got'.out)
        /\ i <= got'.dst.off + got'.dst.cap

\* Storing a result behind dst stays in the room that the result takes.
LEMMA StoreStep ==
    ASSUME Inv, NEW dst \in Rooms, NEW x \in Seq(Cell'), ctx' = ctx, made \subseteq made', NEW call,
           call \in {"seal", "open"}, NEW nonce, NEW aad, NEW in,
           buf' = Store(buf, dst, x), got' = Result(call, "ok", nonce, aad, in, dst, Read(buf, dst), x)
    PROVE  RoomStep
<1> DEFINE pre == Read(buf, dst)
<1>1. got'.call = call /\ got'.res = "ok" /\ got'.dst = dst /\ got'.out = pre \o x
  BY Zenon DEF Result
<1>2. /\ dst.off \in Nat /\ dst.len \in Nat /\ dst.cap \in Nat /\ dst.off + dst.cap <= Len(buf)
      /\ pre \in Seq(Cell) /\ buf \in Seq(Cell) /\ dst.len <= dst.cap
  BY ReadOK, InputAssumption DEF Inv, TypeOK
<1>3. Len(pre) = dst.len
  <2>1. /\ dst.off + dst.len \in Nat /\ dst.off + dst.len <= Len(buf)
        /\ dst.off <= dst.off + dst.len /\ (dst.off + dst.len) - dst.off = dst.len
    BY <1>2
  <2>2. Len(SubSeq(buf, dst.off + 1, dst.off + dst.len)) = (dst.off + dst.len) - dst.off
    BY ZenonT(30), <1>2, <2>1, CutOK
  <2> QED
    BY Zenon, <2>1, <2>2 DEF Read
<1>4. Seq(Cell) \subseteq Seq(Cell')
  BY CellGrow
<1> HIDE DEF pre
<1>5. Joined(Cell', got'.out, pre, x)
  <2>1. pre \in Seq(Cell')
    BY Zenon, <1>2, <1>4
  <2>2. Joined(Cell', pre \o x, pre, x)
    BY Zenon, <2>1, Halves
  <2> QED
    BY Zenon, <1>1, <2>2
<1>6. Len(got'.out) = dst.len + Len(x) /\ Len(x) \in Nat
  BY <1>1, <1>3, <1>5 DEF Joined
<1>7. buf \in Seq(Cell')
  BY <1>2, <1>4
<1>8. \A i \in 1..Len(buf) : buf'[i] # buf[i] =>
         /\ dst.off + dst.len < i /\ i <= dst.off + dst.len + Len(x) /\ i <= dst.off + dst.cap
  BY Zenon, <1>2, <1>7, StoreOK
<1>9. dst.off + Len(got'.out) = dst.off + dst.len + Len(x)
  BY <1>2, <1>6
<1> QED
  BY Zenon, <1>1, <1>8, <1>9 DEF RoomStep

\* Every step stores in the room of dst or not at all.
LEMMA NextRoom == Inv /\ Next => RoomStep
<1> SUFFICES ASSUME Inv, Next PROVE RoomStep
  OBVIOUS
<1>0. CASE buf' = buf
  BY <1>0 DEF RoomStep
<1>1. ASSUME NEW nonce \in Nonces, NEW aad \in Aads, NEW dst \in Rooms, NEW src \in Sources,
             Seal(dst, src, nonce, aad), buf' # buf
      PROVE  RoomStep
  <2> DEFINE pt == Read(buf, src)
             x == SealBytes(pt, nonce, aad)
  <2>1. /\ ctx.hash = "set" /\ Plaintext(src) /\ ctx' = ctx /\ Remember(pt, nonce, aad)
        /\ got' = Result("seal", "ok", nonce, aad, pt, dst, Read(buf, dst), x)
        /\ buf' = Store(buf, dst, x)
    BY <1>1 DEF Seal, Called
  <2>2. nonce \in IVs /\ aad \in Seq(Byte)
    BY Inputs
  <2>3. pt \in Seq(Byte) /\ Pad(pt) \in Buffers
    <3>1. pt \in Seq(Byte) /\ Len(Pad(pt)) <= MaxLen
      BY <2>1, BufferFacts DEF Plaintext
    <3>2. Pad(pt) \in Seq(Byte)
      BY Zenon, <3>1, PadFacts
    <3> QED
      BY <3>1, <3>2, BufferFacts
  <2> HIDE DEF pt
  <2>4. made \subseteq made' /\ x \in Seq(Cell')
    BY Zenon, <2>1, <2>2, <2>3, SealStep
  <2> HIDE DEF x
  <2> QED
    BY <2>1, <2>4, StoreStep
<1>2. ASSUME NEW nonce \in Nonces, NEW aad \in Aads, NEW dst \in Rooms, NEW src \in Sources,
             Open(dst, src, nonce, aad), buf' # buf
      PROVE  RoomStep
  <2> DEFINE x == Read(buf, src)
             u == Opened(nonce, x)
  <2>1. /\ OpenRes(nonce, x, aad) = "ok" /\ ctx' = ctx /\ made' = made
        /\ got' = Result("open", "ok", nonce, aad, x, dst, Read(buf, dst), u)
        /\ buf' = Store(buf, dst, u)
    BY <1>2 DEF Open, Called
  <2>2. nonce \in IVs /\ aad \in Seq(Byte) /\ x \in Seq(Cell)
    BY Inputs, ReadOK DEF Inv
  <2>3. ctx.tag \in Nat /\ ctx.hash \in {"nil", "set"} /\ TagSize /\ MadeOK
    BY Zenon DEF Inv, TypeOK
  <2> HIDE DEF x
  <2>4. u \in Seq(Byte)
    BY <2>1, <2>2, <2>3, OpenOK
  <2> HIDE DEF u
  <2>5. u \in Seq(Cell') /\ made \subseteq made'
    BY <2>1, <2>4, CellGrow
  <2> QED
    BY Zenon, <2>1, <2>5, StoreStep
<1> QED
  BY Zenon, <1>0, <1>1, <1>2 DEF Next, NewCBCHMAC, Encrypt, Foreign, Decrypt, Resplit, Damage, Arrives

\* Seal and Open change the caller's memory only in the room behind dst that
\* their result takes.
THEOREM RoomKept == Spec => OnlyOwnRoom
<1>1. Inv /\ [Next]_vars => [RoomStep]_vars
  BY NextRoom
<1>2. Spec => [][RoomStep]_vars
  BY Invariant, <1>1, PTL DEF Spec
<1> QED
  BY <1>2 DEF OnlyOwnRoom, RoomStep

\* decrypt leaves ciphertext and tag readable as they were.
LEMMA NextParts ==
    Inv /\ Next => (got'.call = "decrypt" /\ calls' # calls =>
        Ciphertext(parts') = Ciphertext(parts) /\ TagOf(parts') = TagOf(parts))
<1> SUFFICES ASSUME Inv, Next, got'.call = "decrypt", calls' # calls
             PROVE  Ciphertext(parts') = Ciphertext(parts) /\ TagOf(parts') = TagOf(parts)
  OBVIOUS
<1>1. Decrypt
  <2>1. ASSUME NEW len, NEW k, NewCBCHMAC(len, k) PROVE FALSE
    BY Zenon, <2>1 DEF NewCBCHMAC
  <2>2. ASSUME NEW dst, NEW src, NEW nonce, NEW aad, Seal(dst, src, nonce, aad) PROVE FALSE
    BY SMTT(20), <2>2 DEF Seal, Result
  <2>3. ASSUME NEW dst, NEW src, NEW nonce, NEW aad, Open(dst, src, nonce, aad) PROVE FALSE
    BY Zenon, <2>3 DEF Open, Result
  <2>4. ASSUME NEW src, NEW nonce, NEW aad, Encrypt(src, nonce, aad) PROVE FALSE
    BY Zenon, <2>4 DEF Encrypt, Result
  <2>5. ASSUME NEW p, Arrives(p) PROVE FALSE
    BY Zenon, <2>5 DEF Arrives, NoCall
  <2>6. ASSUME NEW ct, NEW nonce, NEW aad, Foreign(ct, nonce, aad) PROVE FALSE
    BY <2>5, <2>6 DEF Foreign
  <2>7. ASSUME NEW a, NEW v, NEW c, NEW spare, Resplit(a, v, c, spare) PROVE FALSE
    BY <2>5, <2>7 DEF Resplit
  <2>8. ASSUME NEW i, NEW b, Damage(i, b) PROVE FALSE
    BY Zenon, <2>5, <2>8 DEF Damage
  <2> QED
    BY <2>1, <2>2, <2>3, <2>4, <2>6, <2>7, <2>8 DEF Next
<1>2. PartsOK(parts, Cell)
  BY DEF Inv, TypeOK, PartsOK
<1>3. CASE parts' = parts
  BY <1>3
<1>4. CASE parts' = InArray(parts, Appended(parts))
  <2> DEFINE y == Appended(parts)
             p == parts'
  <2>1. /\ y \in Seq(Cell) /\ Len(y) = Len(parts.arr)
        /\ \A i \in 1..parts.len : y[i] = parts.arr[i]
        /\ parts.layout = "behind" => y = parts.arr
    BY Zenon, <1>2, AppendedOK
  <2>2. /\ p.iv = parts.iv /\ p.aad = parts.aad /\ p.arr = y /\ p.len = parts.len
        /\ p.tag = parts.tag /\ p.layout = parts.layout
    BY <1>4 DEF InArray
  <2> HIDE DEF y
  <2>3. PartsOK(p, Cell)
    BY Zenon, <1>2, <2>1, <2>2 DEF PartsOK
  <2>4. /\ Ciphertext(p) \in Seq(Cell) /\ Len(Ciphertext(p)) = p.len
        /\ \A i \in 1..p.len : Ciphertext(p)[i] = p.arr[i]
    BY ZenonT(30), <2>3, PartsFacts
  <2>5. /\ Ciphertext(parts) \in Seq(Cell) /\ Len(Ciphertext(parts)) = parts.len
        /\ \A i \in 1..parts.len : Ciphertext(parts)[i] = parts.arr[i]
    BY SMTT(20), <1>2, PartsFacts
  <2>6. \A i \in 1..Len(Ciphertext(p)) : Ciphertext(p)[i] = Ciphertext(parts)[i]
    BY Zenon, <2>1, <2>2, <2>4, <2>5
  <2>7. Ciphertext(p) = Ciphertext(parts)
    BY Zenon, <2>2, <2>4, <2>5, <2>6, SeqEqual
  <2>8. TagOf(p) = TagOf(parts)
    BY <2>1, <2>2 DEF TagOf
  <2> QED
    BY ZenonT(30), <2>7, <2>8
<1> QED
  BY <1>1, <1>3, <1>4 DEF Decrypt

\* A second decrypt sees the message that the first one saw.
THEOREM DecryptKeepsParts == Spec => PartsKept
<1> DEFINE A == got'.call = "decrypt" /\ calls' # calls =>
                   Ciphertext(parts') = Ciphertext(parts) /\ TagOf(parts') = TagOf(parts)
<1>1. Inv /\ [Next]_vars => [A]_vars
  BY NextParts
<1>2. Spec => [][A]_vars
  <2> HIDE DEF A
  <2> QED
    BY Invariant, <1>1, PTL DEF Spec
<1> QED
  BY <1>2 DEF PartsKept
=============================================================================
