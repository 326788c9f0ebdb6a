------------------------------- MODULE CbcHmac ------------------------------
(***************************************************************************)
(* AES-CBC with HMAC, cipher/cbc_hmac.go, and the content cipher built on  *)
(* it, symmetric.go: one key, its holders, and a transport that damages    *)
(* messages.                                                               *)
(*                                                                         *)
(* A byte is a 1-tuple.  CBC over the block cipher is a pair of constants; *)
(* the HMAC is ideal: the j-th byte of the tag of x is the pair <<x, j>>,  *)
(* which only a holder of the key makes.  The caller's memory is one       *)
(* array, buf, and a slice of it is its offset, length and capacity.       *)
(***************************************************************************)
EXTENDS Integers, Sequences

CONSTANTS BlockSize,      \* blockCipher.BlockSize()
          MaxByte,        \* the largest byte
          nonceBytes,
          AesKeys,        \* key lengths newBlockCipher takes
          HashKeys,       \* the cases of keySize that have a hash
          KeyLens,        \* len(key) of the calls of NewCBCHMAC
          Nonces, Aads,   \* nonces and associated data of the producers
          Forms,          \* ciphertexts another holder of the key makes
          MaxLen,         \* bound: bytes in a buffer CBC is applied to
          Sources, Rooms, \* slices passed as input, and as dst
          Memory,         \* the caller's memory at the start
          MaxSpare,       \* bound: capacity a parsed ciphertext has to spare
          MaxCalls,       \* bound: steps after NewCBCHMAC
          CBCEncrypt(_, _), CBCDecrypt(_, _)

Byte == {<<n>> : n \in 0..MaxByte}
Buffers == UNION {[1..n -> Byte] : n \in 0..MaxLen}
IVs == [1..nonceBytes -> Byte]

\* 16 <= 255: a count of padding bytes fits in a byte.
ASSUME SizeAssumption ==
    /\ MaxByte \in Nat /\ BlockSize \in 1..MaxByte /\ MaxLen \in Nat /\ nonceBytes \in Nat
    /\ KeyLens \subseteq Nat /\ HashKeys \subseteq Nat \ {0} /\ MaxSpare \in Nat

ASSUME InputAssumption ==
    /\ Nonces \subseteq IVs /\ Aads \subseteq Buffers /\ Forms \subseteq Buffers
    /\ Memory \in Seq(Byte)
    /\ \A s \in Sources \cup Rooms :
         /\ s.off \in Nat /\ s.len \in Nat /\ s.cap \in Nat
         /\ s.len <= s.cap /\ s.off + s.cap <= Len(Memory)

\* Decryption inverts encryption on whole blocks, and both keep the length.
ASSUME CipherAssumption ==
    \A iv \in IVs, b \in Buffers :
        Len(b) % BlockSize = 0 =>
            /\ CBCEncrypt(iv, b) \in Buffers /\ CBCDecrypt(iv, b) \in Buffers
            /\ Len(CBCEncrypt(iv, b)) = Len(b) /\ Len(CBCDecrypt(iv, b)) = Len(b)
            /\ CBCDecrypt(iv, CBCEncrypt(iv, b)) = b
            /\ CBCEncrypt(iv, CBCDecrypt(iv, b)) = b

VARIABLES ctx,     \* the cbcAEAD: state, authtagBytes, whether hash is set
          cipher,  \* authtagBytes of the aeadContentCipher in use
          buf,     \* the caller's memory
          parts,   \* aeadParts with their associated data: see NoParts
          made,    \* history: the nonce, aad, ciphertext of each computed tag
          sealed,  \* history: nonce, aad, plaintext and output of each Seal
          got,     \* the last call of Seal, Open, encrypt or decrypt
          calls

vars == <<ctx, cipher, buf, parts, made, sealed, got, calls>>

NoCtx == [state |-> "none", tag |-> 0, hash |-> "nil"]

\* The ciphertext is the first len cells of arr; its capacity is all of arr.
\* The tag lies right behind it in arr, or in an array of its own.
NoParts == [iv |-> <<>>, aad |-> <<>>, arr |-> <<>>, len |-> 0, tag |-> <<>>, layout |-> "none"]

NoCall == [call |-> "none", res |-> "ok", nonce |-> <<>>, aad |-> <<>>, in |-> <<>>,
           dst |-> [off |-> 0, len |-> 0, cap |-> 0], pre |-> <<>>, out |-> <<>>]

Init ==
    /\ ctx = NoCtx /\ cipher = 0 /\ buf = Memory /\ parts = NoParts
    /\ made = {} /\ sealed = {} /\ got = NoCall /\ calls = 0

(***************************************************************************)
(* Slices.                                                                 *)
(***************************************************************************)
Nil == [off |-> 0, len |-> 0, cap |-> 0]

Read(b, s) == SubSeq(b, s.off + 1, s.off + s.len)

\* resize(dst, len(dst) + len(x)) and copy(out, x): what becomes of dst's array.
Store(b, s, x) ==
    LET at == s.off + s.len
    IN  IF s.cap >= s.len + Len(x)
        THEN [i \in 1..Len(b) |-> IF i \in (at + 1)..(at + Len(x)) THEN x[i - at] ELSE b[i]]
        ELSE b

(***************************************************************************)
(* Padding and the tag.                                                    *)
(***************************************************************************)
Padding(n) == [i \in 1..n |-> <<n % (MaxByte + 1)>>]

Pad_OnlyPartial(b) == IF Len(b) % BlockSize = 0 THEN b ELSE b \o Padding(BlockSize - (Len(b) % BlockSize))
Pad(b) == b \o Padding(BlockSize - (Len(b) % BlockSize))

Count(b) == b[Len(b)][1]

UnpadOK(b) ==
    /\ Len(b) % BlockSize = 0
    /\ Count(b) # 0 /\ Count(b) <= BlockSize /\ Count(b) <= Len(b)
    /\ \A i \in (Len(b) - Count(b) + 1)..Len(b) : b[i] = b[Len(b)]

Unpad(b) == SubSeq(b, 1, Len(b) - Count(b))

MacInput_NoLength(aad, nonce, ct) == aad \o nonce \o ct
MacInput(aad, nonce, ct) == aad \o nonce \o ct \o <<(<<8 * Len(aad), 0, 0>>)>>

AuthTag(aad, nonce, ct) == [j \in 1..ctx.tag |-> <<MacInput(aad, nonce, ct), j>>]

SealBytes(pt, nonce, aad) ==
    LET ct == CBCEncrypt(nonce, Pad(pt)) IN ct \o AuthTag(aad, nonce, ct)

(***************************************************************************)
(* NewCBCHMAC.  The content cipher of key size k expects 2 * k bytes.      *)
(***************************************************************************)
NewCBCHMAC(len, k) ==
    LET keySize == len \div 2
    IN  /\ ctx.state = "none"
        /\ cipher' = k
        /\ ctx' = IF len - keySize \notin AesKeys
                  THEN [state |-> "error", tag |-> 0, hash |-> "nil"]
                  ELSE [state |-> "ready", tag |-> keySize,
                        hash |-> IF keySize \in HashKeys THEN "set" ELSE "nil"]
        /\ UNCHANGED <<buf, parts, made, sealed, got, calls>>

Called == ctx.state = "ready" /\ calls < MaxCalls /\ calls' = calls + 1 /\ UNCHANGED <<ctx, cipher>>

(***************************************************************************)
(* Seal and Open on the caller's memory.                                   *)
(***************************************************************************)
Result(call, res, nonce, aad, in, dst, pre, x) ==
    [call |-> call, res |-> res, nonce |-> nonce, aad |-> aad, in |-> in,
     dst |-> dst, pre |-> pre, out |-> IF res = "ok" THEN pre \o x ELSE <<>>]

Remember(pt, nonce, aad) ==
    LET x == SealBytes(pt, nonce, aad)
    IN  /\ made' = made \cup {[nonce |-> nonce, aad |-> aad, ct |-> CBCEncrypt(nonce, Pad(pt))]}
        /\ sealed' = sealed \cup {[nonce |-> nonce, aad |-> aad, pt |-> pt, bytes |-> x]}

Plaintext(s) == Read(buf, s) \in Buffers /\ Len(Pad(Read(buf, s))) <= MaxLen

\* Seal pads and encrypts in an array of its own, and copies to dst at the end.
Seal_InPlace(dst, src, nonce, aad) ==
    LET pt == Read(buf, src)
        x  == SealBytes(pt, nonce, aad)
        b  == Store(buf, src, Padding(BlockSize - (Len(pt) % BlockSize)))
    IN  /\ Called /\ Plaintext(src) /\ UNCHANGED parts
        /\ ctx.hash = "set"
        /\ Remember(pt, nonce, aad)
        /\ got' = Result("seal", "ok", nonce, aad, pt, dst, Read(buf, dst), x)
        /\ buf' = Store(b, dst, x)
Seal(dst, src, nonce, aad) ==
    LET pt == Read(buf, src)
        x  == SealBytes(pt, nonce, aad)
    IN  /\ Called /\ Plaintext(src) /\ UNCHANGED parts
        /\ \/ /\ ctx.hash = "set"
              /\ Remember(pt, nonce, aad)
              /\ got' = Result("seal", "ok", nonce, aad, pt, dst, Read(buf, dst), x)
              /\ buf' = Store(buf, dst, x)
           \/ /\ ctx.hash = "nil"
              /\ got' = Result("seal", "panic", nonce, aad, pt, dst, Read(buf, dst), x)
              /\ UNCHANGED <<buf, made, sealed>>

Body(x) == SubSeq(x, 1, Len(x) - ctx.tag)

OpenRes(nonce, x, aad) ==
    IF Len(x) < ctx.tag THEN "short"
    ELSE IF ctx.hash = "nil" THEN "panic"           \* hmac.New(nil, ...)
    ELSE IF AuthTag(aad, nonce, Body(x)) # SubSeq(x, Len(x) - ctx.tag + 1, Len(x)) THEN "mismatch"
    ELSE IF Len(Body(x)) % BlockSize > 0 THEN "length"
    ELSE IF Body(x) = <<>> THEN "panic"             \* buffer[len(buffer)-1]
    ELSE IF UnpadOK(CBCDecrypt(nonce, Body(x))) THEN "ok" ELSE "padding"

Opened(nonce, x) == Unpad(CBCDecrypt(nonce, Body(x)))

Open(dst, src, nonce, aad) ==
    LET x   == Read(buf, src)
        res == OpenRes(nonce, x, aad)
    IN  /\ Called /\ UNCHANGED <<parts, made, sealed>>
        /\ got' = Result("open", res, nonce, aad, x, dst, Read(buf, dst), Opened(nonce, x))
        /\ buf' = IF res = "ok" THEN Store(buf, dst, Opened(nonce, x)) ELSE buf

(***************************************************************************)
(* The content cipher.                                                     *)
(***************************************************************************)
Ciphertext(p) == SubSeq(p.arr, 1, p.len)
TagOf(p) == IF p.layout = "behind" THEN SubSeq(p.arr, p.len + 1, Len(p.arr)) ELSE p.tag

\* Only for keys of keyBytes: newEncrypter refuses others, and generates these.
Encrypt(src, nonce, aad) ==
    LET pt == Read(buf, src)
        x  == SealBytes(pt, nonce, aad)
    IN  /\ Called /\ Plaintext(src) /\ ctx.tag = cipher /\ ctx.hash = "set"
        /\ Remember(pt, nonce, aad)
        /\ got' = Result("encrypt", "ok", nonce, aad, pt, Nil, <<>>, x)
        /\ parts' = [iv |-> nonce, aad |-> aad, arr |-> x, len |-> Len(x) - cipher,
                     tag |-> <<>>, layout |-> "behind"]
        /\ UNCHANGED buf

\* append(parts.ciphertext, parts.tag...) writes to the ciphertext's array if
\* the tag fits there; then Open, which decrypts in an array of its own.
InArray(p, a) == [iv |-> p.iv, aad |-> p.aad, arr |-> a, len |-> p.len, tag |-> p.tag, layout |-> p.layout]
Appended(p) == Store(p.arr, [off |-> 0, len |-> p.len, cap |-> Len(p.arr)], TagOf(p))

Decrypt ==
    LET x == Ciphertext(parts) \o TagOf(parts)
    IN  /\ Called /\ parts # NoParts /\ UNCHANGED <<buf, made, sealed>>
        /\ \/ /\ Len(parts.iv) # nonceBytes \/ Len(TagOf(parts)) < cipher
              /\ got' = Result("decrypt", "refused", parts.iv, parts.aad, <<>>, Nil, <<>>, <<>>)
              /\ UNCHANGED parts
           \/ /\ Len(parts.iv) = nonceBytes /\ Len(TagOf(parts)) >= cipher
              /\ parts' = InArray(parts, Appended(parts))
              /\ got' = Result("decrypt", OpenRes(parts.iv, x, parts.aad), parts.iv, parts.aad, x,
                               Nil, <<>>, Opened(parts.iv, x))

(***************************************************************************)
(* The transport: a message is serialised and parsed, whole, split anew at *)
(* other places, or with one byte changed.  Another holder of the key      *)
(* sends what it likes with a tag of its own.                              *)
(***************************************************************************)
Parsed(iv, aad, ct, tag, spare) ==
    [iv |-> iv, aad |-> aad, arr |-> ct \o [i \in 1..spare |-> <<0>>], len |-> Len(ct),
     tag |-> tag, layout |-> "own"]

\* Only what the program did last is told apart from what it did before.
Arrives(p) == Called /\ got' = NoCall /\ parts' = p /\ UNCHANGED <<buf, sealed>>

Line(p) == p.aad \o p.iv \o Ciphertext(p) \o TagOf(p)

Resplit(a, v, c, spare) ==
    LET z == Line(parts)
    IN  /\ parts.layout = "behind" /\ a + v + c <= Len(z)
        /\ SubSeq(z, 1, a + v) \in Seq(Byte)
        /\ Arrives(Parsed(SubSeq(z, a + 1, a + v), SubSeq(z, 1, a), SubSeq(z, a + v + 1, a + v + c),
                          SubSeq(z, a + v + c + 1, Len(z)), spare))
        /\ UNCHANGED made

Damage(i, b) ==
    LET z == [Line(parts) EXCEPT ![i] = b]
        a == Len(parts.aad)
        v == Len(parts.iv)
        c == parts.len
    IN  /\ parts.layout = "behind" /\ i \in 1..Len(Line(parts))
        /\ Arrives(Parsed(SubSeq(z, a + 1, a + v), SubSeq(z, 1, a), SubSeq(z, a + v + 1, a + v + c),
                          SubSeq(z, a + v + c + 1, Len(z)), 0))
        /\ UNCHANGED made

Foreign(ct, nonce, aad) ==
    /\ ctx.hash = "set"
    /\ Arrives(Parsed(nonce, aad, ct, AuthTag(aad, nonce, ct), 0))
    /\ made' = made \cup {[nonce |-> nonce, aad |-> aad, ct |-> ct]}

Next ==
    \/ \E len \in KeyLens, k \in HashKeys : NewCBCHMAC(len, k)
    \/ \E nonce \in Nonces, aad \in Aads :
         \/ \E dst \in Rooms, src \in Sources : Seal(dst, src, nonce, aad)
         \/ \E dst \in Rooms, src \in Sources : Open(dst, src, nonce, aad)
         \/ \E src \in Sources : Encrypt(src, nonce, aad)
         \/ \E ct \in Forms : Foreign(ct, nonce, aad)
    \/ Decrypt
    \/ \E a \in 0..Len(Line(parts)), v \in {nonceBytes, nonceBytes - 1} \ {-1},
          c \in 0..Len(Line(parts)), spare \in 0..MaxSpare : Resplit(a, v, c, spare)
    \/ \E i \in 1..Len(Line(parts)), b \in Byte : Damage(i, b)

Spec == Init /\ [][Next]_vars

(***************************************************************************)
(* Properties.                                                             *)
(***************************************************************************)
TagCells == {<<MacInput(m.aad, m.nonce, m.ct), j>> : m \in made, j \in 1..ctx.tag}
Cell == Byte \cup TagCells

\* Type invariant.  Memory and messages hold bytes and tags that a holder of
\* the key computed.
TypeOK ==
    /\ ctx.state \in {"none", "error", "ready"} /\ ctx.tag \in Nat /\ ctx.hash \in {"nil", "set"}
    /\ cipher \in Nat
    /\ buf \in Seq(Cell) /\ Len(buf) = Len(Memory)
    /\ parts.iv \in Seq(Byte) /\ parts.aad \in Seq(Byte)
    /\ parts.arr \in Seq(Cell) /\ parts.tag \in Seq(Cell) /\ parts.len \in 0..Len(parts.arr)

Opening == got.call \in {"open", "decrypt"}

\* What Seal returned, opened with the same nonce and data, wherever it was
\* stored and however it was split into ciphertext and tag in between, gives
\* back the plaintext behind what dst held.  (Seal, Open, padBuffer, unpadBuffer)
RoundTrip ==
    \A s \in sealed :
        (Opening /\ got.nonce = s.nonce /\ got.aad = s.aad /\ got.in = s.bytes)
            => got.res = "ok" /\ got.out = got.pre \o s.pt

\* A plaintext comes out only for a nonce, data and ciphertext that a holder of
\* the key computed a tag for, all three as they were then, and the ciphertext
\* is the encryption of exactly that plaintext with the padding padBuffer gives
\* it: neither the split of the message nor the padding leaves a choice.
\* (computeAuthTag, unpadBuffer)
OpensOnlyMade ==
    (Opening /\ got.res = "ok") =>
        LET pt == SubSeq(got.out, Len(got.pre) + 1, Len(got.out))
        IN  \E m \in made : /\ m.nonce = got.nonce /\ m.aad = got.aad
                            /\ m.ct = CBCEncrypt(got.nonce, Pad(pt))

\* "must take care not to mangle plaintext input": Seal and Open change the
\* caller's memory only between the end of dst and its capacity, and only as
\* far as what they return reaches.  (resize)
OnlyOwnRoom ==
    [][\A i \in 1..Len(buf) : buf'[i] # buf[i] =>
          /\ got'.call \in {"seal", "open"} /\ got'.res = "ok"
          /\ got'.dst.off + got'.dst.len < i /\ i <= got'.dst.off + Len(got'.out)
          /\ i <= got'.dst.off + got'.dst.cap]_vars

\* "don't want to modify in place": decrypt leaves the ciphertext and the tag
\* as they were, though append may write behind the ciphertext, where the tag
\* lies when encrypt made the parts.  So a second call sees the same message.
\* (aeadContentCipher.decrypt)
PartsKept ==
    [][got'.call = "decrypt" /\ calls' # calls =>
          Ciphertext(parts') = Ciphertext(parts) /\ TagOf(parts') = TagOf(parts)]_vars
=============================================================================
