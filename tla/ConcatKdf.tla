----------------------------- MODULE ConcatKdf ------------------------------
(***************************************************************************)
(* The Concat KDF reader, cipher/concat_kdf.go: Read copies what is left   *)
(* in the cache and then hashes block after block, with a counter of fixed *)
(* width, until the buffer is full.                                        *)
(*                                                                         *)
(* The hash of counter, z and info is the function Hash of the counter.    *)
(***************************************************************************)
EXTENDS Integers, Sequences

CONSTANTS Byte,
          Size,      \* bytes in a hash value
          Hash,      \* counter -> hash value, a sequence of Size bytes
          Modulus,   \* the counter is computed modulo this; 2^32 in the code
          MaxTotal   \* bound: bytes read in all

ASSUME HashAssumption ==
    /\ Size \in Nat \ {0} /\ Modulus \in Nat \ {0, 1} /\ MaxTotal \in Nat
    /\ Hash \in [0..(Modulus - 1) -> [1..Size -> Byte]]

VARIABLES reader,  \* "idle" between calls, "fill" in the loop of Read
          counter, \* ctx.i
          cache,  \* ctx.cache
          want,   \* len(out)
          filled, \* out[:copied]
          buf,    \* the buffer the last call returned
          total   \* history: bytes returned so far

kdfVars == <<reader, counter, cache, want, filled, buf, total>>

\* NewConcatKDF.
KdfInit ==
    /\ reader = "idle" /\ counter = 1 /\ cache = <<>>
    /\ want = 0 /\ filled = <<>> /\ buf = <<>> /\ total = 0

Least(x, y) == IF x < y THEN x ELSE y

ReadCache_Kept(n) ==
    /\ reader = "idle" /\ total + n <= MaxTotal
    /\ want' = n
    /\ filled' = SubSeq(cache, 1, Least(n, Len(cache)))
    /\ reader' = "fill"
    /\ UNCHANGED <<counter, cache, buf, total>>
\* Read is called: copied := copy(out, ctx.cache); ctx.cache = ctx.cache[copied:]
ReadCache(n) ==
    LET copied == Least(n, Len(cache))
    IN  /\ reader = "idle" /\ total + n <= MaxTotal
        /\ want' = n
        /\ filled' = SubSeq(cache, 1, copied)
        /\ cache' = SubSeq(cache, copied + 1, Len(cache))
        /\ reader' = "fill"
        /\ UNCHANGED <<counter, buf, total>>

\* One turn of the loop: a hash block goes to out, its rest to the cache.
Fill ==
    LET chunk == Least(want - Len(filled), Size)
    IN  /\ reader = "fill" /\ Len(filled) < want
        /\ filled' = filled \o SubSeq(Hash[counter], 1, chunk)
        /\ cache' = SubSeq(Hash[counter], chunk + 1, Size)
        /\ counter' = (counter + 1) % Modulus
        /\ UNCHANGED <<reader, want, buf, total>>

ReadDone ==
    /\ reader = "fill" /\ Len(filled) = want
    /\ reader' = "idle" /\ buf' = filled /\ total' = total + want
    /\ UNCHANGED <<counter, cache, want, filled>>

KdfNext == Fill \/ ReadDone \/ \E n \in 0..MaxTotal : ReadCache(n)

(***************************************************************************)
(* Properties.                                                             *)
(***************************************************************************)
\* Types; the cache never holds a whole block, and what is copied fits.
KdfTypeOK ==
    /\ reader \in {"idle", "fill"}
    /\ counter \in 0..(Modulus - 1)
    /\ cache \in Seq(Byte) /\ Len(cache) < Size
    /\ want \in Nat /\ filled \in Seq(Byte) /\ Len(filled) <= want
    /\ buf \in Seq(Byte) /\ total \in 0..MaxTotal

\* The bytes of the derived key material: block 1, block 2, and so on.
Stream(p) == Hash[((p \div Size) + 1) % Modulus][(p % Size) + 1]

Abstract == INSTANCE ByteStream WITH pos <- total

\* However a caller splits its reads, Read delivers the stream of hash blocks
\* byte by byte: nothing is skipped at the end of a call, nothing comes twice.
DeliversStream == Abstract!Spec
=============================================================================
