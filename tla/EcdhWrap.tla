------------------------------ MODULE EcdhWrap ------------------------------
(***************************************************************************)
(* ECDH-ES with key wrapping, encryptKey and decryptKey of asymmetric.go:  *)
(* DeriveECDHES reads a key of KeySize bytes from a new Concat KDF reader, *)
(* and KeyWrap or KeyUnwrap runs with the block cipher of that key.        *)
(*                                                                         *)
(* Enc and Dec of KeyWrap are the cipher of the derived key.  A reader is  *)
(* an io.Reader: before the key is read whole, all splits of its stream    *)
(* into reads are explored.                                                *)
(***************************************************************************)
EXTENDS ConcatKdf, KeyWrap

CONSTANT KeySize  \* ctx.size: the bytes of the wrapping key

ASSUME KeySizeAssumption == KeySize \in 0..MaxTotal

Init == KdfInit /\ WrapInit

\* A read of the stream; no cipher exists yet.
Derive == pc = "idle" /\ KdfNext /\ UNCHANGED wrapVars

\* key := make([]byte, size); reader.Read(key) has returned.
KeyRead == reader = "idle" /\ total = KeySize /\ Len(buf) = KeySize

\* KeyWrap or KeyUnwrap with the key; the reader is not used again.
UseKey == KeyRead /\ WrapNext /\ UNCHANGED kdfVars

Next == Derive \/ UseKey

vars == <<kdfVars, wrapVars>>

Spec == Init /\ [][Next]_vars
=============================================================================
