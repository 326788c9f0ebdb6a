# A TLA+ model of go-jose

This directory models go-jose, a Go implementation of JOSE (JWS, JWE, JWK and
JWT), in TLA+. The modules are translated from the Go code under `src/`. TLC
checks them on small instances; TLAPS proves the main properties for every
value of the constants. `PROJECT.json` maps each definition to its source lines
and lists the runs, the mutants, the theorems and the hazards of the code.

1. [The system](#1-the-system)
2. [Modules](#2-modules)
3. [Runs](#3-runs)
4. [Where the properties stop](#4-where-the-properties-stop)
5. [Proofs](#5-proofs)
6. [Not modelled](#6-not-modelled)

## 1. The system

| Part | State | Operations that change it | Works with |
|---|---|---|---|
| JOSE headers (`shared.go`) | `rawHeader`, a map of raw JSON values | getters, `merge`, `sanitized`, crit checks | JWS, JWE |
| JWS (`signing.go`, `jws.go`) | `genericSigner`, `JSONWebSignature`, message text | `NewMultiSigner`, `Sign`, `Verify...`, serializers, parsers | headers, keys, opaque signers |
| Opaque keys (`opaque.go`) | the key store's current key | `Public`, `Algs`, `SignPayload`, `encryptKey`, `decryptKey` | `Sign`, JWE |
| JWE (`crypter.go`, `jwe.go`) | `genericEncrypter`, `JSONWebEncryption`, message text | `NewEncrypter`, `EncryptWithAuthData`, `Decrypt`, `DecryptMulti`, serializers, parsers | headers, key algorithms, ciphers |
| Key algorithms (`symmetric.go`, `asymmetric.go`) | `symmetricKeyCipher.p2s`, `p2c` | `encryptKey`, `decryptKey`, `genKey` | JWE, `cipher/` |
| AES key wrap (`cipher/key_wrap.go`) | buffer, blocks, round counter | `KeyWrap`, `KeyUnwrap` | key algorithms |
| Concat KDF, ECDH-ES (`cipher/concat_kdf.go`, `ecdh_es.go`) | counter, cache | `Read`, `DeriveECDHES` | key algorithms |
| AES-CBC with HMAC (`cipher/cbc_hmac.go`) | the caller's buffers | `Seal`, `Open`, padding | content encryption |
| Keys (`jwk.go`) | `JSONWebKey`, `JSONWebKeySet` | `MarshalJSON`, `UnmarshalJSON`, `Public`, `Valid`, `Thumbprint` | all of the above |
| Buffers, compression (`encoding.go`) | `byteBuffer` | base64 forms, deflate, inflate with a limit | JWE, JWS |
| JSON (`json/`) | scanner stack, decoder buffer, token state, cache of encoders | scanner steps, `Decode`, `Token`, `More`, `Unmarshal`, `Marshal`, `Indent`, `Compact` | every parser |
| JWT (`jwt/`) | builders and their claims, tokens, clocks | `Claims`, `Serialize`, `Token`, `Parse...`, `Validate` | JWS, JWE |
| jose-util | key files | `generate-key` | library |

What is hard to get right in this code:

- A header value can come from a protected or an unprotected header. The parser
  and the verifier each merge them, at different times.
- The authenticated bytes are those that came in, not a new serialization of them.
- Signers, encrypters and the cache of encoders are shared by goroutines, and
  some of their fields are filled in by the first call.
- `Sign` calls foreign code three times per recipient, so keys can rotate and
  errors can happen between two steps of one call.
- The JSON decoder runs the scanner twice, and the second run has to stay in step
  with a recursion that skips values and hands whole ones to `Unmarshaler`s.
- Loops over blocks and buffers have off-by-one cases at empty, exact and
  partial blocks, and slices share arrays.

`PROJECT.json` lists each such place under "hazards", with the properties that
would catch it going wrong.

## 2. Modules

| Module | Models | State and actions |
|---|---|---|
| `JoseHeader` | `shared.go`, `JSONWebKeySet.Key`, `tryJWKS` | No state. A header is a function from parameters to tagged JSON values; `null` members and members of the wrong type are values of their own. |
| `JwsObject` | `signing.go`, `jws.go` and the signers of `asymmetric.go` and `symmetric.go` | No state. One operator for each function: `SignObject`, `CompactSerialize`, `FullSerialize`, `Parse`, `AuthData`, `DetachedVerify`, `DetachedVerifyMulti`. |
| `Jws` | the life of a JWS | `Sign`, `ForeignSign`, the three `Send...`, `AddHeader`, `DamagePayload`, `DamageProtected`, `ParseSigned`, `ParseDetachedMsg`, `Verify`, `VerifyMulti` on `obj` and `msg`. `made` and `origin` are history. |
| `JweObject` | `crypter.go`, `jwe.go`, the key algorithms, `inflate` | No state. One operator for each function, over symbolic cryptography, with panics as an outcome. |
| `Jwe` | the life of a JWE | `New`, `NewMulti` (also when they return an error with an encrypter), `Encrypt`, `ForeignEncrypt`, `SendFull`, `SendCompact`, `AddHeader`, `DamageProtected`, `DamageBody`, `ParseEncrypted`, `DecryptOne`, `DecryptMany`. |
| `OpaqueSigning` | `genericSigner.Sign` in several goroutines | `GetPublicKey`, `Nonce`, `SignPayload` are the three calls `Sign` makes for a recipient; `Rotate` is the key store (external). |
| `Pbes2` | the PBES2 cases of `encryptKey` and `decryptKey` | `CheckSalt`, `StoreSalt`, `SetCount`, `DeriveKey`, `SetHeader`: each access to the shared `ctx.p2s` and `ctx.p2c` is a step. |
| `ByteStream` | the promise of a reader over a fixed stream | `Read(n)` returns the next n bytes. |
| `ConcatKdf` | `concatKDF` | `ReadCache` (start of `Read`), `Fill` (one turn of its loop), `ReadDone`. Implements `ByteStream`. |
| `KeyWrap` | `KeyWrap`, `KeyUnwrap` | One step per loop round; then the opposite call on the output. |
| `EcdhWrap` | `encryptKey` and `decryptKey` for ECDH-ES with key wrapping | `Derive`: reads of `ConcatKdf`; `UseKey`: `KeyWrap` with the key that was read. |
| `CbcHmac` | `cipher/cbc_hmac.go` and `aeadContentCipher` | `NewCBCHMAC`, `Seal` and `Open` on slices of one array, `Encrypt` and `Decrypt`, and a transport that splits messages anew or damages them. |
| `Jwk` | `jwk.go` | `Marshal`, `Unmarshal`, `TakePublic`, and keys and JSON from elsewhere. |
| `JsonScanner` | `json/scanner.go` | No state. `Step`, `Eof`, `Undo` on a scanner record. |
| `JsonGrammar` | nothing: the grammar of RFC 8259, the reference for the scanner | |
| `JsonFunctions` | `checkValid`, `nextValue`, `compact`, `Indent`, `isValidNumber`, `unquoteBytes` | No state. |
| `JsonDocument` | what a `Decoder` promises, on a text that is all at hand | `Decode`, `Token`, `More`. |
| `JsonStream` | `json/stream.go` over an `io.Reader` | The steps of `Decode`, `Token` and `More` up to the next `Read`. Implements `JsonDocument`. |
| `JsonDecode` | `decodeState` of `json/decode.go` | One action per function of the recursion (`Value`, `Element`, `Member`, ...); the call stack is `frames`. |
| `JsonEncode` | the encoders of `json/encode.go` | No state. `Marshal` of a value is its text. |
| `TypeFields` | `typeFields`, `dominantField` | `NextLevel`, `Visit`, `EndLevel`, `FieldsOut`: the breadth-first search. |
| `JsonCodec` | `Marshal` and `Unmarshal` together | Composes the four modules before it: texts typed byte by byte or taken from a list, or written by `MarshalStep` for a value or for a struct whose fields `TypeFields` found, are decoded by `JsonDecode`. |
| `EncoderCache` | `typeEncoder` and the encoders that call each other | A goroutine is its call stack; `Lookup`, `Install`, `Assign`, `Done`, `Publish` are the sections of `typeEncoder`. A build has the variables `f` ("nil" until it is assigned) and `wg` (the counter of the `WaitGroup`). |
| `Jwt` | `jwt/builder.go`, `jwt/jwt.go` | Builders with payload maps on a heap, the caller's own maps, messages, tokens and destinations of claims. |
| `JwtValidation` | `jwt/claims.go`, `jwt/validation.go` | `Receive`, `Tick`, `Check` with a client and a server clock. |
| `JwtLife` | the life of a token | Composes the two: `BuildStep`, `HandOver`, `ReadStep`, `ClaimsRead`, `CheckStep`. |
| `KeyFiles` | `generate-key` of jose-util | `Generate`, `OpenPub`, `WritePub`, `OpenPriv`, `WritePriv` per process, `Crash` and `CleanUp`. |
| `MC...` | TLC instances | constants only |
| `...Proofs` | TLAPS proofs about the module they are named after; `JweSealingProofs` and `JweRoundTripProofs` continue `JweProofs`; `JwtProofs` is about `JwtLife` with its two parts, `OpaqueSigning` and `Jwk`, `KeysProofs` about `KeyWrap` and `ConcatKdf` (composed in `EcdhWrap`), `Pbes2` and `KeyFiles` | lemmas and theorems only |

Definitions whose name ends in a word after an underscore, and definitions that
stand before an action with a name derived from it (`WritePubUnchecked` before
`WritePub`), are the mutants of `PROJECT.json`.

Abstractions:

- A signature is the tuple of key, algorithm and exact signed input. A sealed
  content is the tuple of cipher family, key, authenticated data and plaintext: as in
  the code, the length of the key and not the name of the cipher selects the rest. The
  cryptography of the Go standard library is assumed. The HMAC of `CbcHmac` is
  ideal; CBC is any pair of inverse functions.
- The bytes of a protected header are absent, empty, not JSON, or a serialization
  of a header that is or is not the one this library would write. This keeps apart
  "the bytes that came in" and "the header serialized again".
- A payload `p` has two texts, `B64[p]` and `Raw[p]`. The nil and the empty slice
  are different payloads.
- The store of a slice header (`ctx.p2s = salt`) is a data race in the Go code. It
  is two word-sized stores in either order, and other goroutines can read in
  between.
- A block cipher is any permutation of pairs of 8-byte halves; xor with a counter
  is any family of self-inverse functions. A hash of counter, z and info is any
  function of the counter, which wraps at a `Modulus` (2^32 in the code).
- A JSON text is a sequence of bytes, one for each class of bytes that the code
  tells apart. A destination of `Unmarshal` and a value of `Marshal` are what
  reflection finds: a kind and its parts.
- Numbers of keys have leading zeros and a width, scaled down to two bytes.
- A time is a number of ticks, with several to the second, so that the cutting of
  fractions shows.

Sequential compositions (`EcdhWrap`, `JwtLife`, `JsonCodec`) hand over at a point
where the code does. Variables that the program no longer has then are reset, so
that the state spaces add up instead of multiplying.

## 3. Runs

| Run | Checks | Instance and why it is enough |
|---|---|---|
| `jws` | `VerifiedWasSigned`, `AlgPinned`, `RoundTrip`, `ForeignVerifies`, `VerifyAgreesWithMulti` | Three keys (two of one type, so that they can be confused), messages with 0 to 3 signatures, 16 signer configurations, 8 foreign messages with headers this library never writes, 4 added headers, 3 allow-lists, a key set with a repeated kid. Serializing and parsing again is unbounded. |
| `jwe` | `DecryptedWasEncrypted`, `AlgEncPinned`, `NoMessageAfterError`, `RoundTrip`, `ForeignDecrypts`, `DecryptAgreesWithMulti` | A key of every type, every family of key algorithms for one recipient, mixed pairs for two, extra headers that name another cipher than the one used, the error cases of the constructors, plaintexts on both sides of the inflate limit, and foreign messages with headers in places this library never uses, one of them compressed, with a recipient whose header the decrypters cannot return before one with the same key. |
| `opaque` | `AllOrNothing`, `NamedThenSigned`, `NonceOnce` | Two goroutines, two opaque signers (one in a JSONWebKey), two rotations each, a nonce source, and calls that fail at any step: every step of one call can be overtaken by a rotation and by each step of the other call, and a call follows one that failed. |
| `pbes2` | `EnvelopeOpens`, `SaltSticks` | Three goroutines in the cold start, three salts: one stores, one has derived, one writes its header. |
| `ecdh_wrap` | `UnwrapInvertsWrap`, `AcceptsOnlyWrapped`, `DeliversStream` | Hash blocks of 3 bytes, counter modulo 4, 14 bytes in all: reads end inside, at the end of and several blocks further than a cache, and the counter wraps. All key-wrap inputs of 0 to 3 halves over four values, with and without extra bytes: every slot is used in every round. |
| `cbc` | `RoundTrip`, `OpensOnlyMade`, `OnlyOwnRoom` | Blocks of 2 bytes, plaintexts from empty to two blocks, key lengths even and odd, input and `dst` that overlap, touch and lie apart with and without room, three calls: encrypt, damage or split anew, decrypt twice. |
| `json_codec` | `FunctionsFaithful`, `DecodesMeaning`, `RoundTrip`, `RulesFollowed` | Every text of up to 5 to 9 bytes of five alphabets (nesting, numbers, words, escapes with surrogate pairs, other string contents), some 600 longer texts with 28 targets, values of up to three levels, and five struct types that embed each other, or types that are no structs, in diamonds and cycles. |
| `json_stream` | `AnswersAsDocument`, `CallReturns` | Every stream of up to three bytes of arrays and numbers and twenty longer ones, reads of 0 to 2 bytes, one failing read, and calls without a bound. |
| `jwk` | `RoundTrip`, `PublicOfValid`, `CertOfKey` | Keys of every kind, with leading zeros, numbers one byte too long, missing members, certificates of other keys and one whose key `x509` does not know; JSON of other producers; calls without a bound. |
| `jwt` | `OwnClaims`, `VerifiedAsBuilt`, `ServerAcceptsWhatClientAccepts`, `ExpiredForGood` | Three builders, two writes of the caller, signed, encrypted and nested tokens, a symmetric and an asymmetric key algorithm, right and wrong keys, one or two destinations that take all or some of the claims; half seconds, dates from just before the epoch on, leeways of either sign, skewed clocks. |
| `encoder_cache` | `CallsBuilt`, `QuietCacheIsReal`, `MarshalReturns` | Two goroutines, one call each, a struct with a pointer to itself and an interface that may hold any of the types or a channel. Each can be overtaken in every section; errors leave the encoders at every depth. |
| `key_files` | `PairMatches`, `NeverOverwritten` | Three processes, three keys, one shared key id and generated ones: one process has crashed, one is between its files, one starts. |

What the properties say:

- JWS. `VerifiedWasSigned`: a successful verification means that this key signed
  this payload under this protected header with this algorithm. `AlgPinned`: the
  algorithm the verifier will use is one the parser's caller allowed, although the
  two merge the headers at different times. `RoundTrip`: what `Sign` made still
  verifies after any serializations and parses, with the key or through a key set.
  `ForeignVerifies`: a header in another form verifies from the bytes that came in.
  `VerifyAgreesWithMulti`: the two verifiers agree.
- JWE. `DecryptedWasEncrypted`, `AlgEncPinned`, `RoundTrip`, `ForeignDecrypts`,
  `DecryptAgreesWithMulti` are their counterparts; `RoundTrip` also says that the
  header `DecryptMulti` returns is that of the recipient it opened.
  `NoMessageAfterError`: no message comes out of an encrypter or a key derivation
  that failed.
- Concurrency. `AllOrNothing`, `NamedThenSigned`: what `Sign`
  returns under rotation, failure and concurrency. `NonceOnce`: no two signatures of
  all the objects that `Sign` returned have the same nonce, also after calls that
  failed half-way. `EnvelopeOpens`: a recipient made by a call during which nobody
  stored a salt opens with the password, exactly when the count is one that
  `decryptKey` takes. `SaltSticks`: after the cold start the salt never changes. `CallsBuilt`:
  no encoder is called before it is assigned, and each is called for its own type.
  `QuietCacheIsReal`: when no call is under way, no indirect function is left
  in the cache. `MarshalReturns`: every call returns.
- Ciphers. `UnwrapInvertsWrap`, `AcceptsOnlyWrapped`: the two loops of key wrap are
  inverse to each other, in both directions. `DeliversStream`: the KDF reader
  refines `ByteStream`. CBC with HMAC: `RoundTrip`: what was sealed opens to its
  plaintext; `OpensOnlyMade`: only a nonce, data and ciphertext that a key holder put
  together opens, however a message is split anew; `OnlyOwnRoom`: `Seal` and `Open`
  write behind `dst` only.
- JSON. `FunctionsFaithful`: `nextValue`, `compact`, `Indent` and `isValidNumber`
  agree with the grammar, and lose nothing but space. `DecodesMeaning`: the target
  holds what the text means, with mismatches noted and skipped and repeated members
  refused. The meaning is defined by the grammar and the kinds of targets alone; it has
  its own characters, numbers and literals and uses none of the decoder's functions but
  the following of pointers. It departs from the comment on `Unmarshal` where section 4
  says so. `RoundTrip`: what `Marshal` wrote, `Unmarshal` reads back, and a part
  without a JSON form fails the whole call. `RulesFollowed`: the fields are those the
  comment on `Marshal` selects. `AnswersAsDocument`: a `Decoder` that gets its stream
  in pieces answers like `JsonDocument`, which has all of it. `CallReturns`: each of
  its calls returns.
- Keys and tokens. `CertOfKey`: `UnmarshalJSON` never leaves a key next to the
  certificate of another public key, also when it fails late. `RoundTrip`: a sound key comes
  back from JSON as it was. `PublicOfValid`: the public key of a valid key is valid,
  has its thumbprint and no secret member. `OwnClaims`: a builder's
  claims are those of its own chain. `VerifiedAsBuilt`: what `Claims`
  writes into its destinations is what the token's builder was told, in a chain without
  an error, read with the right keys and with algorithms the parser was given; after a
  failure the destinations before it are complete and those after it untouched. `ServerAcceptsWhatClientAccepts`: a client with less
  leeway, by the difference of the clocks, never accepts what the server refuses.
  `ExpiredForGood`: a token seen as expired stays so for no more leeway.
- Files. `PairMatches`: the two files of a pair belong to one key after any crashes
  and races. `NeverOverwritten`: no step replaces a private key.

Deadlock is checked in `jwk`, `json_stream`, `jwt` and `pbes2`. In the other runs
the system may stop: a refused message is the end of its life, a text is decoded
once, and calls, keys and rotations are bounded (`MaxCalls`, `MaxKeys`,
`MaxRotation`, `MaxTotal`).

Fairness. `JsonStream` has weak fairness on the work of a call and on `Read`: a goroutine runs on, and a `Read`
returns sooner or later. `FairSpec` of `EncoderCache` has it on each goroutine's steps; a wait on a
`WaitGroup` is a step that is enabled once the builder is done. No fairness is put
on starting a call or on the user.

## 4. Where the properties stop

Some conditions in the properties and some gaps in the instances are limits of the
code itself: places where it does not do what a comment, a document or a test says.
They came up as counterexamples to properties without these conditions. The runs
check the properties with the conditions.

| Code | What it does | What is written |
|---|---|---|
| `jws.go:362` | With a `signatures` array, `Signature.Header` lacks the unprotected values, which are set after the merge. | `jws.go:57`: contains both protected and unprotected values |
| `signing.go:330` | A rotation between `Public()` and `SignPayload()` leaves a header that names a key which did not sign. | `opaque.go:21`: rotation is transparent to the user |
| `signing.go:306` | An extra header `nonce` replaces the nonce of the source, in every signature. `OpaqueSigning` has a signer without one. | `signing.go:31`: a source of random nonces to go into JWS objects |
| `symmetric.go:435` | A PBES2 count above 1000000 is taken by `NewEncrypter` and `Encrypt`, and what they made never opens (`EnvelopeOpens`, and the condition `Fits` of `RoundTrip`). | `crypter_test.go:712`: too high a count is rejected |
| `symmetric.go:52` | The default PBES2 count is 600000. | `crypter.go:119`: 100000 |
| `jwe.go:351` | `CompactSerialize` drops the additional data; the message no longer decrypts. | `doc_test.go:196`: only JSON serialization can represent it |
| `encoding.go:163` | An empty, non-nil aad comes back as nil and the message no longer decrypts; an empty payload is lost by parse and `FullSerialize`; an empty `oct` key is lost by two round trips. | `crypter_test.go:127`, `jwk_test.go:915` |
| `encoding.go:109` | `DecryptMulti` allows ten times the compressed size. | `crypter.go:522`: three times |
| `jwe.go:239` | The alg or enc of a recipient header that another header shadows is not checked. It is not used either (`AlgEncPinned`). | `jwe.go:133`: each alg or enc header |
| `crypter.go:200` | An ECDH-ES key off its curve is accepted by `NewEncrypter`, and the first `Encrypt` panics. | `cipher/ecdh_es.go:28`: callers must ensure that keys are valid |
| `asymmetric.go:231` | RSA1_5 with a modulus that is not a whole number of bytes encrypts, but does not decrypt. | `asymmetric.go:233`: the payload size always matches |
| `cipher/cbc_hmac.go:47` | A key of odd length gives an AEAD without a hash, which panics when it opens a message. `Jwe` has no such key (`EvenKeyAssumption`). | `cipher/cbc_hmac_test.go:265`: invalid keys are refused |
| `cipher/cbc_hmac.go:183` | An empty ciphertext with a right tag panics. | `cipher/cbc_hmac_test.go:47`: must fail |
| `json/encode.go:336` | Another goroutine may get the indirect function of a type that is not recursive. | `json/encode.go:328`: only used for recursive types |
| `json/encode.go:541` | A `Number` with the string option is written without quotes, and `Unmarshal` refuses it. | `json/encode.go:85`: stored inside a JSON string |
| `json/encode.go:1028` | An embedded field of an unexported type that is no struct becomes a member, and `Unmarshal` panics on setting it. `RulesFollowed` has it as a member; `RoundTrip` leaves such types out. | `json/encode.go:57`: each exported field |
| `json/encode.go:1087` | Of two fields reached through a struct that is embedded twice, at least two levels up, one is selected. | `json/encode.go:113`: all are ignored |
| `json/decode.go:356` | An array among the elements that a fixed array has no room for stays open in the scanner: `errPhase`. | `json/decode.go:270`: should not happen |
| `json/decode.go:795` | `null` for a `TextUnmarshaler` is noted as an error (`DecodesMeaning` demands it so). | `json/decode.go:76`: has no effect and produces no error |
| `json/decode.go:902` | A number for a target that holds no numbers ends the decoding. | `json/decode.go:72`: skips that field |
| `json/decode.go:398` | An array or object for a field with the string option ends the decoding with an error of `reflect`. | `json/decode.go:390`: returns `unquotedValue{}` |
| `json/decode.go:828` | With the string option only the first byte of `true`, `false` and `null` is looked at. | `json/encode.go:85`: stored as JSON |
| `jwk.go:158` | `MarshalJSON` does not compare the key with the certificate. | `jwk.go:156`: no inconsistent JWK |
| `jwk.go:275` | The key is not compared with a certificate whose public key `x509` does not know. `CertOfKey` and the condition of `RoundTrip` allow it. | `jwk.go:197`: we need to check that the leaf public key matches |
| `jwk.go:396` | `Thumbprint` of a parsed RSA key with exponent zero panics. | `jwk.go:409`: computes the thumbprint |
| `jwt/claims.go:72` | The fraction of a date is cut. | `jwt/claims.go:40`: rounded to the nearest second |
| `jwt/builder.go:151` | A map inside of the claims is read when the token is made. | `jwt/builder.go:32`: `Claims` encodes |
| `jwt/builder.go:96` | The content type of the encrypter is checked when a nested builder is made, and its options may change before the token is. | `jwt/builder.go:94` |

## 5. Proofs

| Theorem | Module | Argument |
|---|---|---|
| `AlgPinnedAlways`, `NonceProtectedAlways` | `JwsProofs` | `ParsedInv`: each signature of a parsed object passed `ParseSigOK`. The alg the parser checked was not "", so it is set, and `Merge` never replaces a set value (`MergeKeepsSet`, `ProtectedStringWins`). |
| `TypeCorrect` | `JwsProofs` | `Shape`: objects and messages have sequences of complete signatures. |
| `VerifiedWasSignedAlways` | `JwsProofs` | `AuthInv`: each signature value on the wire or in an object was made by a key holder for a recorded intent, and `original` and `protected` of an object agree. A damaged message keeps its signatures, so nothing new is ever signed. |
| `VerifiersAgreeAlways` | `JwsProofs` | From `Shape`: the loop of `DetachedVerifyMulti` over one signature makes the checks of `DetachedVerify`. |
| `ForeignVerifiesAlways` | `JwsProofs` | `ForeignInv`: until somebody touches it, a foreign message on the wire, and the object parsed from it, has signature for signature the headers, bytes and values its producer gave it. |
| `RoundTripAlways` | `JwsProofs` | `SignInv`: `SignerInv` and `CarriedInv` say what each signature of an object or message of `Sign` still holds of its recipient, `PayloadInv` and `BareInv` what is left of the payload in each form, and `RefusedInv` why a parser may have refused it. |
| `AlgEncPinnedAlways` | `JweProofs` | `CheckedInv`: a parsed object passed the checks of its parser, with the lists in `allow`. `StringSurvives`: the alg the parser found in the merged headers is the one the decrypters find. |
| `NoMessageAfterErrorAlways` | `JweProofs` | `ErrorInv`: an encrypter that came with an error has no recipients, so that `Encrypt` makes nothing; a key derivation whose error `encryptKey` drops ends in a panic, not in a message. |
| `DecryptersAgreeAlways` | `JweProofs` | `Shape`, and that for one recipient the search of `DecryptMulti` is the single attempt of `Decrypt` (`OneRecipientAgrees`). |
| `DecryptedWasEncryptedAlways` | `JweProofs` | `SealInv`: the content of an object or message (`Holds`) was sealed under a recorded header, aad and key, each recipient's encrypted key is for the key of the record, and the bytes that will be authenticated are those of the header that will be read (`Consistent`). `OpensOnlySealed`: of all the ways through `decryptKey`, only the one with the right key yields the key of the content. |
| `RoundTripAlways` | `JweRoundTripProofs` | `LifeInv`: until it is damaged, a message of `Encrypt` carries the protected header, the sealed parts and each recipient's encrypted key as its encrypter made them, next to headers that only hold names somebody added (`CarriedInv`); its aad is still there unless the compact form or the parser lost it (`AadInv`); a parser refused it only for its algorithms (`RefusedInv`). `JweSealingProofs` shows for each key algorithm that what carries these headers opens: the headers `encryptKey` writes are the ones `decryptKey` reads. |
| `ForeignDecryptsAlways` | `JweRoundTripProofs` | The other half of `LifeInv`: a foreign message nobody touched is on the wire as it was made, or is what the parser made of it (`UntouchedInv`). `ConveyedOpens`: `decryptKey` gets the content key out of what the RFC has a producer send, for each key algorithm. `ForeignOpenedIsMine`: no recipient opens for a key that is not its own, so that the search of `DecryptMulti` ends with the right one. |
| `AllOrNothingAlways`, `NamedThenSignedAlways` | `JwtProofs` | `KeyInv`: in every call under way there is one signature per recipient done so far, and the key numbers it holds are ordered and not above the current one. |
| `EnvelopeOpensAlways`, `SaltSticksAlways` | `KeysProofs` | `SaltInv`: while no store has touched a call, its derived key is made of the fields the header will be made of. |
| `UnwrapInvertsWrapAlways`, `AcceptsOnlyWrappedAlways`, `WrapTypes` | `KeysProofs` | `WrapInv`: the second call goes through the states of the first one (`path`) in the opposite order, since one round of each loop undoes one of the other (`RoundsInvert`). |
| `DeliversStreamAlways` | `KeysProofs` | `KdfInv`: with b blocks hashed, the counter is b + 1 to its width, and the position in the stream plus the length of the cache is `Size * b`. A refinement of `ByteStream` by step simulation. |
| `SealedOpens`, `OnlyMadeOpens` | `CbcHmacProofs` | `Inv`: every tag in the hands of anybody was made for a recorded input (`MadeOK`), and what `Seal` returned is such an input (`SealedOK`). Padding is undone by unpadding and the input of the tag determines its parts (`UnpadPad`, `PadUnpad`, `MacInputInjective`). |
| `RoomKept`, `DecryptKeepsParts` | `CbcHmacProofs` | From the same invariant: what `Store` writes lies within the capacity behind `dst`, and `append` copies unless there is room. |
| `EncoderCallsBuilt`, `QuietEncoderCache`, `WaitersWaitOnBuilders` | `EncoderCacheProofs` | `IInv`: the encoders in the cache, in the builds and on the stacks are for the type at hand; an indirect function is in the cache only while a goroutine builds its type (`IndirectPending`); who has not called `wg.Done` is still building (`Unreleased`); and a stack that encodes builds nothing (`Stacked`). |
| `ClientAndServer`, `InTime`, `StaysExpired` | `JwtProofs` | `Inv`: each result was computed at its recorded time, and the claims at hand are the dates of the token, cut. |
| `OwnClaimsAlways` | `JwtProofs` | `BuildersInv`: the payload map of each builder is one of the heap and holds what its chain said (`BuilderOK`), a builder without a map has said nothing, and one with a sticky error has noted a failure. Steps only add maps to the heap, so the maps that builders share stay as they are. |
| `VerifiedAsBuiltAlways` | `JwtProofs` | `ReadInv`, on top of `BuildersInv`: until it is damaged, a message holds what its builder said, in a chain without a failure (`AsBuilt`); the algorithms of a parsed token are allowed ones, and a nested one was decrypted with the right key (`TokOK`). `Claims` writes only if the message is whole. |
| `NonceOnceAlways` | `JwtProofs` | `NonceInv`: the nonces of the returned objects, of the signatures each call has made so far and the one it has just fetched are all different, and below the next one the source gives out. |
| `KeyPairsMatch`, `KeyFilesKept` | `KeysProofs` | `FilesInv`: no two processes have the same key, and who is past the creation of the public file owns the name (`Staged`). |
| `KeyRoundTripAlways`, `PublicOfValidAlways`, `CertOfKeyAlways` | `JwtProofs` | `JwkInv`: the key at hand is one that Go can hold (`IsJwk`), and the JSON at hand, if it was marshalled here, is `RawOf` of its key. Parsing preserves `IsJwk` (`UnmarshalTyped`) because it strips leading zeros and cuts to sizes; padding a number and stripping it are inverse (`EcBack`, `RsaBack`, `OkpBack`, `OctBack`). |

The theorems about key wrap, the KDF and JWT are about the composed
specifications `EcdhWrap` and `JwtLife`: every step of these is a step or a stutter
of the part (`WrapSteps`, `ReaderSteps`, `CheckSteps`).

Hardly any invariant of the runs is inductive by itself. A verification result,
for example, depends on how the signature came into the object, many steps
before; this is what `AuthInv` adds. That a pair of files matches needs that nobody
else writes to a name between the two files of its owner, which `Staged` says.

That a message opens is not inductive either, since a step on the way knows nothing
of decryption. `LifeInv` says instead what the way leaves of a message, in terms of
the encrypter that made it and the names that were added, and each of the steps
keeps it; that such a message opens is then a statement about one state, proved once.

The proofs use these assumptions, which TLC evaluates in the runs (`EvenKeyAssumption`
only says for which keys `Jwe` has the whole of `decrypt`):

- `PayloadAssumption`: base64 texts are equal exactly for equal bytes, and the nil
  and the empty slice have the same.
- `ProducerAssumption` (`Jws`): recipients and signatures are lists; a foreign
  message has a payload and signatures, made with keys that their algorithms take.
- `ProducerAssumption` (`Jwe`): recipients are lists; each encrypted key of a foreign
  message is for its recipient's key and its protected header says whether its content
  is compressed. An encrypter that compresses has no extra header `zip`, which would
  overwrite the one that says so: `Decrypt` would then return compressed bytes.
- `ForeignAssumption` (`Jwe`): where the headers of a foreign message name the algorithm
  that was used, the encrypted key and the parameters are those the RFC gives for it
  (`Conveys`), and the content key fits the cipher.
- `RoundTripAssumption` (`Jwe`): the recipients of an encrypter with the same key id
  have the same key, and headers added on the way have the types of their parameters.
- `AllowAssumption`, `InputAssumption` (`Jwe`): no caller allows the empty string as an
  algorithm; sizes are natural numbers.
- `TypesAssumption`, `BoundsAssumption`: a pointer has one element type, and the
  bounds of the cache model are numbers.
- `StructsAssumption`: what a caller passes to `Claims` has members of known kinds.
- `RecipientsAssumption`, `GivenAssumption`: types of the arguments. A salt that is given is
  not one the random source hands out.
- `SizeAssumption`, `CipherAssumption` (`KeyWrap`): Encrypt and Decrypt are inverse
  permutations, and xor is its own inverse.
- `HashAssumption`, `KeySizeAssumption`: a hash value has `Size` bytes, a block
  and a counter are not empty, and a key is within the bound of the run.
- `SizeAssumption`, `InputAssumption`, `CipherAssumption` (`CbcHmac`): blocks are
  not empty and their size is a byte, inputs are byte strings within the bounds, and
  CBC decryption undoes encryption and keeps lengths.
- `SecondAssumption`, `TimesAssumption`: a second has ticks, and dates, leeways
  and skews are integers.
- `KeysAssumption`: the bound on keys is a number.
- `KeyAssumption` (`Jwk`): keys made in Go have the members of their kind, numbers
  without leading zeros and an RSA exponent that fits into an int; JSON members are
  byte strings; a certificate is of an asymmetric key or of one `x509` does not know.
  Nothing is assumed of the
  soundness of a key: it may lack members or be off its curve.

Only proved, not in a run: the type invariants (`TypeOK`, `WrapTypeOK`, `KdfTypeOK`,
as parts of the inductive invariants), `NonceProtected` (a nonce that a parsed
signature exposes comes from its protected header), `PartsKept` (`decrypt` leaves its
input for the next recipient), `AcceptedInTime` (dates, cut to seconds, are never
accepted late) and `ReturnedIsStored` (a successful `generate-key` has left its pair).

Only model-checked:

- liveness (`CallReturns`, `MarshalReturns`), which the prover cannot
  handle. `WaitersWaitOnBuilders` is the safety part of `MarshalReturns`: no circle of
  goroutines that wait for each other;
- everything about JSON texts and struct fields (`FunctionsFaithful`,
  `DecodesMeaning`, `RoundTrip`, `RulesFollowed`, `AnswersAsDocument`), which needs
  induction over the structure of the text, the value or the type, by recursive
  operators over them.

## 6. Not modelled

- Cryptographic primitives, base64 and text layout, abstracted as above; the byte
  form of ECDSA signatures, the ASN.1 conversion of `cryptosigner/` and the salt
  length of PSS. With symbolic signatures they have nothing to be composed with.
- The x5c chain and the parsing of certificates; the arithmetic of curves.
- The map that `SignerOptions` or `EncrypterOptions` share with the signer or
  encrypter made from them. The models take the extra headers as they are when a
  message is made.
- In the JSON package: the conversion of numbers to Go types, the formatting of floats,
  byte slices as base64, addressability and map keys of other kinds, the cache of
  struct fields, and a `Reader` that returns no bytes and no error for ever.
- The JSON form of an audience (a string or a list), taken as a set.
- The hash input of ECDH-ES, which `JweObject` has as a tuple of its parts.
- The other commands of jose-util and its key generator, which call the library once
  and keep no state.
