--------------------------- MODULE OpaqueSigning ----------------------------
(***************************************************************************)
(* genericSigner.Sign called by several goroutines, with OpaqueSigners     *)
(* whose keys rotate while the calls run (opaque.go, signing.go).          *)
(*                                                                         *)
(* The signer is shared and Sign takes no lock.  Per recipient, in order,  *)
(* Sign makes three calls into code it does not own: Public(), Nonce() and *)
(* SignPayload().  Each is one step here; everything Sign does between two *)
(* of them is local to the call.  A signing key is the number of rotations *)
(* its OpaqueSigner had been through when it became current.               *)
(***************************************************************************)
EXTENDS Integers, Sequences

CONSTANTS Caller,      \* goroutines that share the signer
          Signer,      \* OpaqueSigner values
          Recipients,  \* sequence of [signer, wrapped]: wrapped in a JSONWebKey or not
          MaxCalls,    \* bound: calls of Sign per goroutine
          MaxRotation  \* bound: rotations per OpaqueSigner

ASSUME RecipientsAssumption ==
    Recipients \in Seq([signer : Signer, wrapped : BOOLEAN])

VARIABLES current,   \* external: the current key of every OpaqueSigner
          issued,    \* external: how many nonces the NonceSource has handed out
          frozen,    \* <<>> before NewMultiSigner, else the keys seen then
          call,      \* the local state of each goroutine's call
          calls,     \* how many calls each goroutine has made
          returned   \* the objects Sign returned

signingVars == <<current, issued, frozen, call, calls, returned>>

Idle == [pc |-> "idle", i |-> 0, named |-> 0, nonce |-> 0, sigs |-> <<>>, began |-> <<>>]

SigningInit ==
    /\ current = [s \in Signer |-> 0]
    /\ issued = 0
    /\ frozen = <<>>
    /\ call = [c \in Caller |-> Idle]
    /\ calls = [c \in Caller |-> 0]
    /\ returned = {}

\* The key store replaces the current key of s.
Rotate(s) ==
    /\ current[s] < MaxRotation
    /\ current' = [current EXCEPT ![s] = @ + 1]
    /\ UNCHANGED <<issued, frozen, call, calls, returned>>

\* NewMultiSigner: newJWKSigner keeps the public key of a wrapped OpaqueSigner
\* (staticPublicKey); newOpaqueSigner keeps the method signer.Public.
NewMultiSigner ==
    /\ frozen = <<>>
    /\ frozen' = <<[i \in DOMAIN Recipients |-> current[Recipients[i].signer]]>>
    /\ UNCHANGED <<current, issued, call, calls, returned>>

(***************************************************************************)
(* One call of Sign.                                                       *)
(***************************************************************************)
Begin(c) ==
    /\ frozen # <<>> /\ call[c].pc = "idle" /\ calls[c] < MaxCalls
    /\ Recipients # <<>>
    /\ call' = [call EXCEPT ![c] = [Idle EXCEPT !.pc = "public", !.i = 1, !.began = current]]
    /\ calls' = [calls EXCEPT ![c] = @ + 1]
    /\ UNCHANGED <<current, issued, frozen, returned>>

GetPublicKey_Frozen(c) ==
    /\ call[c].pc = "public"
    /\ call' = [call EXCEPT ![c].pc = "nonce", ![c].named = frozen[1][call[c].i]]
    /\ UNCHANGED <<current, issued, frozen, calls, returned>>
\* recipient.getPublicKey() for the jwk or kid header.
GetPublicKey(c) ==
    LET i == call[c].i
        r == Recipients[i]
    IN  /\ call[c].pc = "public"
        /\ call' = [call EXCEPT ![c].pc = "nonce",
                                ![c].named = IF r.wrapped THEN frozen[1][i] ELSE current[r.signer]]
        /\ UNCHANGED <<current, issued, frozen, calls, returned>>

\* An error of Nonce or SignPayload makes Sign return nil and the error.
Fail(c) == call' = [call EXCEPT ![c] = Idle] /\ UNCHANGED <<current, issued, frozen, calls, returned>>

\* Mutant: the nonce is taken before the loop, once for all recipients.
Nonce_PerObject(c) ==
    /\ call[c].pc = "nonce"
    /\ \/ /\ issued' = IF call[c].i = 1 THEN issued + 1 ELSE issued
          /\ call' = [call EXCEPT ![c].pc = "sign", ![c].nonce = IF call[c].i = 1 THEN issued + 1 ELSE @]
          /\ UNCHANGED <<current, frozen, calls, returned>>
       \/ Fail(c)
\* ctx.nonceSource.Nonce(), which hands out every nonce once.
Nonce(c) ==
    /\ call[c].pc = "nonce"
    /\ \/ /\ issued' = issued + 1
          /\ call' = [call EXCEPT ![c].pc = "sign", ![c].nonce = issued + 1]
          /\ UNCHANGED <<current, frozen, calls, returned>>
       \/ Fail(c)

SigsWith(c) ==
    LET l == call[c]
        s == Recipients[l.i].signer
    IN  Append(l.sigs, [recipient |-> l.i, named |-> l.named, nonce |-> l.nonce,
                        key |-> current[s], began |-> l.began[s]])

SignPayload_SkipsFailing(c) ==
    /\ call[c].pc = "sign"
    /\ UNCHANGED <<current, issued, frozen, calls>>
    /\ \E sigs \in {SigsWith(c), call[c].sigs} :
          IF call[c].i = Len(Recipients)
          THEN /\ call' = [call EXCEPT ![c] = Idle]
               /\ returned' = returned \cup {sigs}
          ELSE /\ call' = [call EXCEPT ![c].pc = "public", ![c].i = @ + 1, ![c].sigs = sigs]
               /\ UNCHANGED returned
\* recipient.signer.signPayload signs with the key that is current by now; the
\* loop goes on to the next recipient or returns the object.
SignPayload(c) ==
    /\ call[c].pc = "sign"
    /\ \/ /\ UNCHANGED <<current, issued, frozen, calls>>
          /\ IF call[c].i = Len(Recipients)
             THEN /\ call' = [call EXCEPT ![c] = Idle]
                  /\ returned' = returned \cup {SigsWith(c)}
             ELSE /\ call' = [call EXCEPT ![c].pc = "public", ![c].i = @ + 1, ![c].sigs = SigsWith(c)]
                  /\ UNCHANGED returned
       \/ Fail(c)

Sign(c) == GetPublicKey(c) \/ Nonce(c) \/ SignPayload(c)

SigningNext ==
    \/ \E s \in Signer : Rotate(s)
    \/ NewMultiSigner
    \/ \E c \in Caller : Begin(c) \/ Sign(c)

SigningSpec == SigningInit /\ [][SigningNext]_signingVars

(***************************************************************************)
(* Properties.                                                             *)
(***************************************************************************)
Sig == [recipient : DOMAIN Recipients, named : Nat, nonce : Nat, key : Nat, began : Nat]

Local == [pc : {"idle", "public", "nonce", "sign"}, i : Nat, named : Nat, nonce : Nat,
          sigs : Seq(Sig), began : {<<>>} \cup [Signer -> Nat]]

\* Types of the shared and the local state; pc names the next external call, and
\* a call is only under way on a signer that NewMultiSigner built.
TypeOK ==
    /\ current \in [Signer -> Nat]
    /\ issued \in Nat
    /\ frozen = <<>> \/ (frozen # <<>> /\ frozen[1] \in [DOMAIN Recipients -> Nat])
    /\ call \in [Caller -> Local]
    /\ calls \in [Caller -> Nat]
    /\ returned \subseteq Seq(Sig)
    /\ \A c \in Caller : call[c].pc # "idle" => /\ call[c].i \in DOMAIN Recipients
                                               /\ call[c].began \in [Signer -> Nat]
                                               /\ frozen # <<>>

\* Sign is all or nothing: an object it returns has one signature per recipient,
\* in the order of the recipients, whatever failed in other calls meanwhile.
AllOrNothing ==
    \A o \in returned :
        DOMAIN o = DOMAIN Recipients /\ \A i \in DOMAIN o : o[i].recipient = i

\* The key an unwrapped OpaqueSigner is named by was current during the call, and
\* the key that signed is that one or a later one: without a rotation between
\* Public() and SignPayload() the two are the same.
NamedThenSigned ==
    \A o \in returned : \A i \in DOMAIN o :
        ~Recipients[o[i].recipient].wrapped =>
            o[i].began <= o[i].named /\ o[i].named <= o[i].key

\* A nonce that the NonceSource handed out is in at most one signature of all the
\* objects that Sign returned, to whichever goroutine and after whichever failures.
NonceOnce ==
    \A o, p \in returned : \A i \in DOMAIN o, j \in DOMAIN p :
        o[i].nonce = p[j].nonce => o = p /\ i = j
=============================================================================
