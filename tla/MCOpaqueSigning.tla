-------------------------- MODULE MCOpaqueSigning ---------------------------
(***************************************************************************)
(* Two goroutines, one OpaqueSigner used directly and one inside a         *)
(* JSONWebKey.                                                             *)
(***************************************************************************)
EXTENDS OpaqueSigning

MCRecipients == <<[signer |-> "hsm", wrapped |-> FALSE], [signer |-> "kms", wrapped |-> TRUE]>>
=============================================================================
