------------------------------- MODULE Pbes2 --------------------------------
(***************************************************************************)
(* Password-based recipients: symmetricKeyCipher.encryptKey for the PBES2  *)
(* algorithms, called by goroutines that share one Encrypter, and the      *)
(* checks of decryptKey on what they produce (symmetric.go, crypter.go).   *)
(*                                                                         *)
(* The cipher chooses its salt and count lazily: the first call writes     *)
(* ctx.p2s and ctx.p2c, and every call reads them several times, without a *)
(* lock.  A slice header is more than one machine word, so the store of    *)
(* ctx.p2s is two steps, in either order.  Salts are numbered; 0 is a nil  *)
(* pointer.                                                                *)
(***************************************************************************)
EXTENDS Integers

CONSTANTS Caller,      \* goroutines
          GivenSalt,   \* Recipient.PBES2Salt: 0 for none, or a salt number
          GivenCount,  \* Recipient.PBES2Count
          MaxSalts     \* bound: salts the random source hands out

defaultP2C == 600000
maxP2C     == 1000000

\* A salt the caller supplies is a number the random source does not hand out.
ASSUME GivenAssumption ==
    /\ GivenCount \in Int
    /\ GivenSalt \in Int /\ GivenSalt <= 0
    /\ MaxSalts \in Nat

VARIABLES p2s,      \* ctx.p2s: [ptr, set], set when the length word is not 0
          p2c,      \* ctx.p2c
          salts,    \* salts the random source has handed out
          call,     \* the local state of each goroutine's call
          last      \* the last return of encryptKey, with what it wrapped with

pbes2Vars == <<p2s, p2c, salts, call, last>>

\* raced is history: another goroutine stored a salt during this call.
NoReturn == [outcome |-> "none", key |-> <<0, 0>>, header |-> <<0, 0>>, raced |-> FALSE]
At(where, salt, raced) == [pc |-> where, salt |-> salt, key |-> <<0, 0>>, raced |-> raced]
Idle == At("idle", 0, FALSE)

Pbes2Init ==
    /\ p2s = [ptr |-> GivenSalt, set |-> GivenSalt # 0]
    /\ p2c = GivenCount
    /\ salts = 0
    /\ call = [c \in Caller |-> Idle]
    /\ last = NoReturn

Storing == {"store", "storeptr", "storelen"}

Return(c, ret) ==
    /\ call' = [call EXCEPT ![c] = Idle]
    /\ last' = ret
Error(c) == [NoReturn EXCEPT !.outcome = "error", !.raced = call[c].raced]
Goto(c, l) == call' = [call EXCEPT ![c] = l] /\ UNCHANGED last

CheckSalt_Always(c) ==
    /\ call[c].pc = "idle" /\ salts < MaxSalts
    /\ salts' = salts + 1
    /\ Goto(c, At("store", salts + 1, \E d \in Caller : call[d].pc \in Storing))
    /\ UNCHANGED <<p2s, p2c>>
\* if len(ctx.p2s) == 0 { getRandomSalt }, whose reader may fail.
CheckSalt(c) ==
    LET raced == \E d \in Caller : call[d].pc \in Storing
    IN  /\ call[c].pc = "idle"
        /\ UNCHANGED <<p2s, p2c>>
        /\ \/ /\ p2s.set
              /\ Goto(c, At("count", 0, raced))
              /\ UNCHANGED salts
           \/ /\ ~p2s.set /\ salts < MaxSalts
              /\ salts' = salts + 1
              /\ Goto(c, At("store", salts + 1, raced))
           \/ /\ ~p2s.set
              /\ Return(c, [Error(c) EXCEPT !.raced = raced])
              /\ UNCHANGED salts

\* ctx.p2s = salt, one word at a time, seen by every other call under way.
StoreSalt(c) ==
    LET where == call[c].pc
        next(to) == [d \in Caller |->
                        IF d = c THEN [call[c] EXCEPT !.pc = to]
                        ELSE IF call[d].pc = "idle" THEN Idle ELSE [call[d] EXCEPT !.raced = TRUE]]
    IN  /\ \/ /\ where \in {"store", "storeptr"}
              /\ p2s' = [p2s EXCEPT !.ptr = call[c].salt]
              /\ call' = next(IF where = "store" THEN "storelen" ELSE "count")
           \/ /\ where \in {"store", "storelen"}
              /\ p2s' = [p2s EXCEPT !.set = TRUE]
              /\ call' = next(IF where = "store" THEN "storeptr" ELSE "count")
        /\ UNCHANGED <<p2c, salts, last>>

SetCount_Skipped(c) ==
    /\ call[c].pc = "count"
    /\ Goto(c, [call[c] EXCEPT !.pc = "derive"])
    /\ UNCHANGED <<p2s, p2c, salts>>
\* if ctx.p2c <= 0 { ctx.p2c = defaultP2C }.
SetCount(c) ==
    /\ call[c].pc = "count"
    /\ p2c' = IF p2c <= 0 THEN defaultP2C ELSE p2c
    /\ Goto(c, [call[c] EXCEPT !.pc = "derive"])
    /\ UNCHANGED <<p2s, salts>>

\* bytes.Join and pbkdf2.Key read both fields; a non-empty slice without a
\* pointer crashes; an error of pbkdf2.Key returns an empty recipientInfo and nil.
DeriveKey(c) ==
    /\ call[c].pc = "derive"
    /\ \/ /\ p2s.set /\ p2s.ptr = 0
          /\ Return(c, [Error(c) EXCEPT !.outcome = "panic"])
       \/ /\ ~(p2s.set /\ p2s.ptr = 0)
          /\ \/ Goto(c, [call[c] EXCEPT !.pc = "header", !.key = <<p2s.ptr, p2c>>])
             \/ Return(c, [Error(c) EXCEPT !.outcome = "empty"])
    /\ UNCHANGED <<p2s, p2c, salts>>

\* KeyWrap with the derived key, then header.set of ctx.p2c and ctx.p2s.
SetHeader(c) ==
    /\ call[c].pc = "header"
    /\ \/ Return(c, [outcome |-> "ok", key |-> call[c].key, header |-> <<p2s.ptr, p2c>>,
                     raced |-> call[c].raced])
       \/ Return(c, Error(c))
    /\ UNCHANGED <<p2s, p2c, salts>>

Pbes2Next == \E c \in Caller :
            CheckSalt(c) \/ StoreSalt(c) \/ SetCount(c) \/ DeriveKey(c) \/ SetHeader(c)

Pbes2Spec == Pbes2Init /\ [][Pbes2Next]_pbes2Vars

(***************************************************************************)
(* decryptKey with the same password: the key derived from the header's    *)
(* salt and count unwraps what the derived key wrapped.                    *)
(***************************************************************************)
DecryptKeyOK(ret) ==
    LET salt == ret.header[1]
        count == ret.header[2]
    IN  salt # 0 /\ count > 0 /\ count <= maxP2C /\ ret.header = ret.key

(***************************************************************************)
(* Properties.                                                             *)
(***************************************************************************)
Outcome == [outcome : {"none", "ok", "error", "panic", "empty"}, key : Int \X Int, header : Int \X Int,
            raced : BOOLEAN]

\* Types; a call that is past its salt check has seen or stored a salt.
Pbes2TypeOK ==
    /\ p2s \in [ptr : Int, set : BOOLEAN]
    /\ p2c \in Int
    /\ salts \in Nat
    /\ call \in [Caller -> [pc : Storing \cup {"idle", "count", "derive", "header"},
                            salt : Nat, key : Int \X Int, raced : BOOLEAN]]
    /\ last \in Outcome
    /\ \A c \in Caller : call[c].pc \in {"count", "derive", "header"} => p2s.set

\* A recipient that encryptKey produced can be decrypted with the password, also
\* while other goroutines encrypt, unless one of them was storing the salt of the
\* cipher during this very call.  The one exception is a Recipient.PBES2Count above
\* the limit of decryptKey: encryptKey takes it, and no such recipient is ever opened.
EnvelopeOpens ==
    ~last.raced => /\ last.outcome # "panic"
                   /\ last.outcome = "ok" => (DecryptKeyOK(last) <=> GivenCount <= maxP2C)

\* The cold start happens once: from a state with a salt that nobody is about to
\* replace, no call ever chooses or stores another one, so every later message of
\* the Encrypter carries the same salt.
Warm == p2s.set /\ \A c \in Caller : call[c].pc \notin Storing
SaltSticks == [][Warm => Warm' /\ UNCHANGED p2s]_pbes2Vars
=============================================================================
