------------------------------- MODULE KeyWrap ------------------------------
(***************************************************************************)
(* AES key wrap, cipher/key_wrap.go: KeyWrap and KeyUnwrap round by round  *)
(* over an abstract block cipher, and the opposite call on what the first  *)
(* one returned.                                                           *)
(*                                                                         *)
(* A block of the cipher is a pair of 8-byte halves.  A byte string is a   *)
(* sequence of halves and the number of bytes that follow the last one.    *)
(***************************************************************************)
EXTENDS Integers, Sequences

CONSTANTS Half,       \* values of eight bytes
          defaultIV,
          Enc, Dec,   \* block.Encrypt and block.Decrypt as functions on blocks
          Xor,        \* Xor[t][h]: a half with the 64-bit counter t
          Extra,      \* len(input) % 8 of the inputs
          MaxBlocks   \* bound: halves in an input

ASSUME SizeAssumption == MaxBlocks \in Nat /\ Extra \subseteq 0..7

\* A block cipher is a permutation, and xor with a counter is its own inverse.
ASSUME CipherAssumption ==
    /\ defaultIV \in Half
    /\ Enc \in [Half \X Half -> Half \X Half] /\ Dec \in [Half \X Half -> Half \X Half]
    /\ \A b \in Half \X Half : Dec[Enc[b]] = b /\ Enc[Dec[b]] = b
    /\ \A h \in Half, t \in 1..(6 * MaxBlocks) : Xor[t][h] \in Half /\ Xor[t][Xor[t][h]] = h

VARIABLES pc,     \* "idle", "rounds", "returned"
          op,     \* "wrap" or "unwrap": the call that runs or ran last
          run,    \* 1 for the first call, 2 for the opposite call on its output
          input,  \* the halves the first call was given
          a, r,   \* buffer[:8] and the blocks r
          k,      \* wrap: t; unwrap: t + 1
          out,    \* what the last call returned: <<>> for an error, else <<halves>>
          path    \* history: a and r at each k of the first call

wrapVars == <<pc, op, run, input, a, r, k, out, path>>

Bytes == UNION {[1..n -> Half] : n \in 0..MaxBlocks}

WrapInit ==
    /\ pc = "idle" /\ op = "wrap" /\ run = 1 /\ k = 0
    /\ input = <<>> /\ a = defaultIV /\ r = <<>> /\ out = <<>>
    /\ path = [j \in {} |-> <<>>]

(***************************************************************************)
(* The checks and copies before the loops.                                 *)
(***************************************************************************)
Refuse == pc' = "returned" /\ out' = <<>> /\ UNCHANGED <<a, r, k, path>>

Enter(a0, r0, k0) ==
    /\ pc' = "rounds" /\ out' = <<>>
    /\ a' = a0 /\ r' = r0 /\ k' = k0
    /\ path' = IF run' = 1 THEN [j \in {k0} |-> <<a0, r0>>] ELSE path

KeyWrap(x, extra) ==
    /\ op' = "wrap"
    /\ IF extra # 0 THEN Refuse ELSE Enter(defaultIV, x, 0)

KeyUnwrap_FiveRounds(x, extra) ==
    /\ op' = "unwrap"
    /\ IF Len(x) - 1 <= 0 \/ extra # 0 THEN Refuse ELSE Enter(x[1], Tail(x), 5 * (Len(x) - 1))
KeyUnwrap(x, extra) ==
    LET n == Len(x) - 1
    IN  /\ op' = "unwrap"
        /\ IF n <= 0 \/ extra # 0 THEN Refuse ELSE Enter(x[1], Tail(x), 6 * n)

Call(o, x, extra) ==
    /\ pc = "idle"
    /\ run' = 1 /\ input' = x
    /\ IF o = "wrap" THEN KeyWrap(x, extra) ELSE KeyUnwrap(x, extra)

\* The opposite call on the output.
CallInverse ==
    /\ pc = "returned" /\ run = 1 /\ out # <<>>
    /\ run' = 2 /\ UNCHANGED input
    /\ IF op = "wrap" THEN KeyUnwrap(out[1], 0) ELSE KeyWrap(out[1], 0)

(***************************************************************************)
(* The loops.                                                              *)
(***************************************************************************)
Slot(t) == (t % Len(r)) + 1

Record ==
    path' = IF run = 1
            THEN [j \in DOMAIN path \cup {k'} |-> IF j = k' THEN <<a', r'>> ELSE path[j]]
            ELSE path

WrapRound ==
    LET b == Enc[<<a, r[Slot(k)]>>]
    IN  /\ pc = "rounds" /\ op = "wrap" /\ k < 6 * Len(r)
        /\ a' = Xor[k + 1][b[1]]
        /\ r' = [r EXCEPT ![Slot(k)] = b[2]]
        /\ k' = k + 1
        /\ Record
        /\ UNCHANGED <<pc, op, run, input, out>>

UnwrapRound ==
    LET t == k - 1
        b == Dec[<<Xor[t + 1][a], r[Slot(t)]>>]
    IN  /\ pc = "rounds" /\ op = "unwrap" /\ k > 0
        /\ a' = b[1]
        /\ r' = [r EXCEPT ![Slot(t)] = b[2]]
        /\ k' = t
        /\ Record
        /\ UNCHANGED <<pc, op, run, input, out>>

Finish(x) == pc' = "returned" /\ out' = x /\ UNCHANGED <<op, run, input, a, r, k, path>>

WrapReturn ==
    /\ pc = "rounds" /\ op = "wrap" /\ k = 6 * Len(r)
    /\ Finish(<<(<<a>> \o r)>>)

UnwrapReturn_NoCheck ==
    /\ pc = "rounds" /\ op = "unwrap" /\ k = 0
    /\ Finish(<<r>>)
UnwrapReturn ==
    /\ pc = "rounds" /\ op = "unwrap" /\ k = 0
    /\ Finish(IF a = defaultIV THEN <<r>> ELSE <<>>)

WrapNext ==
    \/ \E o \in {"wrap", "unwrap"}, x \in Bytes, extra \in Extra : Call(o, x, extra)
    \/ CallInverse
    \/ WrapRound
    \/ UnwrapRound
    \/ WrapReturn
    \/ UnwrapReturn

(***************************************************************************)
(* Properties.                                                             *)
(***************************************************************************)
\* Types; the round counter stays in the loop's range, and a round always has a
\* block to work on, so t % n never divides by zero.
WrapTypeOK ==
    /\ pc \in {"idle", "rounds", "returned"} /\ op \in {"wrap", "unwrap"} /\ run \in {1, 2}
    /\ input \in Seq(Half)
    /\ a \in Half /\ r \in Seq(Half)
    /\ k \in 0..(6 * Len(r)) /\ Len(r) <= MaxBlocks
    /\ out = <<>> \/ (Len(out) = 1 /\ out[1] \in Seq(Half))
    /\ pc = "rounds" /\ op = "unwrap" => Len(r) > 0

Second == pc = "returned" /\ run = 2

\* KeyUnwrap returns exactly the key that KeyWrap was given, for every key of at
\* least one block; a key of no blocks wraps, and KeyUnwrap calls it too short.
UnwrapInvertsWrap ==
    Second /\ op = "unwrap" => out = IF input = <<>> THEN <<>> ELSE <<input>>

\* KeyUnwrap accepts nothing but outputs of KeyWrap: the key it returns for any
\* input at all wraps to that very input.
AcceptsOnlyWrapped ==
    Second /\ op = "wrap" => out = <<input>>
=============================================================================
