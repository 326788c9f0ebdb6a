------------------------------ MODULE MCCbcHmac -----------------------------
(***************************************************************************)
(* Bytes of two bits, blocks and nonces of two bytes, keys of 4 and 8      *)
(* bytes instead of 32, 48 and 64, and a fixed permutation as the block    *)
(* cipher.                                                                 *)
(***************************************************************************)
EXTENDS CbcHmac, TLC

MCXor(p, q) ==
    LET x(a, b) == 2 * (((a \div 2) + (b \div 2)) % 2) + (((a % 2) + (b % 2)) % 2)
    IN  [i \in 1..2 |-> <<x(p[i][1], q[i][1])>>]

BlockEnc == [b \in [1..2 -> Byte] |-> <<(<<(b[2][1] + 1) % 4>>), <<(b[1][1] + 3 * b[2][1]) % 4>> >>]
BlockDec == [b \in [1..2 -> Byte] |-> CHOOSE p \in [1..2 -> Byte] : BlockEnc[p] = b]

Block(b, i) == SubSeq(b, 2 * i - 1, 2 * i)

MCEncrypt(iv, b) ==
    LET c[i \in 0..(Len(b) \div 2)] == IF i = 0 THEN iv ELSE BlockEnc[MCXor(Block(b, i), c[i - 1])]
    IN  [k \in 1..Len(b) |-> c[(k + 1) \div 2][((k + 1) % 2) + 1]]

MCDecrypt(iv, b) ==
    LET p(i) == MCXor(BlockDec[Block(b, i)], IF i = 1 THEN iv ELSE Block(b, i - 1))
    IN  [k \in 1..Len(b) |-> p((k + 1) \div 2)[((k + 1) % 2) + 1]]

S(o, l, c) == [off |-> o, len |-> l, cap |-> c]

MCMemory == <<(<<1>>), <<2>>, <<2>>, <<0>>, <<3>>, <<1>>, <<1>>, <<2>> >>
MCAads == {<<>>, <<(<<1>>), <<0>> >>}
MCNonces == {<<(<<1>>), <<2>> >>}

\* Slices of the memory that overlap, touch and lie apart, with and without room
\* behind them.
MCSources == {S(0, 0, 8), S(1, 2, 7), S(2, 4, 6), S(4, 3, 4)}
MCRooms == {S(0, 0, 0), S(2, 0, 6), S(1, 1, 4), S(0, 2, 7)}

\* Ciphertexts of another producer: none, half a block and whole blocks.
MCForms == {<<>>, <<(<<1>>)>>} \cup {<<x, y>> : x \in {<<0>>, <<2>>}, y \in Byte}
=============================================================================
