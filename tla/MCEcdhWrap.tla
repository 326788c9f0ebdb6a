----------------------------- MODULE MCEcdhWrap -----------------------------
(***************************************************************************)
(* The reader: hash blocks of three bytes, all different, and a counter    *)
(* that wraps after four blocks.  Key wrap: halves of two bits, inputs of  *)
(* up to three halves, and a block cipher that mixes its two halves.       *)
(***************************************************************************)
EXTENDS EcdhWrap

MCByte == 0..11
MCHash == [c \in 0..3 |-> [j \in 1..3 |-> 3 * c + j - 1]]

MCHalf == 0..3
MCBlock == MCHalf \X MCHalf
MCEnc == [b \in MCBlock |-> LET n == (7 * (4 * b[1] + b[2]) + 5) % 16 IN <<n \div 4, n % 4>>]
MCDec == [b \in MCBlock |-> CHOOSE x \in MCBlock : MCEnc[x] = b]
BitXor(x, y) == ((x + y) % 2) + 2 * (((x \div 2) + (y \div 2)) % 2)
\* A half has room for the two low bits of a counter.
MCXor == [t \in 1..(6 * MaxBlocks) |-> [h \in MCHalf |-> BitXor(h, t % 4)]]
=============================================================================
