----------------------------- MODULE ByteStream -----------------------------
(***************************************************************************)
(* What an io.Reader over a fixed stream of bytes promises: a call with a  *)
(* buffer of n bytes returns the next n bytes, whatever sizes earlier      *)
(* calls had.                                                              *)
(***************************************************************************)
EXTENDS Naturals

CONSTANTS Stream(_),  \* the byte at a position, from 0
          MaxTotal    \* bound: bytes read in all

VARIABLES pos,  \* bytes read so far
          buf   \* the buffer the last call filled

Init == pos = 0 /\ buf = <<>>

Read(n) ==
    /\ pos + n <= MaxTotal
    /\ buf' = [j \in 1..n |-> Stream(pos + j - 1)]
    /\ pos' = pos + n

Next == \E n \in 0..MaxTotal : Read(n)

Spec == Init /\ [][Next]_<<pos, buf>>
=============================================================================
