------------------------------ MODULE MCRingBits -------------------------------
(***************************************************************************)
(* RingBits with the bit operations themselves.                            *)
(***************************************************************************)
EXTENDS RingBits, Bitwise

WordAnd(x, y) == x & y
WordOr(x, y)  == x | y
WordShr(x, n) == shiftR(x, n)

\* The zeros below the only bit of a power of two.
ZerosBelow(n) == CHOOSE z \in 0 .. n : 2^z = n
===============================================================================
