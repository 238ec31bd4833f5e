------------------------------- MODULE MCWire -------------------------------
(* Bytes of three values, so that a uint16_t ends at 8 and a uint32_t at   *)
(* 80: texts that are empty, hold a NUL, have the greatest length a        *)
(* uint16_t takes, and the two lengths after it.                           *)
EXTENDS Wire

Repeat(n) == [i \in 1..n |-> 1 + (i % 2)]
MCTexts == {<<>>, <<1>>, <<2, 1>>, <<2, 0, 1>>, Repeat(8), Repeat(9),
            Repeat(10)}
=============================================================================
