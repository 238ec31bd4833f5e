---------------------------- MODULE MCRingBuffer ----------------------------
(* An instance of RingBuffer: bulk pushes of up to one byte too many.      *)
EXTENDS RingBuffer

MCBulks == UNION {[1..n -> Bytes] : n \in 0..(Max + 1)}
=============================================================================
