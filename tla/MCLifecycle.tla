----------------------------- MODULE MCLifecycle -----------------------------
(* Two clients, a pool of one thread besides the main and the bus thread,  *)
(* and a keepalive period of one second.                                   *)
EXTENDS Lifecycle
CONSTANTS c1, c2

MCSlot == [c \in Clients |-> IF c = c1 THEN 1 ELSE 2]
=============================================================================
