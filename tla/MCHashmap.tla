------------------------------ MODULE MCHashmap -----------------------------
(* Instances of Hashmap: three keys whose probe sequences overlap in a     *)
(* table of six entries, and one apart from them.                          *)
EXTENDS Hashmap, TLC

CONSTANTS a, b, c, d

MCKeys == {a, b, c, d}
MCHome == a :> 5 @@ b :> 5 @@ c :> 0 @@ d :> 2
=============================================================================
