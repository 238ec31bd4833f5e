--------------------------- MODULE MCPacketReader ---------------------------
(* Instances of PacketReader: the values are in the configurations.        *)
EXTENDS PacketReader
=============================================================================
