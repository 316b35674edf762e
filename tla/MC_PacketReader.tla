-------------------------- MODULE MC_PacketReader --------------------------
(* Small instances of PacketReader for TLC.  The tags are the values of    *)
(* spec section 6; sizes sit on both sides of the header size and of the   *)
(* buffer limit, and one needs the high length byte.                        *)
EXTENDS PacketReader

MCFrameSizes == {1, 5, 6, 8, 9, 300}
MCFrameSizesWithZero == MCFrameSizes \cup {0}
MCBytes2 == {15, 17, 18, 66, 240}
=============================================================================
