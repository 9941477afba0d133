---------------------------- MODULE MCPacketLine ----------------------------
(***************************************************************************)
(* PacketLine for TLC: a message of one packet, one of two fragments and   *)
(* one with more fragments than the scaled u16 counts, made of the bytes   *)
(* that the framings escape.                                               *)
(***************************************************************************)
EXTENDS PacketLine

MCMessages == {<<FLAG, FESC>>, <<ESC, FEND, 5>>, <<10, 11, 12, 13, 14, 15, 16>>}
MCDestination == <<7, 8, 9>>
MCNoiseBytes == {FLAG, ESC}
=============================================================================
