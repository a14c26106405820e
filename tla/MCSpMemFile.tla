---------------------------- MODULE MCSpMemFile -----------------------------
(* Two byte values, blocks of one and two bytes, writes up to byte 4.      *)
EXTENDS SpMemFile
MCBlocks == [1..1 -> Bytes] \cup [1..2 -> Bytes]
=============================================================================
